# Formal model of WorkFromPhone

TLA+ modules, TLC configurations and TLAPS proofs for the backend and the
mobile client of WorkFromPhone. Paths are those of the repository;
`terminal_service.py` and the like without a directory are under
`backend/src/backend/services/`, `*.dart` under `lib/services/`.

To check a run: `tlc -config Pty.cfg PtySessions.tla`. To check the
proofs of a module: `tlapm PtySessionsProofs.tla`, and likewise for every
module whose name ends in `Proofs`. `PROJECT.json` lists the runs, the lines
each definition models, the hazards and the theorems.

## 1. The system

A Flutter client talks to a FastAPI backend by REST, server-sent events and
websockets. The backend is one asyncio event loop in one process: code between
two awaits is atomic, everything else interleaves. Workers are threads
(`asyncio.to_thread`), child processes (shells, commands, `git`, `nvidia-smi`)
and remote services (the language model provider, search engines). There is no
database; what persists is files, the client's shared preferences and git.

| component | state | operations | talks to |
|---|---|---|---|
| Interactive terminals, `terminal_service.py` | `_active_ptys`; per socket a PTY, a process, two tasks | `handle_websocket`, `stream_output`, `receive_input`, `terminate_process_group` | the shell and its jobs, the client's socket |
| Terminal client, `terminal_session.dart` | state, generation, keepalive timer | connect, send, resize, keepalive, dispose | the terminal socket |
| Run command, `terminal_service.py` | a process and its capped output | `run_command`, `communicate_with_cap` | the agent, git, the REST endpoint |
| Coding agent loop, `harness_service.py` | the conversation, the current attempt and stream, usage | `run_agentic_task_stream`, `execute_tool`, text tool calls | provider, files, commands, git, previews; the client by SSE |
| General chat and model list, `harness_service.py` | attempt, stream, messages | `run_general_chat_stream`, `fetch_models` | provider, search; the client by SSE |
| Search, `search_service.py` | none | `search`, redirects, fallbacks | SearXNG, a web engine |
| Preview registry, `preview_service.py` | `_entries`, `_listeners`, a lock | `register`, `unregister`, `clear_project`, `attach`, `detach`, `_broadcast`, `handle_websocket` | REST and agent tools change it, sockets listen |
| Preview client, `preview_session.dart` | `_entries`, generation, timer, channel, state | `start`, `stop`, `_connect`, `_applyFrame`, `_scheduleReconnect` | the preview socket |
| System monitor, `system_service.py` | last sample, GPU cache, a lock | `snapshot`, `handle_websocket` | worker threads, `/proc`, `nvidia-smi`, the client |
| System monitor client, `system_monitor_session.dart` | as the preview client | as the preview client | the monitor socket |
| Authentication and limits, `core/auth.py`, `core/security.py`, `core/middleware.py`, `main.py` | tables of recent requests and of wrong PINs | `RateLimiter.allowed`, bearer check, body limit, `AttemptLimiter` | every request |
| Artifacts, `artifact_service.py`, `main.py` | one JSON file each, with expiry, views and PIN | publish, view, collect, delete | agent tool, share links |
| Files and uploads, `endpoints/fs.py`, `fs_service.py` | the file system | list, read, write, create, delete, upload by parts | client, agent |
| Git, `git_service.py` | the repository, its `index.lock` | status, stage, unstage, commit, discard, pull; diff, push, branches | `git` |
| Chat clients, `chat_service.dart`, `general_chat_service.dart` | a cancel flag, the request under way | run, cancel, read SSE | agent loop, general chat |
| Client storage, `storage_service.dart` | lists in shared preferences and secure storage | load, change, save whole | screens |
| API client and remote set-up | profiles, an SSH client and its tunnel | requests, install, forward | backend, SSH |
| Android container, `android/.../container` | guest process, `running`, `starting`, set-up job | start, stop, boot, install | proot, method channel |
| User interface, packaging | widgets; scripts | presentation; installation | all of the above |

What is hard here:

* **Interleaving at awaits.** A terminal handler has ten suspension points, and
  the shell, its jobs and the client act between any two of them. Broadcasts of
  the preview registry overlap. An upload awaits every chunk, and a git
  request every command, while other requests change the same directory.
  `start`, `stop` and timers of a client session run while an earlier one waits
  for a channel to close.
* **Threads.** Every snapshot of the host is a thread of its own.
* **Partial failure.** A terminal may fail after the slot, the descriptor, the
  process or the tasks have been made; an upload after some of its files; an
  artifact's file after it was truncated; a git request between two commands.
* **Crash and restart.** What a dead server leaves: torn files, temporary files,
  `.git/index.lock`, and limiters that start empty.
* **Timeouts and retries.** SIGTERM then SIGKILL; a grace period for output; an
  output limit that races a timeout; an idle limit; provider retries with
  separate conditions; reconnects that three reports of one failure ask for.
* **Bounded tables.** Limiters prune, bound and evict while they count.
* **Endings.** Everything that starts must end, once, and say so: a terminal
  slot, a command, an agent run, a chat, a broadcast, a monitor's stream, a
  reconnecting session.

`PROJECT.json` lists the hazards at their lines, with the property that would
catch each, or why none does.

What would make each component correct, in a sentence, and where it is stated:
slots and processes are accounted for (`SlotAccounting`,
`NothingOutlivesHandler`); a command's answer is true and final (`OutputIsTrue`,
`AnswerIsFinal`, `Answered`); a run of the agent is a sequence of turns
(`ImplementsTurns`); a chat is one attempt's text with one end
(`OneAttemptsText`, `EndsWell`); a search fetches what was checked
(`FetchesSafe`); phones show the registry (`NoLostChange`); a session leaves no
channel behind and is one link that is lost and tried again (`NoOrphanChannel`,
`ImplementsOneLink`);
rates tile the time (`SamplesTile`); limits are exact in both directions
(`GateHolds`, `RefusedOnlyWhenFull`); artifacts are lost only for a cause
(`ArtifactsLast`); uploads are atomic, file by file, and clean up (`ImplementsUploads`,
`UploadsLand`); and what git's requests are told is true of the repository
(`AnswersAreTrue`, `NoCollateral`).

## 2. The modules

| module | models | role |
|---|---|---|
| `PtySessions` | every run of `TerminalService.handle_websocket`, with its shell, jobs and client | component |
| `Commands` | `run_command`, `communicate_with_cap` and its other callers, `terminate_process_group` | component |
| `AgentTurns` | what a run of the agent promises, as turns | abstract specification |
| `AgentLoop` | `run_agentic_task_stream`; implements `AgentTurns` | component, refinement |
| `WebSearch` | `SearchService.search` | component |
| `GeneralChat` | `run_general_chat_stream` and `fetch_models`, with `WebSearch` inside | component and composition |
| `PreviewRegistry` | `PreviewRegistry` of the backend with the lists of `PreviewSession` on the phones and the network between them | components and their composition |
| `OneLink` | what a session that keeps a stream promises, as one link | abstract specification |
| `ReconnectSession` | the connection life cycle of `PreviewSession` and, with the same code, `SystemMonitorSession`; implements `OneLink` | component, refinement |
| `SystemMonitor` | `SystemService.snapshot`, its lock, rates and GPU cache, and the streams | component |
| `RequestGate` | the rate limiters, the bearer check and the body limit | component |
| `ArtifactShare` | `ArtifactService`, the PIN limiter and their routes, behind `RequestGate` | component and composition |
| `AtomicUploads` | what an upload of several files promises to whoever shares its directory | abstract specification |
| `ProjectFiles` | the handlers and tools that change files, the upload in steps; implements `AtomicUploads` | component, refinement |
| `GitWorktree` | `GitService` on the files of `ProjectFiles` | component and composition |
| `MCPreviewRegistry`, `MCArtifactShare`, `MCGitWorktree` | symmetry and the limits of buckets | TLC |
| `PtySessionsProofs`, `CommandsProofs`, `AgentLoopProofs`, `GeneralChatProofs`, `PreviewProofs`, `SystemMonitorProofs`, `ArtifactShareProofs`, `GitWorktreeProofs` | safety for all constants, section 5 | proofs |

Operators whose comment begins with "Variant" or "Mutation" are not part of a
specification. Each is the definition after it with a plausible slip: a dropped
guard, a missing reset, an off-by-one. Put in its place, it makes one property
fail, which shows that the property depends on that line of the code.

### PtySessions

One value of `pc[s]` per await of `handle_websocket`. The code up to the next
await is one action:

| `pc` | the handler awaits | next |
|---|---|---|
| `idle` | (not called yet) | `Refuse`, `Accept` |
| `spawning` | `create_subprocess_exec` | `Spawned`, `SpawnFails` |
| `readying` | the ready frame | `SendReady`, `SendRaises` |
| `running` | `asyncio.wait` on `receive_input` and `process.wait` | `WakeOnExit`, `WakeOnReceive` |
| `grace` | `stream_output`, five seconds at most | `Drained`, `DrainRaises`, `GraceTimeout` |
| `exiting`, `closing` | the exit frame, `websocket.close` | `SendExit`, `CloseSocket`, `SendRaises` |
| `failing` | the error frame of `except Exception` | `ErrorSent` |
| `terminating` | `process.wait`, one second at most, after SIGTERM | `TermDone`, `TermTimeout` |
| `killing` | `process.wait` after SIGKILL | `KillDone` |
| `gathering` | the cancelled tasks | `Gathered` |
| `refused`, `done` | (returned) | |

`EnterFinally` is the part of `finally` up to its first await: the slot goes
back (`max(0, n - 1)`), then `terminate_process_group` looks at `returncode`
and signals. `TermTimeout` sends SIGKILL without another look at it, as the code
does. The shell goes `boot` (the bootstrap of
`_PTY_SHELL_BOOTSTRAP`, which calls `setsid`) to `shell`, `zombie` (dead,
`returncode` not set, whether or not the child watcher has called `waitpid`) and
`reaped`. A job it leaves behind holds the PTY slave,
in the shell's process group or in one of its own. `unsent` is output that the
client has not been sent yet (`Prints`, `SendOutput`); `stream_output` ends when
there is none and nobody holds the slave. `receive_input` is a variable
of its own: it may wait for a frame or for `os.write` in a worker thread, which may
raise, and may never return while the shell does not read. Time is
counted in the client's keepalive periods of 30 s; a receive that times out
lasts two. Bytes, sizes and the text of frames are left out.

### Commands

One command of one of the four callers of `communicate_with_cap`: `"terminal"`
is `run_command`, `"agent"` and `"search"` are the `run_terminal_command` and
`search_project` tools of `execute_tool`, `"git"` is `_run_git_cmd`. They share
the pumps and differ at the limit (`terminate_process_group`, `process.kill`, or
nothing), at the timeout, in whether the answer says that it was cut (`Told`:
`search_project` throws the flag away), and when their own client leaves, which is
the agent's and cancels either of its tools: `KillsGroup`,
`ReadOver`, `Timeout` and `Leave` have those branches. `pump[s]` is the task that
reads a pipe: `reading`, in the `callback` at the limit, `draining` what follows,
`done`, or `raised`, where `process.kill` found a process that the transport
already took for gone (`Forgotten`). `pc` is the caller: in the `gather` of the
pumps, in `process.wait`, `late` after the timeout, and then one of `Ended`.
`term[w]` is a call of `terminate_process_group` by a pump or by the caller. A
read takes any number of the chunks that are there. The command may start a job
that keeps some of its pipes, in its group or outside of it.

### AgentLoop and AgentTurns

`AgentLoop` is one run against a provider that may do anything: any status, a
network error before or in the stream, any order of text, tool call pieces and
usage lines, a stream cut short, tool calls as structure or in the text, and
text or usage the code cannot digest. `pc` names where the generator is; an
attempt starts with `FreshAttempt`, and every failed one ends in `RetryOrFail` or
`Fail`, as the code's three conditions do. Tools take one step to start and one to
answer: what they do is in `Commands` and `ProjectFiles`, and the client may leave
at any point. `Garbled` and `Unsortable` are the code after the stream and outside every `try`,
where the text is parsed and the indices of the calls are sorted, of whatever types
the provider made them: what raises there ends the generator with neither a done nor
an error event, and the model keeps that outcome as `crashed`.

`AgentTurns` knows nothing of attempts and streams: a turn may owe results; they
are paid in order before the next turn or the end; there are at most `MaxTurns`
turns; the run ends. `ImplementsTurns` maps `phase` to how `pc` ended, `turn` to
the number of assistant messages and `owed` to the calls without a result.

### WebSearch and GeneralChat

A search has three stages, `get` and `post` at the configured instance and `web`
at the fixed engine. A URL is only known by what `assert_safe_outbound_url` says
of it: the stage's own (`home`), or a redirect's target, `safe` or `unsafe`.
`Responds` is one request with what follows it: a redirect, results, a fallback.
`Raises` is what the check and the request may raise, which goes to the fallback.
`homeSafe` says whether the configured instance itself passes the check; the web
engine's URL is a literal and is not checked.

`GeneralChat` puts that search before a completion (`SearchAsked`, `Searching`,
`SearchDone`; what the search itself raises is a notice, `SearchRaises`) and relays
the stream. `said` is every event the client was sent,
with its attempt. `Fails` is what may be retried, a rate limit or a network error;
`FailsForGood` everything else; both end in the one terminal event. `fetch_models`
is the other value of `request`, with the same loop and no stream. `messages` is
counted in the payload's list, which the search extends in place.

### PreviewRegistry

A task that changes the registry keeps the event loop (`loop = t`) until a send
suspends it. `SendText` puts the frame on the connection and then may wait for a
client that does not read; `SendRaises` is a send to a connection that is closed
or closing, which may have to wait for the close handshake before it raises.
That order, frame first and wait second, is how the server library behind
`WebSocket.send_text` works; since frames of one connection are in order, to
wait first would show a phone the same frames in the same order. `Attach` is the
accept, the copy of the registry, the registration as a listener and the
snapshot, whose send may wait as well (`attaching`); when it raises, at once or after
the wait, the listener stays (`AttachRaises`): `attach` is outside the `try`. The registry's lock is never held across an
await, so that it is not in the model.

A phone (`Connect`, `ReadFrame`, `Drop`) keeps its list from one connection to
the next, as `_entries` of `PreviewSession` does, and replaces it when a snapshot
comes. `stalled`, `Notice` and `CloseDone` are the network and the server
library's pings, mapped as external.

### ReconnectSession and OneLink

Each `_connect` and `stop` takes the next `_generation`, and the model names by
it the call and the channel it opens. `Supersede` is what both do before they
wait: the new generation, and `_closeChannel` up to `sink.close()`. Afterwards
every callback first compares its generation (`Stale`). A failed connection is
reported up to three times: `ready` throws (`ConnectFails`), the stream's
`onError` (`StreamErrs`) and its `onDone` (`StreamDone`); that is what
`web_socket_channel` 3.0.3 does, the version `pubspec.lock` names. A refused token
that reaches the client as a close code is `AuthClose`; one refused before the
socket is accepted, as `auth.py` does, is a failed handshake, one of the reasons of `ConnectFails`, and the
session does what it does for a lost network. The
names `sessionVars`, `SessionInit`, `SessionNext`, `SessionSpec` and `SessionTypeOK`
keep it apart from `PreviewRegistry`, the other half of the same socket.

`OneLink` has no generations, channels or timers: a link that is `off`, `dialing`,
`connecting`, `open`, `waiting` or `refused`, and the number lost since the last good
sign. A loss is one step, which waits longer each time; a stop is possible at
any point and takes effect at once. `Link` maps a session to it by its last
generation and its timer; a channel that fails without a timer would map to
nothing `OneLink` knows.

### SystemMonitor

Each snapshot is a worker thread: `Ask` starts it, `Acquire` takes `_lock`, then
`ReadCounters`, `Sample` and the GPU list (`GpuCached`, or `GpuAsked` and, after
`nvidia-smi`, `GpuAnswers`) are taken under it; the lock goes with the end of the
snapshot, before `Send`. How long each reading takes is left open.
One counter stands for the four that are read, compared and kept alike; it may
fail to be read, and start over. `last` is the one row of samples all phones share.
`tiled` adds up the spans and bytes of all rates. A reading behind the sample may
raise (`Raises`), which ends the client's stream and releases the lock.

### RequestGate and ArtifactShare

`Arrive` is one request at the three middlewares in the order `create_app` nests
them: `Allowed` is `RateLimiter.allowed` with its pruning, bound and eviction,
`Verdict` what the bearer check and the declared body length say. The checks of
tokens, hosts and paths are given by their verdicts. A body then comes in chunks
(`LastChunk`, `BodyTooLarge`), between which others arrive, time passes and the
server may restart. `admitted` records what was let through, so that the limit can
be stated apart from the table that enforces it.

`ArtifactShare` extends it with what the `share` and `artifacts` routes do once
their body is there; they run without an await, so that a request is served in one
step. `Writes` is `_write_private_json`: the file is written, or could not be
opened, or was truncated and not written. `Restart` keeps the files, empties the
limiters, and tears the file of a write it interrupts. `Collected` is
`_gc_expired` and the sweep of `list_artifacts`. `ViewLocked` is the PIN path of
`_view_shared_artifact`, `Bounded` the `_prune` and `_enforce_bounds` of
`AttemptLimiter`. A link has `Spellings`: `_get_artifact_path` drops what is no letter,
digit, `-` or `_` and cuts at 128 characters (`FileOf`), while the PIN limiter is keyed by
the token as the URL has it (`main.py:259`), so that `fails` and `wrong` are per
spelling and `files` per token.

### ProjectFiles, AtomicUploads and GitWorktree

`tree` is a directory with files, folders and links, also out of the project;
`Resolve` follows them as `Path.resolve` does. Every handler but the upload runs
without an await and is one step. `upload_files` has its states: `UploadStart`
checks all names, `ReadChunk` a chunk with the two limits and a full disk,
`Replace` the `os.replace`, `Closed` the `finally` of one file and the start of
the next. `temps` are the temporary files. `FilesCrash` is the death of the server.

`AtomicUploads` has no chunks, limits or temporary files. A request is refused, or its
names are distinct and free (or may be overwritten) at that moment; then file `k`
takes its place after the `k - 1` before it, each in one step; the upload succeeds
when all are there and may fail or be lost before. `Elsewhere` is everything else
that happens to the directory; it may delete and copy what an upload has placed,
and has nothing of an upload that has placed nothing. In the mapping `shown` is
where a file's content is, `phase` is `PhaseOf` (`reading` and `closing` are one), and
`taken` is what `Path.exists` finds.

`GitWorktree` adds `head`, `index`, `index.lock` and the requests. A request is a
sequence of commands: `After` says which command or answer follows an exit code,
`First` which comes first. `Launch` takes the lock or fails; a `status` takes it only
when it is free, to write back what it refreshed (`Locking`). `Ends` runs the command
to its end. `Breaks` is a command that is killed at its timeout or at the output
limit, or fails by itself, before or after it did its work, and may leave its lock; a
status that broke is parsed for what it had said. `KillRaises` is the
`ProcessLookupError` of a kill that comes after the end, which ends the request.
`Deletes` is what a discard removes itself after its `log`: untracked paths of a
status two commands ago. `Crash` is the death of the server during an upload or any
git request.

Git takes paths for pathspecs: `Matches` gives the paths each one matches, itself
among them, and the commands act on what is `Reached`. `_assert_contained_paths` and the
deletions of a discard go by name. What the commands themselves do (`CanRun`, `Effect`,
`Pulls`) is git's, modelled from the arguments `GitService` gives, and mapped as
external. Uploads, edits and a second git request run between any two commands,
and `touched` records what they changed since.

### How they are composed

`ArtifactShare` extends `RequestGate`, `GitWorktree` extends `ProjectFiles`, and
`GeneralChat` extends `WebSearch`: one state and one `Next` for both. In each, the
first module's steps leave the second one's variables alone and the other way
round, except where the code joins them: the route a request reaches, the files
git and the editor share, the results a chat sends on. `PreviewRegistry` holds
backend, network and phones in one module. `AgentLoop` and `Commands` meet at the
tool call: a run that is left while a tool works is `Leave` in both.

## 3. Runs

| run | properties | question | result |
|---|---|---|---|
| `Pty` | `SlotAccounting` `SlotLimit` `NothingOutlivesHandler` `ExitFollowsOutput` `SlotIsFreed` `TeardownEnds` | Are slots accounted for, is everything of a session cleaned up, and does the exit frame come after all output, on every path? Do an exit and a disconnect free the slot, and does the teardown end? Two sessions, one slot, a bootstrap of any speed | holds, but for a slot whose write into the PTY waits for ever and a SIGKILL that comes before `setsid` |
| `Commands` | `OutputIsTrue` `AnswerIsFinal` `Answered` | Is every command answered, with output that is complete, said not to be, or a search's that fills the limit, and is nothing of it left running or signalled? | holds |
| `AgentLoop` | `EndsOnce` `NoReplay` `AnsweredInOrder` `UsageOncePerStep` `RunEnds` `ImplementsTurns` | Does a run end once, answer every call in order, repeat no text, count usage once, and implement `AgentTurns`? | holds |
| `Chat` | `FetchesSafe` `EndsWell` `OneAttemptsText` `ChatEnds` | Does a search fetch only what was checked, and is a chat one attempt's text with one end? | holds |
| `PreviewPrompt` | `NoLostChange` `DeadAreSwept` | With sends that never wait, do phones that drop and reconnect at any time end up with the registry's list? Are dead listeners swept? | holds |
| `PreviewSlow` | `NeverDropsLive` `BroadcastsEnd` | With clients that stop reading: do broadcasts end, and do they leave live listeners alone? | holds |
| `PreviewV_EveryBroadcastShown` | `EveryBroadcastShown` | "broadcasts every change", but for `clear_project`, with slow clients | fails: two broadcasts overtake each other |
| `Reconnect` | `NoOrphanChannel` `RetriesPaced` `ImplementsOneLink` `ShownTruly` | Do starts, stops, timers and slow closes in any order keep one timer, no orphan channel and an honest state, and is a session one link that is lost and tried again? | holds |
| `System` | `SamplesTile` `GpuSpared` `LeaverForgotten` | Do phones that share one row of samples count every second and byte once, spare `nvidia-smi`, and go when they hang up? | holds |
| `Sharing` | `GateHolds` `StoreHolds` `RefusedOnlyWhenFull` `ArtifactsLast` | Are the limits exact in both directions, and are artifacts lost only for a cause and never back, through failed writes and restarts? | holds |
| `Workspace` | `UploadsLand` `AnswersAreTrue` `ImplementsUploads` | Are uploads atomic, file by file, and are git's answers true, while an upload, git and the editor share a directory, commands break and the server dies? | holds |
| `Repository` | `AnswersAreTrue` `NoCollateral` | Two git requests, or one and an edit, with a path that is also a pattern, a lock left behind and a crash: are the answers true, and does what the paths do not match stay? | holds |

Some properties are conjunctions of parts with names of their own:

| property | parts |
|---|---|
| `OutputIsTrue` | `WithinCap`: the pumps together keep no more than the limit; `CompleteOrTold` |
| `AnswerIsFinal` | `AnswerMeansReaped`; `NoLateSignal` |
| `FetchesSafe` | `OnlyChecked` at every hop; `QueryStaysHome`: the words do not follow a redirect; `FetchesBounded` |
| `EndsWell` | `EndsOnceLast`; `NeverSpent`: the code behind the loop of attempts is not reached |
| `RetriesPaced` | `OneTimer`; `BackoffCountsFailures`, not their reports; `RejectionStops`; `NeverStranded` |
| `ShownTruly` | `ShownConnected`; `ShownStopped` |
| `GpuSpared` | `GpuFresh`; `GpuRarely`: once in the time to live, failures included |
| `GateHolds` | `WindowLimit`; `KeysBounded`; `GateOrder`: only the authorised have a body read |
| `StoreHolds` | `TypeOK`; `AttemptsBounded`: wrong PINs in a window, for each spelling of a link; `ViewsCounted`; `CapHolds` |
| `ArtifactsLast` | `LossNeedsCause`; `GoneForGood` |
| `UploadsLand` | `FilesTypes`; `WholeUploads`; `TempsRemoved`; `PlacedPrefix`: the placed files are a beginning of the batch |
| `AnswersAreTrue` | `TypeOK`; `LockExplained`; `SuccessIsTrue`; `CommitAllIsAll`; `CleanIsClean` |

Where the code falls short of the simplest form of a property, the property names
the exception, and the exception is a finding of the model. `AtomicUploads` asks for free names only at
the request, so that an upload without overwrite replaces what appeared during its
awaits. `CommitAllIsAll`: a commit does not look at the exit code of its own `add -A`.
`CleanIsClean`: a path with a conflict is in no list, and a status that failed or was
killed is parsed all the same, its missing output as a clean tree. `SuccessIsTrue` and
`NoCollateral`: discarding an untracked link deletes its target and leaves the link;
what a path matches as a pattern goes with it; and after a broken status the discard
of a new file answers success and restores the others its name matches, the file itself
stays. `OutputIsTrue`: a search whose output
fills the limit does not say that it was cut. `AnswerMeansReaped`: a client who
leaves also leaves his command running. `EndsOnce`: a crashed run tells its client
of no end. `SlotIsFreed`: a write into a full PTY hides the disconnect. `TeardownEnds`: a
SIGKILL before `setsid` reaches nobody. `AttemptsBounded`: the window is one spelling's.
`NoLostChange`: `clear_project` broadcasts nothing.

Deadlock is not checked: sessions, runs and bounded environments all come to an
end in which nothing is left to do. That nobody waits for ever is what the
liveness properties say.

### Bounds, and why they are enough

* `Pty`: two sessions and one slot. Handlers meet only in `_active_ptys`;
  two show every competition for a slot, and the proofs cover any number. The idle limit
  is 3 periods instead of 20, so that one receive timeout does not reach it and two do.
* `Commands`: all four callers; a limit of 3 chunks, 3 chunks written to each pipe,
  pipes of 2. Both pipes can cross the limit, alone or together, one can be full
  while the other is at its end, and writers block.
* `AgentLoop`: 2 steps, 2 retries (the code has 50 and 5 unless told otherwise), 2 calls
  a turn, 3 lines a stream. Three lines allow text, usage and a tool call
  in any order before a failure; two retries allow a retry after a retry; two
  calls allow `task_completed` before another call; two steps allow the ids
  `call_text_0` and usage of one turn to meet those of the next.
* `Chat`: the code's own limits on redirects (4 and 5), one result, 2 retries,
  2 lines: text then failure, usage then failure, and both. 4.3 million states.
* `PreviewPrompt`: two phones with two connections each, two ids in two projects,
  two changes. A phone that reconnects has a kept list and a new snapshot, and two
  changes include register then unregister, a take-over of an id by another
  project and a clear. One task is enough: without suspension only one
  broadcast exists at a time.
* `PreviewSlow` needs two tasks and two changes for an overlap, and one id, on
  which all changes then meet.
* `Reconnect`: six generations, e.g. start, lost, timer, stop, start, stop while the
  first channel still closes. `call`, `chan` and `old` hold no counters; a seventh
  generation repeats what six show.
* `System`: two phones, a time to live of 2 in a clock up to 4, one byte, one fault.
  The list can expire twice, a phone can wait for the lock across an expiry, and the
  byte can flow between any two readings.
* `Sharing`: two addresses, three tokens, three kinds of path, three requests. With a
  limit of 1 in the default bucket an address is refused and comes back while there are
  requests to spare; the limit of 2 of the terminal bucket is met too. A window of 2 in a
  clock up to 2 lets stamps outlive and leave it; tables of
  one key evict at the second, and an address that was evicted may come again at once; a
  cap of 2 with three tokens, one wrong PIN and one
  failed write of each file meet every limit of the store. One of the tokens has a
  second spelling; the others' are their own.
* `Workspace`: two paths, which may be links to each other or out; one upload of up
  to two files of one chunk, one git request, and of all requests two (an upload
  against git, an edit against either). 3.9 million states.
* `Repository`: two git requests, or one and an edit, on two paths, one of which is a
  pattern that matches both. Two requests are what a lock takes: the first leaves it
  behind, when it breaks or the server dies, and the second meets it. One command
  breaks, so that the other's answer is not excused. The other path may be in conflict
  from the beginning, and either may be after a pull. 8.8 million states.

`MaxConns`, `MaxChanges`, `MaxLines`, `MaxCalls`, `MaxGeneration`, `MaxRequests`,
`MaxTime`, `MaxFaults`, `Conflicts`, `MaxOutput`, `MaxBytes` of `SystemMonitor`
and `MaxActs` bound only the environment or the length of a behaviour. Symmetry is
used only in runs that check safety.

### Fairness

* `PtySessions`: the event loop resumes what is ready and timers fire (weak
  fairness of a started handler), `receive_text` sees a disconnect, the child
  watcher reaps, and the bootstrap gets to `setsid`. Nobody has to type, leave, exit
  or end a job, and a write into the PTY need not end: `os.write` into a full PTY waits
  until the shell reads. `SlotIsFreed` therefore speaks of a client that has left while
  `receive_input` is not in a write. `TeardownEnds` speaks of a handler that waits for a
  shell that has called `setsid`: no fairness orders the bootstrap before the SIGKILL.
* `Commands`: the child watcher reaps, the caller's timeout fires and what follows
  it runs, and `terminate_process_group` as called by the caller goes on. The
  pumps, the processes and the client owe nothing: the answer does not depend on
  them. It is assumed that asyncio's `Process.wait` returns when the process ends.
* `AgentLoop` and `GeneralChat`: weak fairness of `Work` as a whole. Requests, tools
  and sleeps have timeouts; streams have `MaxLines` lines. Which step is next is
  the provider's choice.
* `PreviewRegistry`: a task that has the loop or was woken runs; a client that is
  there reads sooner or later; one that left is noticed by the server library's
  pings; a close handshake ends. No phone has to connect and no change has to
  come.
* `SystemMonitor`: threads run, sends return, and the sleep between two snapshots
  ends. Taking the lock is strongly fair: a `threading.Lock` promises no order,
  but its other takers sleep for a second or more after each snapshot, and a
  thread that waits gets it in that time. Nobody has to watch or to hang up.
* `ReconnectSession`, `ArtifactShare` and `GitWorktree` state safety only.
  `NeverStranded` is the safety part of "it reconnects": something is always ahead.

## 4. What the failing run shows, and what else the code does

`PreviewV_EveryBroadcastShown` is a disagreement between the code and a sentence of
the repository, quoted in `PROJECT.json`. `_broadcast` awaits each send outside the
lock. While one waits for a slow phone, a later one overtakes it, and the older
frame then undoes the newer on the phones that come last. They stay wrong until
the next change or reconnect.

The models contain other behaviour of the code that its comments do not lead one
to expect. It is part of the actions, and the properties above hold in spite of it:

* `killpg` reaches the shell's own process group only, although the docstring of
  `terminate_process_group` speaks of "every process it spawned". An interactive shell
  gives each job a group of its own, so that `sleep 1000 &` outlives the session
  (`SendKill`, `job` of `PtySessions`).
* SIGKILL is sent at the timeout of the SIGTERM without another look at `returncode`,
  also when the process was reaped in the meantime (`TermTimeout` of `PtySessions` and
  of `Commands`). What a reused number would then stand for is not in the model.
* A write into a PTY whose shell does not read blocks its thread, `receive_input` with it,
  and a client that leaves is not noticed: the slot stays taken until the shell exits or
  reads (`WriteDone`).
* A client that leaves while the bootstrap has not called `setsid` within the second
  before SIGKILL leaves a handler that waits for a shell nobody killed, which
  `TeardownEnds` excepts.
* `last_activity` is set before the type of a frame is looked at: the ping every 30 s
  that the client calls a no-op keeps the session open past the idle limit.
* `search_project` throws away the flag that its output was cut (`Told`), and its
  cap is that of `_truncate_output`, which finds nothing to mark.
* The indices of tool calls are sorted whatever their types. A mixture ends the
  run without an event (`Unsortable`), as does text that cannot be encoded (`Garbled`).
* A `git status` that fails or is killed is parsed all the same: with nothing to
  parse the tree is called clean, and a new file is not seen to be new (`Breaks`).
* `process.kill` of `git_service.py:62` and `72` raises `ProcessLookupError` when git ended
  first; the request ends with an exception (`GatherRaises` of `Commands`, `KillRaises`
  of `GitWorktree`).
* A path is given to git as a pathspec: to discard `[id].tsx`
  also restores `i.tsx` and `d.tsx`, although a test says that such a path can be
  "handed straight back to git" (`Reached`).
* `upload_files` looks for existing names once and then awaits the chunks: of two uploads
  of one new name, neither of which may overwrite, both succeed and the second replaces
  the first's file (`AtomicUploads.Place`).
* The PIN limiter is keyed "by token alone", as `main.py:257` says, but by the token as
  the URL spells it, and the file is found by the cleaned one: each spelling of a link
  counts its wrong PINs apart (`ViewLocked`).
* `clear_project`, which the agent's tool calls, broadcasts nothing: connected phones go
  on showing what it removed.
* A token is refused before the socket is accepted. The client sees a failed
  handshake without a close code, takes it for a lost network and goes on trying, although
  the comment says that "a bad token never recovers by retrying" (`ConnectFails`).
* A stop that waits for a slow close reports the end after the next start
  (`late` of `ReconnectSession`).
* `max(0, n - 1)` in `finally` hides an unbalanced decrement, but `SlotAccounting`
  shows that none happens.

## 5. What is proved

Every safety property of every passing run is a theorem, for every value of the
constants that the named assumptions admit, and so are the three refinements. A theorem
whose name ends in `Invariant` states the inductive invariant (`IInv`, in
`PreviewProofs` also `SessionIInv`), one that ends in `Types` the type invariant; the
others state the properties of the runs under their names.

| module | theorems | for |
|---|---|---|
| `PtySessionsProofs` | `PtyInvariant` `PtyTypes` `PtySlotAccounting` `PtySlotLimit` `PtyNothingOutlivesHandler` `PtyExitFollowsOutput` | any finite set of sessions, `MAX_PTYS` above zero, an idle limit of two periods or more, a bootstrap of any speed |
| `CommandsProofs` | `CommandsInvariant` `CommandsTypes` `CommandsOutput` (`OutputIsTrue`) `CommandsAnswer` (`AnswerIsFinal`) | any limit, any output, pipes of any size above zero, any of the callers |
| `AgentLoopProofs` | `AgentInvariant` `AgentTypes` `AgentEndsOnce` `AgentNoReplay` `AgentUsageOncePerStep` `AgentAnsweredInOrder` `AgentRefinesTurns` (`Spec => Turns!SafeSpec`) | any step limit above zero, any retry limit, any number of calls and lines |
| `GeneralChatProofs` | `ChatInvariant` `ChatTypes` `ChatFetchesSafe` `ChatEndsWell` `ChatOneAttemptsText` | any limits on redirects, results, retries and lines |
| `PreviewProofs` | of the registry: `RegistryInvariant` `RegistryTypes` `RegistryNeverDropsLive`, and, where no send waits, `RegistryDeadAreSwept` `RegistryNoLostChange` | any phones, tasks, ids, projects, connections and changes |
| | of the session: `SessionInvariant` `SessionTypes` `SessionNoOrphan` `SessionNeverStranded` `SessionRetriesPaced` `SessionShownTruly` `SessionRefinesLink` (`SessionSpec => One!Spec`) | any number of generations |
| `SystemMonitorProofs` | `MonitorInvariant` `MonitorTypes` `MonitorSamplesTile` `MonitorGpuSpared` | any set of phones, any time to live, any run of the clock and of bytes and faults |
| `ArtifactShareProofs` | `ShareInvariant` `ShareGateHolds` `ShareRefusedOnlyWhenFull` `ShareStoreHolds` `ShareArtifactsLast` | finite sets of addresses, tokens and spellings, any limits, windows, tables, cap, requests and faults |
| `GitWorktreeProofs` | `GitInvariant` `UploadsAlwaysLand` `UploadsRefineAtomic` (`Spec => Atomic!Spec`) `GitAnswersAreTrue` `GitSparesOthers` | any finite sets of names, uploads and requests, any paths for patterns of one another, any limits, any number of commands that break |

**PtySessions.** `IInv` is `TypeOK`, `SessionsOK`, `SlotAccounting` and `SlotLimit`.
`SlotAccounting` needs only the types: each action moves one session, and lemmas on
cardinalities say what that does to the set of holders. `SlotLimit` needs
`SlotAccounting`, because the guard reads the counter and the promise is about
the holders. `NothingOutlivesHandler` and `ExitFollowsOutput` speak of the last
steps of a session only; `SessionOK` carries back to earlier suspension
points what makes them true: no tasks before the ready frame, both tasks or
neither, a reaped shell from the grace period on, and a closed descriptor and a
reaped or absent shell once the tasks are being awaited. That all output goes before
the exit frame rests on what a reader that ended knows: with the master open the PTY is
empty and nobody is left to write to it, which no later step can change.

**Commands.** `OutputInv` says where each chunk is: until the limit is crossed
what was written is kept or unread, and a pump that is done found its pipe empty and
without a writer, which no later step can give it back. `CompleteOrTold` is that,
at the moment both pumps are done, together with the fact that what was cut is filled to
the limit, which is all a search's answer shows. `SignalInv` says who can still signal: a call of
`terminate_process_group` belongs to a pump in its callback or to a caller that is
late, and each way of answering has seen the process reaped. Neither half of
`AnswerIsFinal` is inductive without it, since a timeout cancels pumps in the
middle of their own termination.

**AgentLoop.** `StreamInv` adds `StepOK` to the properties of a
step: `stream_started` says whether text was relayed, an attempt in its
backoff has relayed none and is not the last, no call is unanswered while the
provider is asked, and a tool that runs is the head of the list. Without the
second a retry could repeat text or exceed the limit. `TurnInv` is about the
conversation. `AnsweredInOrder` is split into calls (`CallsOK`) and results
(`ResultsOK`); the results need `OwedOK`, which ties the unanswered calls to the
end of the last turn, and the refinement needs `TurnsOK`, which bounds the turns by
the steps. `QuietStep` says that all actions but `TakeTurn` and `FinishCall`
leave the conversation alone, so that only these two are looked at closely.

**GeneralChat.** `HopsInv` bounds the requests made by the stage and the redirects
in it, and says that a request with the query has the stage's own URL. `LoopInv`
says that whoever waits for another attempt has one left and has relayed nothing,
which is why the loop is never spent. `TalkInv` ties the text the client has to the
current attempt.

**PreviewRegistry.** `ConnInv` says that a connection is made once and only goes on
from there, `TaskInv` that whoever is to be discarded is closing or closed. A
listener that is alive is then never among them, however many broadcasts overlap.
For `DeadAreSwept` the extra invariant `SweepInv` says that one broadcast at a time
has the loop, and that every listener that does not stand is either still to be
sent to or already taken for stale; it holds only where no send waits, which is an
assumption of that theorem and the next. `NoLostChange` is stated without a fold over the
frames on their way: about one id (`About`), the last frame that speaks of it, or the
phone's own list when none does, must agree with the registry (`Says`, `Tells`). A read
takes the first frame and a send appends the last, and neither changes what the last
one says. In the middle of a broadcast its frame counts
as on the way to those it is still to be sent to (`Coming`); that no second broadcast
can be in between is `SweepInv` again.

**ReconnectSession.** `OrderInv`: generations are used one after the other, and each
opens its channel once. `TimerInv`: a timer runs exactly while the last channel's
failure is being reported, and none while a connect or a live channel is ahead.
`NeverStranded` rests on it, and `BackoffCountsFailures` is not inductive without it:
the second report of a failure would count again, were the timer of the first not
still running. `StopInv` carries `ShownStopped`
over the stop that is still waiting. The refinement has a lemma for each kind of step:
most are those of an earlier generation, which `OneLink` does not see (`UnseenStep`), and
a loss is a step of it only at the first of its reports, when no timer runs. It also needs
that the channel of a refused session is gone, or a late frame would reset the count.

**SystemMonitor.** `LockInv`: one thread is between the clock and the end of its
snapshot. `TimeInv`: its time is no earlier than the last sample and the last
stamp of the cache. `SpanInv` and `ByteInv` are the sums, and `GpuInv` ties each
start of `nvidia-smi` to the stamp of the cache or to the thread that measures.
Without `TimeInv` a rate could have a span of zero for time that passed.

**ArtifactShare.** `HitsInv`: a bucket's table has, of the stamps it let through,
exactly those inside the window, for every address it has not forgotten. Both
`WindowLimit` and `RefusedOnlyWhenFull` are about the admitted requests and the guard
reads the table; the invariant is what carries one to the other. `PinInv` does the
same for wrong PINs, under each spelling. `IssueInv`: a token that was not issued has no file, so that
nothing a publication writes was there before; `GoneForGood` needs it. Lemmas on
finite sets of stamps (`WithinBounds`, `WithinShrinks`, `AddOne`) and on eviction
are stated once.

**ProjectFiles and GitWorktree.** `UploadOK` ties the files an upload has placed to its
index (`HasPlaced`): the first `i - 1` while file `i` is being read or has failed, the
first `i` from its `os.replace` on. `TempsInv` gives each upload one temporary
file at most. `RepoInv` keeps half files out of the tree, the index and HEAD, so that no
git command can bring one back. For the refinement `OwnInv` is needed: an upload that has
placed nothing has its content nowhere, in the tree, the index or HEAD; every other
step only copies what is in one of them (`Comes`).

For git, `JobOK` says which commands belong to an operation (`Fits`), and that
a request's paths only ever shrink. `NoCollateral` is that with what a command can reach
(`ReachedIs`): only what some path of the request matches, or, for the deletions of a
discard, what it leads to (`CommandSpares`). `Knows` is what each request
can rely on for a path nobody else has touched since it began: that the untracked
paths it is about to delete are not in the index; that a path a sound status did not call
untracked is in the index or not there, so that `git restore` cannot pass over it; that
what it has finished with is as it left it; that a status that was not broken said the
truth. A step of the request itself extends that knowledge (`OwnRun`), a step of anybody
else either leaves the path alone or
takes it off the list (`KnowledgeKeeps`), and the answer is the knowledge at the end.
`SuccessIsTrue` alone is not inductive, as it says nothing before the answer.
What the commands do is part of the model (`CanRun`, `Effect`, `Pulls`), so that these
theorems are about how `GitService` uses git, not about git.

The assumptions are those the modules name: finite sets where cardinalities are
compared, limits above zero where the code or its settings have them so, natural
numbers for the rest, that an upload's content is not that of an edit
(`NamesAssumption`), that nobody is not a request (`HoldersAssumption`), that a path
matches itself (`GitAssumption`) and that a token is a spelling of itself
(`ShareAssumption`).

## 6. What is only model-checked

* Liveness under fairness (`SlotIsFreed`, `TeardownEnds`, `Answered`, `RunEnds`,
  `ChatEnds`, `BroadcastsEnd`, `LeaverForgotten`, and the liveness part of
  `ImplementsTurns`): the prover has no rules for `ENABLED`.
* That the failing run fails, and that every property fails when its variant takes the
  place of the code's definition.

Nothing else. Properties that would need induction over data, for which the prover has no
rules that its back ends can use, are stated without it: `NoLostChange` by the last frame
about an id, `PlacedPrefix` by an index, sums by counters.

## 7. What is not modelled, and why

* Bytes, sizes, escape sequences and wording of frames: no property tells them
  apart. The checks of tokens, hosts, URLs and paths are pure functions of strings
  and are given as their verdicts.
* In `AgentLoop`, the pieces of a structured tool call and their index are one unit,
  and a tool is a step that is started and answered. In `harness_service.py` the
  prompts, the parsing of text tool calls and the listing tools are data.
* In `git_service.py`, push, branches and diff; in `fs.py`, listing, reading,
  browsing and downloads; in `system_service.py`, the readings behind the counters,
  the processes and the priming of their CPU times. They change nothing that other
  requests read. `MAX_UPLOAD_BYTES` is modelled as a limit of its own, although
  `MAX_HTTP_BODY_BYTES` stops larger bodies first in the default configuration.
  `get_diff` may hold `index.lock` for a moment to write back what it refreshed; the lock
  of `status` stands for it. Paths that begin with a colon, which git takes for magic
  pathspecs, are left out.
* A write that still waits in its thread when the handler closes the PTY keeps the
  number of the descriptor, which may by then be another's. The model ends the write with
  its task.
* The reverse proxy for previews: I/O without state of its own.
* The terminal client's states: one socket without reconnects; its keepalive and its
  leaving are in `PtySessions`.
* Chat clients: what they are sent is modelled, how they show it is not. Two hazards
  of theirs and of client storage, a cancel flag that a new run resets and lists that
  are written whole, are listed in `PROJECT.json` without a property.
* API client and remote set-up: requests without state, and a script on another
  machine. Android container: the life cycle of a service on the platform's threads,
  with one hazard listed: a stop that overtakes a boot.
* User interface, build files, web site and installers: no protocol.

## 8. What could be added

The Android container comes first: its boot and stop run on one worker, `onDestroy` on
the main thread, and no generation tells an old boot from a new one; the property
would be that no guest runs without an owner. Then the chat clients, whose terminal
events would refine `EndsOnce` and `EndsWell`, and client storage, with an abstract
store that has atomic updates. With `OneLink` and the
registry's specification the client and the backend could be composed without the detail
of either.
