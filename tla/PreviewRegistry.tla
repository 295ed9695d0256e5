--------------------------- MODULE PreviewRegistry ---------------------------
(***************************************************************************)
(* PreviewRegistry of the backend (services/preview_service.py) and the    *)
(* list of previews each phone keeps from its stream of frames             *)
(* (lib/services/preview_session.dart).                                    *)
(*                                                                         *)
(* The backend is one asyncio event loop.  A task that changes the         *)
(* registry has the loop, `loop = t', until a send suspends it, and no     *)
(* other part of the backend moves before that.  The registry's lock is    *)
(* never held across a suspension, so that it is never waited for.         *)
(*                                                                         *)
(* A send puts its frame on the connection and then may wait for a client  *)
(* that does not read, or for a close handshake to finish.  That is how    *)
(* the server library sends; Suspends = FALSE is a network where nobody is *)
(* ever that slow.                                                         *)
(***************************************************************************)
EXTENDS Naturals, FiniteSets, Sequences

CONSTANTS
    Ids,          \* of entries
    Projects,     \* project paths
    Labels,       \* what else an entry says
    Phones,
    Tasks,        \* requests and agent tools that can be under way at once
    None,
    MaxConns,     \* bound: connections a phone makes
    MaxChanges,   \* bound: changes of the registry
    Suspends

ASSUME SuspendsAssumption == Suspends \in BOOLEAN
ASSUME BoundsAssumption == MaxConns \in Nat /\ MaxChanges \in Nat
VARIABLES
    entries,    \* _entries
    listeners,  \* _listeners
    handler,    \* handle_websocket of each connection
    ws,         \* the backend's end of each connection
    stalled,    \* connections whose client lets the send buffer fill up
    task,       \* the broadcasts under way
    loop,       \* the task that has the event loop
    changes,    \* changes so far
    inbox,      \* frames on their way to a phone
    conns,      \* connections a phone has made
    online,     \* phones whose last connection still stands, seen from them
    view,       \* _entries of each phone's PreviewSession
    unheard     \* ids that clear_project removed while a phone was connected

vars == <<entries, listeners, handler, ws, stalled, task, loop, changes, inbox, conns,
          online, view, unheard>>
phoneVars == <<conns, online, view>>

Values == [project : Projects, label : Labels]

Conns == Phones \X (1 .. MaxConns)

Lists == [Ids -> Values \cup {None}]
Empty == [i \in Ids |-> None]

\* A frame; a removal also carries the entry, of which only the id is used.
Snapshot(es) == [type |-> "snapshot", entries |-> es]
Change(i, v) == [type |-> "change", id |-> i, value |-> v]
Frames == [type : {"snapshot"}, entries : Lists]
          \cup [type : {"change"}, id : Ids, value : Values \cup {None}]

\* _broadcast: the frame, the listeners still to be sent it, those whose send
\* raised, and the one whose send is being waited for.
Broadcasts == [frame : Frames, todo : SUBSET Conns, stale : SUBSET Conns,
               at : Conns \cup {None}]
ASSUME NoneAssumption == None \notin Values \cup Tasks \cup Conns \cup Broadcasts

TypeOK ==
    /\ entries \in Lists
    /\ listeners \subseteq Conns /\ stalled \subseteq Conns
    /\ handler \in [Conns -> {"none", "attaching", "receiving", "done"}]
    /\ ws \in [Conns -> {"new", "open", "closing", "closed"}]
    /\ task \in [Tasks -> Broadcasts \cup {None}]
    /\ loop \in Tasks \cup {None}
    /\ changes \in 0 .. MaxChanges
    /\ inbox \in [Conns -> Seq(Frames)]
    /\ conns \in [Phones -> 0 .. MaxConns]
    /\ online \subseteq Phones
    /\ view \in [Phones -> Lists]
    /\ unheard \in [Phones -> SUBSET Ids]

Init ==
    /\ entries = Empty /\ listeners = {} /\ stalled = {}
    /\ handler = [c \in Conns |-> "none"]
    /\ ws = [c \in Conns |-> "new"]
    /\ task = [t \in Tasks |-> None] /\ loop = None /\ changes = 0
    /\ inbox = [c \in Conns |-> <<>>]
    /\ conns = [p \in Phones |-> 0] /\ online = {}
    /\ view = [p \in Phones |-> Empty]
    /\ unheard = [p \in Phones |-> {}]

\* The connection a phone listens to.
Current(p) == <<p, conns[p]>>
Reading(c) == c[1] \in online /\ c = Current(c[1])

-----------------------------------------------------------------------------
(* Changes of the registry.                                                *)

MayChange(t) ==
    /\ loop = None /\ task[t] = None
    /\ changes < MaxChanges /\ changes' = changes + 1

\* The first part of _broadcast: the listeners are copied.
Broadcast(t, i, v) ==
    /\ task' = [task EXCEPT ![t] = [frame |-> Change(i, v), todo |-> listeners,
                                    stale |-> {}, at |-> None]]
    /\ loop' = t

\* register, by a user or by the agent's tool: an id may be taken over.
Register(t) ==
    /\ MayChange(t)
    /\ \E i \in Ids, v \in Values :
          /\ entries' = [entries EXCEPT ![i] = v]
          /\ Broadcast(t, i, v)
          /\ unheard' = [p \in Phones |-> unheard[p] \ {i}]
    /\ UNCHANGED <<listeners, handler, ws, stalled, inbox, phoneVars>>

\* unregister of a known id; of an unknown one it changes nothing.
Unregister(t) ==
    /\ MayChange(t)
    /\ \E i \in Ids :
          /\ entries[i] # None
          /\ entries' = [entries EXCEPT ![i] = None]
          /\ Broadcast(t, i, None)
    /\ UNCHANGED <<listeners, handler, ws, stalled, inbox, phoneVars, unheard>>

\* clear_project, by the agent's tool: nothing is sent.
ClearProject(t) ==
    /\ MayChange(t)
    /\ \E q \in Projects :
          LET victims == {i \in Ids : entries[i] # None /\ entries[i].project = q}
          IN  /\ victims # {}
              /\ entries' = [i \in Ids |-> IF i \in victims THEN None ELSE entries[i]]
              /\ unheard' = [p \in Phones |-> IF p \in online THEN unheard[p] \cup victims
                                                             ELSE {}]
    /\ UNCHANGED <<listeners, handler, ws, stalled, task, loop, inbox, phoneVars>>

-----------------------------------------------------------------------------
(* The rest of _broadcast: one listener after the other, in the order of a *)
(* Python set, which is no order at all.                                   *)

\* A frame on its way; nobody reads it if the client left.
Delivered(c, frame) ==
    IF Reading(c) THEN [inbox EXCEPT ![c] = Append(@, frame)] ELSE inbox

\* Waiting for a client that does not read, or for the end of a handshake.
MustWait(c) == Suspends /\ (ws[c] = "closing" \/ (ws[c] = "open" /\ c \in stalled))

\* Variant: a listener that is not ready at once is given up.
SlowIsStale(t, c) ==
    /\ loop = t /\ c \in task[t].todo
    /\ ws[c] = "open" \/ MustWait(c)
    /\ inbox' = IF MustWait(c) THEN inbox ELSE Delivered(c, task[t].frame)
    /\ task' = [task EXCEPT ![t].todo = @ \ {c},
                            ![t].stale = IF MustWait(c) THEN @ \cup {c} ELSE @]
    /\ UNCHANGED <<entries, listeners, handler, ws, stalled, loop, changes, phoneVars, unheard>>

\* The frame goes out.  The task waits or goes on.
SendText(t, c) ==
    /\ loop = t /\ c \in task[t].todo
    /\ ws[c] = "open" \/ MustWait(c)
    /\ inbox' = IF ws[c] = "open" THEN Delivered(c, task[t].frame) ELSE inbox
    /\ task' = [task EXCEPT ![t].todo = @ \ {c}, ![t].at = IF MustWait(c) THEN c ELSE None]
    /\ loop' = IF MustWait(c) THEN None ELSE t
    /\ UNCHANGED <<entries, listeners, handler, ws, stalled, changes, phoneVars, unheard>>

\* Variant: a listener that is being closed is left out, and not removed.
SendSkips(t, c) ==
    /\ loop = t /\ c \in task[t].todo
    /\ ws[c] \in {"closing", "closed"}
    /\ task' = [task EXCEPT ![t].todo = @ \ {c}]
    /\ UNCHANGED <<entries, listeners, handler, ws, stalled, loop, changes, inbox,
                   phoneVars, unheard>>

\* RuntimeError or WebSocketDisconnect.
SendRaises(t, c) ==
    /\ loop = t /\ c \in task[t].todo
    /\ ws[c] \in {"closing", "closed"}
    /\ task' = [task EXCEPT ![t].todo = @ \ {c}, ![t].stale = @ \cup {c}]
    /\ UNCHANGED <<entries, listeners, handler, ws, stalled, loop, changes, inbox,
                   phoneVars, unheard>>

\* The wait ended with the connection.
Waited(t) ==
    /\ loop = None /\ task[t] # None /\ task[t].at # None
    /\ ws[task[t].at] = "closed"
    /\ task' = [task EXCEPT ![t].stale = @ \cup {task[t].at}, ![t].at = None]
    /\ loop' = t
    /\ UNCHANGED <<entries, listeners, handler, ws, stalled, changes, inbox, phoneVars,
                   unheard>>

\* The task was woken and gets the loop again.
Resume(t) ==
    /\ loop = None /\ task[t] # None /\ task[t].at = None
    /\ loop' = t
    /\ UNCHANGED <<entries, listeners, handler, ws, stalled, task, changes, inbox,
                   phoneVars, unheard>>

\* Variant: the stale listeners are discarded inside the hold of the lock that
\* copied them, so that the second hold waits for the first.
LockedTwice(t) ==
    /\ loop = t /\ task[t].todo = {} /\ task[t].stale = {}
    /\ task' = [task EXCEPT ![t] = None]
    /\ loop' = None
    /\ UNCHANGED <<entries, listeners, handler, ws, stalled, changes, inbox, phoneVars,
                   unheard>>

\* The listeners whose send raised are discarded, and the caller returns.
BroadcastDone(t) ==
    /\ loop = t /\ task[t].todo = {}
    /\ listeners' = listeners \ task[t].stale
    /\ task' = [task EXCEPT ![t] = None]
    /\ loop' = None
    /\ UNCHANGED <<entries, handler, ws, stalled, changes, inbox, phoneVars, unheard>>

-----------------------------------------------------------------------------
(* handle_websocket.                                                       *)

\* Variant: the snapshot is only sent to a phone that is new to the backend.
AttachWithoutSnapshot(c) ==
    /\ loop = None
    /\ ws[c] = "open" /\ handler[c] = "none"
    /\ listeners' = listeners \cup {c}
    /\ inbox' = IF c[2] = 1 THEN Delivered(c, Snapshot(entries)) ELSE inbox
    /\ handler' = [handler EXCEPT ![c] = "receiving"]
    /\ unheard' = [unheard EXCEPT ![c[1]] = {}]
    /\ UNCHANGED <<entries, ws, stalled, task, loop, changes, phoneVars>>

\* accept, then attach: the listener is added and the registry copied under
\* one hold of the lock, and the copy is sent.
Attach(c) ==
    /\ loop = None /\ handler[c] = "none"
    /\ ws[c] = "open" \/ MustWait(c)
    /\ listeners' = listeners \cup {c}
    /\ inbox' = IF ws[c] = "open" THEN Delivered(c, Snapshot(entries)) ELSE inbox
    /\ handler' = [handler EXCEPT ![c] = IF MustWait(c) THEN "attaching" ELSE "receiving"]
    /\ unheard' = IF Reading(c) THEN [unheard EXCEPT ![c[1]] = {}] ELSE unheard
    /\ UNCHANGED <<entries, ws, stalled, task, loop, changes, phoneVars>>

\* The client is gone already, or goes while the send waits for it.  attach
\* stands outside the `try': the listener stays.
AttachRaises(c) ==
    /\ loop = None
    /\ \/ handler[c] = "none" /\ ws[c] \in {"closing", "closed"}
       \/ handler[c] = "attaching" /\ ws[c] = "closed"
    /\ listeners' = listeners \cup {c}
    /\ handler' = [handler EXCEPT ![c] = "done"]
    /\ UNCHANGED <<entries, ws, stalled, task, loop, changes, inbox, phoneVars, unheard>>

\* receive_text raises WebSocketDisconnect, and the listener is removed.
Detach(c) ==
    /\ loop = None
    /\ ws[c] \in {"closing", "closed"} /\ handler[c] = "receiving"
    /\ listeners' = listeners \ {c}
    /\ handler' = [handler EXCEPT ![c] = "done"]
    /\ UNCHANGED <<entries, ws, stalled, task, loop, changes, inbox, phoneVars, unheard>>

-----------------------------------------------------------------------------
(* The server library and the network.                                     *)

\* The client does not keep up.
Stall(c) ==
    /\ Suspends /\ loop = None
    /\ ws[c] = "open" /\ c \notin stalled
    /\ stalled' = stalled \cup {c}
    /\ UNCHANGED <<entries, listeners, handler, ws, task, loop, changes, inbox, phoneVars,
                   unheard>>

\* It does again: whoever waited for it is woken.
Unstall(c) ==
    /\ loop = None
    /\ ws[c] = "open" /\ c \in stalled /\ Reading(c)
    /\ stalled' = stalled \ {c}
    /\ task' = [t \in Tasks |-> IF task[t] # None /\ task[t].at = c
                                THEN [task[t] EXCEPT !.at = None] ELSE task[t]]
    /\ handler' = [handler EXCEPT ![c] = IF @ = "attaching" THEN "receiving" ELSE @]
    /\ UNCHANGED <<entries, listeners, ws, loop, changes, inbox, phoneVars, unheard>>

\* A close frame, a reset or an unanswered ping: the client left.
Notice(c) ==
    /\ loop = None
    /\ ws[c] = "open" /\ ~Reading(c)
    /\ ws' = [ws EXCEPT ![c] = "closing"]
    /\ UNCHANGED <<entries, listeners, handler, stalled, task, loop, changes, inbox,
                   phoneVars, unheard>>

CloseDone(c) ==
    /\ loop = None
    /\ ws[c] = "closing"
    /\ ws' = [ws EXCEPT ![c] = "closed"]
    /\ stalled' = stalled \ {c}
    /\ UNCHANGED <<entries, listeners, handler, task, loop, changes, inbox,
                   phoneVars, unheard>>

-----------------------------------------------------------------------------
(* PreviewSession of a phone.                                              *)

\* _connect: a new channel.  The list is kept from the last one.
Connect(p) ==
    /\ loop = None
    /\ p \notin online /\ conns[p] < MaxConns
    /\ conns' = [conns EXCEPT ![p] = @ + 1]
    /\ online' = online \cup {p}
    /\ ws' = [ws EXCEPT ![<<p, conns[p] + 1>>] = "open"]
    /\ UNCHANGED <<entries, listeners, handler, stalled, task, loop, changes, inbox, view,
                   unheard>>

\* _applyFrame.
Applied(list, frame) ==
    IF frame.type = "snapshot" THEN frame.entries
    ELSE [list EXCEPT ![frame.id] = frame.value]

ReadFrame(p) ==
    /\ p \in online /\ inbox[Current(p)] # <<>>
    /\ view' = [view EXCEPT ![p] = Applied(@, Head(inbox[Current(p)]))]
    /\ inbox' = [inbox EXCEPT ![Current(p)] = Tail(@)]
    /\ UNCHANGED <<entries, listeners, handler, ws, stalled, task, loop, changes, conns,
                   online, unheard>>

\* The phone loses the connection or stops the session.  What was on its way
\* is lost, and no frame of an old channel is applied.
Drop(p) ==
    /\ p \in online
    /\ online' = online \ {p}
    /\ inbox' = [inbox EXCEPT ![Current(p)] = <<>>]
    /\ unheard' = [unheard EXCEPT ![p] = {}]
    /\ UNCHANGED <<entries, listeners, handler, ws, stalled, task, loop, changes, conns,
                   view>>

-----------------------------------------------------------------------------

Backend ==
    \/ \E t \in Tasks : \/ Register(t) \/ Unregister(t) \/ ClearProject(t)
                        \/ \E c \in Conns : SendText(t, c) \/ SendRaises(t, c)
                        \/ Waited(t) \/ Resume(t) \/ BroadcastDone(t)
    \/ \E c \in Conns : Attach(c) \/ AttachRaises(c) \/ Detach(c)
Network == \E c \in Conns : Stall(c) \/ Unstall(c) \/ Notice(c) \/ CloseDone(c)
Phone == \E p \in Phones : Connect(p) \/ ReadFrame(p) \/ Drop(p)

Next == Backend \/ Network \/ Phone

Spec == Init /\ [][Next]_vars

\* A task that has the loop or was woken runs; a client that is there reads; a
\* client that left is noticed (by the library's pings), and a handshake ends.
Fairness ==
    /\ \A t \in Tasks :
          /\ WF_vars(Waited(t) \/ Resume(t) \/ BroadcastDone(t))
          /\ WF_vars(\E c \in Conns : SendText(t, c) \/ SendRaises(t, c))
    /\ \A c \in Conns :
          WF_vars(Unstall(c)) /\ WF_vars(Notice(c)) /\ WF_vars(CloseDone(c))

FairSpec == Spec /\ Fairness

-----------------------------------------------------------------------------
(* What the registry promises.                                             *)

Live(c) == handler[c] \in {"attaching", "receiving"} /\ ws[c] = "open"

\* What is on its way to a phone, with the frame of the broadcast that has the
\* loop, and what a list says of an entry once such frames are applied: what
\* the last frame about it says, or what the list said before.
Coming(c) == IF loop # None /\ c \in task[loop].todo THEN <<task[loop].frame>> ELSE <<>>
About(frame, i) == frame.type = "snapshot" \/ frame.id = i
Says(frame, i) == IF frame.type = "snapshot" THEN frame.entries[i] ELSE frame.value
Tells(list, frames, i, v) ==
    \/ list[i] = v /\ \A k \in DOMAIN frames : ~About(frames[k], i)
    \/ \E k \in DOMAIN frames :
          /\ About(frames[k], i) /\ Says(frames[k], i) = v
          /\ \A j \in DOMAIN frames : About(frames[j], i) => j <= k

\* Attaching, changing and broadcasting leave no gap: a phone on a live
\* connection ends up with the registry's list, whatever it kept from an
\* earlier connection, but for what clear_project removed
\* (preview_service.py:49-80, 99-134; preview_session.dart:107-153).
NoLostChange ==
    \A p \in online : Live(Current(p)) => \A i \in Ids \ unheard[p] :
        Tells(view[p], inbox[Current(p)] \o Coming(Current(p)), i, entries[i])

\* No broadcast removes a listener whose connection stands
\* (preview_service.py:125-134).
NeverDropsLive == \A c \in Conns : Live(c) => c \in listeners

\* When a broadcast that nobody interrupted ends, no dead connection is left
\* among the listeners, not even one whose attach failed
\* (preview_service.py:102-109, 125-134).
DeadAreSwept ==
    [][loop # None /\ loop' = None => \A c \in listeners' : ws[c] = "open"]_vars

\* No request or agent tool hangs in a broadcast because of a client
\* (preview_service.py:126-130).
BroadcastsEnd == \A t \in Tasks : task[t] # None ~> task[t] = None

\* When nothing is under way, a phone that read everything shows the registry,
\* but for what clear_project removed: "A websocket fan-out broadcasts every
\* change so the Flutter client can refresh its preview tab immediately"
\* (preview_service.py:24-25).
Settled(p) ==
    /\ p \in online /\ Live(Current(p)) /\ inbox[Current(p)] = <<>>
    /\ \A t \in Tasks : task[t] = None
EveryBroadcastShown ==
    \A p \in Phones : Settled(p) =>
        \A i \in Ids : view[p][i] # entries[i] => i \in unheard[p]
=============================================================================
