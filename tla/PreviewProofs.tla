---------------------------- MODULE PreviewProofs ----------------------------
(***************************************************************************)
(* The previews, for any number of phones, tasks and changes.              *)
(*                                                                         *)
(* First the registry: types, that no broadcast removes a listener whose   *)
(* connection stands, however sends and closes suspend the tasks, and,     *)
(* where no send waits, that a broadcast leaves no listener whose          *)
(* connection does not stand and that no phone misses a change.            *)
(*                                                                         *)
(* Then a phone's stream: its safety for any number of starts, stops,      *)
(* timers and losses.                                                      *)
(***************************************************************************)
EXTENDS PreviewRegistry, ReconnectSession, SequenceTheorems, TLAPS

\* A connection is made once, and only goes on from there.
ConnInv ==
    /\ \A p \in Phones, k \in 1 .. MaxConns : k > conns[p] => ws[<<p, k>>] = "new"
    /\ \A c \in Conns : ws[c] = "new" => handler[c] = "none"
    /\ \A p \in online : conns[p] > 0

\* Whoever has the loop broadcasts; whom it will discard is closing or closed.
TaskInv ==
    /\ loop # None => task[loop] # None
    /\ \A t \in Tasks : task[t] # None =>
          \A c \in task[t].stale : ws[c] \in {"closing", "closed"}

IInv == TypeOK /\ ConnInv /\ TaskInv /\ NeverDropsLive

LEMMA Bounds == /\ MaxConns \in Nat /\ MaxChanges \in Nat
                /\ None \notin Values /\ None \notin Tasks
                /\ None \notin Conns /\ None \notin Broadcasts
    BY BoundsAssumption, NoneAssumption

LEMMA InitHolds == Init => IInv
<1> SUFFICES ASSUME Init PROVE IInv
    OBVIOUS
<1>1. TypeOK
  <2>1. conns \in [Phones -> 0 .. MaxConns] /\ changes \in 0 .. MaxChanges
      BY Bounds DEF Init
  <2>2. inbox \in [Conns -> Seq(Frames)]
      BY EmptySeq DEF Init
  <2> QED
      BY <2>1, <2>2 DEF Init, TypeOK, Empty, Lists
<1>2. ConnInv /\ NeverDropsLive
    BY DEF Init, ConnInv, NeverDropsLive, Live, Conns
<1>3. TaskInv
    BY DEF Init, TaskInv
<1> QED
    BY <1>1, <1>2, <1>3 DEF IInv

\* A frame of a change, and of a snapshot.
LEMMA FramesMade ==
    /\ \A i \in Ids, v \in Values \cup {None} : Change(i, v) \in Frames
    /\ \A es \in Lists : Snapshot(es) \in Frames
    BY DEF Change, Snapshot, Frames

LEMMA DeliveredTypes ==
    ASSUME inbox \in [Conns -> Seq(Frames)], NEW c \in Conns, NEW f \in Frames
    PROVE  Delivered(c, f) \in [Conns -> Seq(Frames)]
<1>1. Append(inbox[c], f) \in Seq(Frames)
    BY AppendProperties
<1> QED
    BY <1>1 DEF Delivered

LEMMA AppliedTypes ==
    ASSUME NEW list \in Lists, NEW f \in Frames
    PROVE  Applied(list, f) \in Lists
<1>1. CASE f \in [type : {"snapshot"}, entries : Lists]
    BY <1>1 DEF Applied
<1>2. CASE f \in [type : {"change"}, id : Ids, value : Values \cup {None}]
    BY <1>2 DEF Applied, Lists
<1> QED
    BY <1>1, <1>2 DEF Frames

-----------------------------------------------------------------------------
(* Changes of the registry.                                                *)
LEMMA BroadcastGives ==
    ASSUME TypeOK, NEW t \in Tasks, NEW i \in Ids, NEW v \in Values \cup {None}, Broadcast(t, i, v)
    PROVE  /\ task' \in [Tasks -> Broadcasts \cup {None}]
           /\ task'[t] # None /\ task'[t].stale = {}
           /\ \A u \in Tasks : u # t => task'[u] = task[u]
           /\ loop' = t
<1> DEFINE b == [frame |-> Change(i, v), todo |-> listeners, stale |-> {}, at |-> None]
<1>1. b \in Broadcasts
    BY FramesMade DEF Broadcasts, TypeOK
<1>2. task' = [task EXCEPT ![t] = b] /\ loop' = t
    BY DEF Broadcast
<1>3. b.stale = {}
    OBVIOUS
<1> HIDE DEF b
<1> QED
    BY <1>1, <1>2, <1>3, Bounds DEF TypeOK

LEMMA ChangeKeeps ==
    ASSUME IInv, NEW t \in Tasks, Register(t) \/ Unregister(t)
    PROVE  IInv'
<1>0. TypeOK /\ ConnInv /\ TaskInv /\ NeverDropsLive
    BY DEF IInv
<1>1. /\ UNCHANGED <<listeners, handler, ws, stalled, inbox, conns, online, view>>
      /\ changes' \in 0 .. MaxChanges
    BY <1>0, Bounds DEF Register, Unregister, MayChange, phoneVars, TypeOK
<1>2. PICK i \in Ids, v \in Values \cup {None} :
          Broadcast(t, i, v) /\ entries' = [entries EXCEPT ![i] = v]
    BY DEF Register, Unregister
<1>3. entries' \in Lists
    BY <1>0, <1>2 DEF TypeOK, Lists
<1>4. unheard' \in [Phones -> SUBSET Ids]
    BY <1>0 DEF Register, Unregister, TypeOK
<1>5. /\ task' \in [Tasks -> Broadcasts \cup {None}] /\ task'[t] # None /\ task'[t].stale = {}
      /\ \A u \in Tasks : u # t => task'[u] = task[u]
      /\ loop' = t
    BY <1>0, <1>2, BroadcastGives
<1>6. TypeOK'
    BY <1>0, <1>1, <1>3, <1>4, <1>5 DEF TypeOK
<1>7. TaskInv'
    BY <1>0, <1>1, <1>5 DEF TaskInv
<1>8. ConnInv' /\ NeverDropsLive'
    BY <1>0, <1>1 DEF ConnInv, NeverDropsLive, Live
<1> QED
    BY <1>6, <1>7, <1>8 DEF IInv

LEMMA ClearKeeps ==
    ASSUME IInv, NEW t \in Tasks, ClearProject(t)
    PROVE  IInv'
<1>0. TypeOK /\ ConnInv /\ TaskInv /\ NeverDropsLive
    BY DEF IInv
<1>1. /\ UNCHANGED <<listeners, handler, ws, stalled, task, loop, inbox, conns, online, view>>
      /\ changes' \in 0 .. MaxChanges
    BY <1>0, Bounds DEF ClearProject, MayChange, phoneVars, TypeOK
<1>2. entries' \in Lists /\ unheard' \in [Phones -> SUBSET Ids]
  <2>1. PICK q \in Projects :
           LET victims == {i \in Ids : entries[i] # None /\ entries[i].project = q}
           IN  /\ entries' = [i \in Ids |-> IF i \in victims THEN None ELSE entries[i]]
               /\ unheard' = [p \in Phones |-> IF p \in online THEN unheard[p] \cup victims ELSE {}]
      BY DEF ClearProject
  <2> DEFINE victims == {i \in Ids : entries[i] # None /\ entries[i].project = q}
  <2>2. victims \subseteq Ids
      OBVIOUS
  <2>3. /\ entries' = [i \in Ids |-> IF i \in victims THEN None ELSE entries[i]]
        /\ unheard' = [p \in Phones |-> IF p \in online THEN unheard[p] \cup victims ELSE {}]
      BY <2>1
  <2> HIDE DEF victims
  <2>4. entries' \in Lists
      BY <1>0, <2>3 DEF TypeOK, Lists
  <2>5. unheard' \in [Phones -> SUBSET Ids]
      BY <1>0, <2>2, <2>3 DEF TypeOK
  <2> QED
      BY <2>4, <2>5
<1>3. TypeOK'
    BY <1>0, <1>1, <1>2 DEF TypeOK
<1> QED
    BY <1>0, <1>1, <1>3 DEF IInv, ConnInv, TaskInv, NeverDropsLive, Live

-----------------------------------------------------------------------------
(* Broadcasts under way.                                                   *)

\* A task that broadcasts may send on, wait, or take a listener for stale whose
\* connection is closing.
LEMMA TaskKeeps ==
    ASSUME IInv, NEW t \in Tasks, NEW b \in Broadcasts,
           task' = [task EXCEPT ![t] = b], loop' \in {t, None}, task[t] # None,
           \A c \in b.stale \ task[t].stale : ws[c] \in {"closing", "closed"},
           inbox' \in [Conns -> Seq(Frames)],
           UNCHANGED <<entries, listeners, handler, ws, stalled, changes, phoneVars, unheard>>
    PROVE  IInv'
<1>0. TypeOK /\ ConnInv /\ TaskInv /\ NeverDropsLive
    BY DEF IInv
<1>1. /\ task'[t] = b /\ b # None /\ (\A u \in Tasks : u # t => task'[u] = task[u])
      /\ task' \in [Tasks -> Broadcasts \cup {None}]
    BY <1>0, Bounds DEF TypeOK
<1>2. TypeOK'
    BY <1>0, <1>1 DEF TypeOK, phoneVars
<1>3. TaskInv'
    BY <1>0, <1>1 DEF TaskInv
<1>4. ConnInv' /\ NeverDropsLive'
    BY <1>0 DEF ConnInv, NeverDropsLive, Live, phoneVars
<1> QED
    BY <1>2, <1>3, <1>4 DEF IInv

LEMMA SendKeeps ==
    ASSUME IInv, NEW t \in Tasks, NEW c \in Conns, SendText(t, c) \/ SendRaises(t, c)
    PROVE  IInv'
<1>0. TypeOK /\ TaskInv
    BY DEF IInv
<1>1. loop = t /\ task[t] # None
    BY <1>0, Bounds DEF SendText, SendRaises, TaskInv
<1>2. task[t] \in Broadcasts
    BY <1>0, <1>1 DEF TypeOK
<1>3. CASE SendText(t, c)
  <2> DEFINE at == IF MustWait(c) THEN c ELSE None
             b == [task[t] EXCEPT !.todo = @ \ {c}, !.at = at]
  <2>1. at \in Conns \cup {None}
      OBVIOUS
  <2>2. task' = [task EXCEPT ![t] = b] /\ loop' \in {t, None}
      BY <1>0, <1>3 DEF SendText, TypeOK
  <2> HIDE DEF at
  <2>3. b \in Broadcasts /\ b.stale = task[t].stale
      BY <1>2, <2>1 DEF Broadcasts
  <2>4. inbox' \in [Conns -> Seq(Frames)]
      BY <1>0, <1>2, <1>3, DeliveredTypes DEF SendText, TypeOK, Broadcasts
  <2>5. UNCHANGED <<entries, listeners, handler, ws, stalled, changes, phoneVars, unheard>>
      BY <1>3 DEF SendText
  <2> HIDE DEF b
  <2> QED
      BY <1>1, <2>2, <2>3, <2>4, <2>5, TaskKeeps
<1>4. CASE SendRaises(t, c)
  <2> DEFINE b == [task[t] EXCEPT !.todo = @ \ {c}, !.stale = @ \cup {c}]
  <2>1. task' = [task EXCEPT ![t] = b] /\ loop' = t
      BY <1>0, <1>1, <1>4 DEF SendRaises, TypeOK
  <2>2. b \in Broadcasts /\ b.stale = task[t].stale \cup {c}
      BY <1>2 DEF Broadcasts
  <2>3. ws[c] \in {"closing", "closed"} /\ inbox' \in [Conns -> Seq(Frames)]
        /\ UNCHANGED <<entries, listeners, handler, ws, stalled, changes, phoneVars, unheard>>
      BY <1>0, <1>4 DEF SendRaises, TypeOK
  <2> HIDE DEF b
  <2> QED
      BY <1>1, <2>1, <2>2, <2>3, TaskKeeps
<1> QED
    BY <1>3, <1>4

LEMMA WakeKeeps ==
    ASSUME IInv, NEW t \in Tasks, Waited(t) \/ Resume(t)
    PROVE  IInv'
<1>0. TypeOK /\ ConnInv /\ TaskInv /\ NeverDropsLive
    BY DEF IInv
<1>1. CASE Waited(t)
  <2>1. task[t] # None /\ task[t] \in Broadcasts
      BY <1>0, <1>1 DEF Waited, TypeOK
  <2>2. task[t].at \in Conns
      BY <1>1, <2>1 DEF Waited, Broadcasts
  <2> DEFINE b == [task[t] EXCEPT !.stale = @ \cup {task[t].at}, !.at = None]
  <2>3. task' = [task EXCEPT ![t] = b] /\ loop' = t
      BY <1>0, <1>1 DEF Waited, TypeOK
  <2>4. b \in Broadcasts /\ b.stale = task[t].stale \cup {task[t].at}
      BY <2>1, <2>2 DEF Broadcasts
  <2>5. ws[task[t].at] = "closed" /\ inbox' \in [Conns -> Seq(Frames)]
        /\ UNCHANGED <<entries, listeners, handler, ws, stalled, changes, phoneVars, unheard>>
      BY <1>0, <1>1 DEF Waited, TypeOK
  <2> HIDE DEF b
  <2> QED
      BY <2>1, <2>3, <2>4, <2>5, TaskKeeps
<1>2. CASE Resume(t)
  <2>1. loop' = t /\ task[t] # None
        /\ UNCHANGED <<entries, listeners, handler, ws, stalled, task, changes, inbox, phoneVars,
                        unheard>>
      BY <1>2 DEF Resume
  <2>2. TypeOK'
      BY <1>0, <2>1 DEF TypeOK, phoneVars
  <2> QED
      BY <1>0, <2>1, <2>2 DEF IInv, ConnInv, TaskInv, NeverDropsLive, Live, phoneVars
<1> QED
    BY <1>1, <1>2

LEMMA DoneKeeps ==
    ASSUME IInv, NEW t \in Tasks, BroadcastDone(t)
    PROVE  IInv'
<1>0. TypeOK /\ ConnInv /\ TaskInv /\ NeverDropsLive
    BY DEF IInv
<1>1. /\ loop = t /\ task' = [task EXCEPT ![t] = None] /\ loop' = None
      /\ listeners' = listeners \ task[t].stale
      /\ UNCHANGED <<entries, handler, ws, stalled, changes, inbox, conns, online, view, unheard>>
    BY DEF BroadcastDone, phoneVars
<1>2. task[t] # None
    BY <1>0, <1>1, Bounds DEF TaskInv
<1>3. TypeOK'
    BY <1>0, <1>1 DEF TypeOK
<1>4. TaskInv'
    BY <1>0, <1>1 DEF TaskInv, TypeOK
<1>5. ConnInv'
    BY <1>0, <1>1 DEF ConnInv
<1>6. NeverDropsLive'
    BY <1>0, <1>1, <1>2 DEF NeverDropsLive, Live, TaskInv
<1> QED
    BY <1>3, <1>4, <1>5, <1>6 DEF IInv

-----------------------------------------------------------------------------
(* Connections.                                                            *)
LEMMA HandlerKeeps ==
    ASSUME IInv, NEW c \in Conns, Attach(c) \/ AttachRaises(c) \/ Detach(c)
    PROVE  IInv'
<1>0. TypeOK /\ ConnInv /\ TaskInv /\ NeverDropsLive
    BY DEF IInv
<1>1. UNCHANGED <<entries, ws, stalled, task, loop, changes, conns, online, view>>
      /\ listeners' \in {listeners \cup {c}, listeners \ {c}}
      /\ handler' \in [Conns -> {"none", "attaching", "receiving", "done"}]
      /\ \A d \in Conns : d # c => handler'[d] = handler[d]
    BY <1>0 DEF Attach, AttachRaises, Detach, phoneVars, TypeOK
<1>2. unheard' \in [Phones -> SUBSET Ids]
    BY <1>0 DEF Attach, AttachRaises, Detach, TypeOK
<1>3. inbox' \in [Conns -> Seq(Frames)]
    BY <1>0, FramesMade, DeliveredTypes DEF Attach, AttachRaises, Detach, TypeOK
<1>4. TypeOK'
    BY <1>0, <1>1, <1>2, <1>3 DEF TypeOK
<1>5. TaskInv'
    BY <1>0, <1>1 DEF TaskInv
<1>6. ws[c] # "new" /\ (c \notin listeners' => ws[c] # "open")
    BY DEF Attach, AttachRaises, Detach, MustWait
<1>7. ConnInv' /\ NeverDropsLive'
    BY <1>0, <1>1, <1>6 DEF ConnInv, NeverDropsLive, Live
<1> QED
    BY <1>4, <1>5, <1>7 DEF IInv

LEMMA NetworkKeeps ==
    ASSUME IInv, NEW c \in Conns, Stall(c) \/ Unstall(c) \/ Notice(c) \/ CloseDone(c)
    PROVE  IInv'
<1>0. TypeOK /\ ConnInv /\ TaskInv /\ NeverDropsLive
    BY DEF IInv
<1>1. UNCHANGED <<entries, listeners, loop, changes, inbox, conns, online, view, unheard>>
      /\ stalled' \subseteq Conns /\ loop = None
    BY <1>0 DEF Stall, Unstall, Notice, CloseDone, phoneVars, TypeOK
<1>h. /\ handler' \in [Conns -> {"none", "attaching", "receiving", "done"}]
      /\ \A d \in Conns : \/ handler'[d] = handler[d]
                          \/ handler[d] = "attaching" /\ handler'[d] = "receiving"
    BY <1>0 DEF Stall, Unstall, Notice, CloseDone, TypeOK
<1>2. /\ ws' \in [Conns -> {"new", "open", "closing", "closed"}]
      /\ \A d \in Conns : /\ ws'[d] = "new" <=> ws[d] = "new"
                          /\ ws[d] \in {"closing", "closed"} => ws'[d] \in {"closing", "closed"}
                          /\ ws'[d] = "open" => ws[d] = "open"
    BY <1>0 DEF Stall, Unstall, Notice, CloseDone, TypeOK
<1>3. /\ task' \in [Tasks -> Broadcasts \cup {None}]
      /\ \A t \in Tasks : task'[t] # None => task[t] # None /\ task'[t].stale = task[t].stale
  <2>1. CASE ~Unstall(c)
      BY <1>0, <2>1 DEF Stall, Notice, CloseDone, TypeOK
  <2>2. CASE Unstall(c)
    <3>1. task' = [t \in Tasks |-> IF task[t] # None /\ task[t].at = c
                                   THEN [task[t] EXCEPT !.at = None] ELSE task[t]]
        BY <2>2 DEF Unstall
    <3>2. ASSUME NEW t \in Tasks, task[t] # None
          PROVE  [task[t] EXCEPT !.at = None] \in Broadcasts
                 /\ [task[t] EXCEPT !.at = None].stale = task[t].stale
      <4>1. task[t] \in Broadcasts
          BY <1>0, <3>2 DEF TypeOK
      <4> QED
          BY <4>1 DEF Broadcasts
    <3> QED
        BY <1>0, <3>1, <3>2 DEF TypeOK
  <2> QED
      BY <2>1, <2>2
<1>4. TypeOK'
    BY <1>0, <1>1, <1>h, <1>2, <1>3 DEF TypeOK
<1>5. TaskInv'
  <2>1. ASSUME NEW t \in Tasks, task'[t] # None, NEW d \in task'[t].stale
        PROVE  ws'[d] \in {"closing", "closed"}
    <3>1. task[t] # None /\ d \in task[t].stale /\ task[t] \in Broadcasts
        BY <1>0, <1>3, <2>1 DEF TypeOK
    <3>2. d \in Conns /\ ws[d] \in {"closing", "closed"}
        BY <1>0, <3>1 DEF TaskInv, Broadcasts
    <3> QED
        BY <1>2, <3>2
  <2> QED
      BY <1>1, <2>1 DEF TaskInv
<1>6. ConnInv'
    BY <1>0, <1>1, <1>h, <1>2 DEF ConnInv, Conns
<1>7. NeverDropsLive'
    BY <1>0, <1>1, <1>h, <1>2 DEF NeverDropsLive, Live
<1> QED
    BY <1>4, <1>5, <1>6, <1>7 DEF IInv

LEMMA ConnectKeeps ==
    ASSUME IInv, NEW p \in Phones, Connect(p)
    PROVE  IInv'
<1>0. TypeOK /\ ConnInv /\ TaskInv /\ NeverDropsLive
    BY DEF IInv
<1> DEFINE k == conns[p] + 1
<1>1. k \in 1 .. MaxConns /\ <<p, k>> \in Conns /\ conns[p] \in Nat
    BY <1>0, Bounds DEF Connect, TypeOK, Conns
<1>2. /\ conns' = [conns EXCEPT ![p] = k] /\ online' = online \cup {p}
      /\ ws' = [ws EXCEPT ![<<p, k>>] = "open"]
      /\ UNCHANGED <<entries, listeners, handler, stalled, task, loop, changes, inbox, view,
                     unheard>>
    BY DEF Connect
<1>3. ws[<<p, k>>] = "new" /\ handler[<<p, k>>] = "none"
    BY <1>0, <1>1 DEF ConnInv
<1> HIDE DEF k
<1>4. TypeOK'
    BY <1>0, <1>1, <1>2 DEF TypeOK
<1>5. TaskInv'
  <2>1. ASSUME NEW t \in Tasks, task[t] # None, NEW d \in task[t].stale
        PROVE  ws'[d] \in {"closing", "closed"}
    <3>1. ws[d] \in {"closing", "closed"} /\ d \in Conns
        BY <1>0, <2>1 DEF TaskInv, TypeOK, Broadcasts
    <3>2. d # <<p, k>>
        BY <1>3, <3>1
    <3> QED
        BY <1>0, <1>2, <3>1, <3>2 DEF TypeOK
  <2> QED
      BY <1>0, <1>2, <2>1 DEF TaskInv
<1>6. ConnInv'
  <2>1. ASSUME NEW q \in Phones, NEW j \in 1 .. MaxConns, j > conns'[q]
        PROVE  ws'[<<q, j>>] = "new"
    <3>1. j > conns[q] /\ <<q, j>> # <<p, k>> /\ <<q, j>> \in Conns
        BY <1>0, <1>1, <1>2, <2>1 DEF TypeOK, Conns, k
    <3>2. ws[<<q, j>>] = "new"
        BY <1>0, <3>1 DEF ConnInv
    <3> QED
        BY <1>0, <1>2, <3>1, <3>2 DEF TypeOK
  <2>2. \A c \in Conns : ws'[c] = "new" => handler'[c] = "none"
      BY <1>0, <1>2 DEF ConnInv, TypeOK
  <2>3. \A q \in online' : conns'[q] > 0
      BY <1>0, <1>1, <1>2 DEF ConnInv, TypeOK, k
  <2> QED
      BY <2>1, <2>2, <2>3 DEF ConnInv
<1>7. NeverDropsLive'
    BY <1>0, <1>2, <1>3 DEF NeverDropsLive, Live, TypeOK
<1> QED
    BY <1>4, <1>5, <1>6, <1>7 DEF IInv

LEMMA PhoneKeeps ==
    ASSUME IInv, NEW p \in Phones, ReadFrame(p) \/ Drop(p)
    PROVE  IInv'
<1>0. TypeOK /\ ConnInv /\ TaskInv /\ NeverDropsLive
    BY DEF IInv
<1>1. UNCHANGED <<entries, listeners, handler, ws, stalled, task, loop, changes, conns>>
    BY DEF ReadFrame, Drop
<1>2. online' \subseteq Phones /\ unheard' \in [Phones -> SUBSET Ids]
    BY <1>0 DEF ReadFrame, Drop, TypeOK
<1>3. inbox' \in [Conns -> Seq(Frames)] /\ view' \in [Phones -> Lists]
  <2>1. CASE Drop(p)
    <3>1. <<>> \in Seq(Frames)
        BY EmptySeq
    <3> QED
        BY <1>0, <2>1, <3>1 DEF Drop, TypeOK
  <2>2. CASE ReadFrame(p)
    <3> DEFINE c == Current(p)
    <3>0. c \in Conns
      <4>1. conns[p] \in 0 .. MaxConns /\ conns[p] > 0
          BY <1>0, <2>2 DEF ReadFrame, TypeOK, ConnInv
      <4> QED
          BY <4>1, Bounds DEF Current, Conns
    <3>1. inbox[c] \in Seq(Frames) /\ inbox[c] # <<>>
        BY <1>0, <2>2, <3>0 DEF ReadFrame, TypeOK
    <3>2. Head(inbox[c]) \in Frames /\ Tail(inbox[c]) \in Seq(Frames)
        BY <3>1, HeadTailProperties
    <3>3. Applied(view[p], Head(inbox[c])) \in Lists
        BY <1>0, <3>2, AppliedTypes DEF TypeOK
    <3>4. /\ view' = [view EXCEPT ![p] = Applied(view[p], Head(inbox[c]))]
          /\ inbox' = [inbox EXCEPT ![c] = Tail(inbox[c])]
        BY <2>2 DEF ReadFrame
    <3> HIDE DEF c
    <3> QED
        BY <1>0, <3>2, <3>3, <3>4 DEF TypeOK
  <2> QED
      BY <2>1, <2>2
<1>4. TypeOK'
    BY <1>0, <1>1, <1>2, <1>3 DEF TypeOK
<1>5. ConnInv'
    BY <1>0, <1>1 DEF ConnInv, ReadFrame, Drop
<1> QED
    BY <1>0, <1>1, <1>4, <1>5 DEF IInv, TaskInv, NeverDropsLive, Live

-----------------------------------------------------------------------------
(* Theorems.                                                               *)

\* The inductive invariant: a connection only goes on, and only one that does
\* not stand any more is up to be discarded (preview_service.py:99-134).
THEOREM RegistryInvariant == Spec => []IInv
<1>1. IInv /\ UNCHANGED vars => IInv'
    BY DEF vars, phoneVars, IInv, TypeOK, ConnInv, TaskInv, NeverDropsLive, Live
<1>2. ASSUME IInv, Next PROVE IInv'
    BY <1>2, ChangeKeeps, ClearKeeps, SendKeeps, WakeKeeps, DoneKeeps, HandlerKeeps, NetworkKeeps,
       ConnectKeeps, PhoneKeeps DEF Next, Backend, Network, Phone
<1> QED
    BY InitHolds, <1>1, <1>2, PTL DEF Spec

\* Every variable keeps its type, for any phones, entries and tasks.
THEOREM RegistryTypes == Spec => []TypeOK
    BY RegistryInvariant, PTL DEF IInv

\* No broadcast removes a listener whose connection stands, however sends and
\* closes interleave (preview_service.py:125-134).
THEOREM RegistryNeverDropsLive == Spec => []NeverDropsLive
    BY RegistryInvariant, PTL DEF IInv

-----------------------------------------------------------------------------
(* Sends that nobody makes wait.                                           *)

\* One broadcast at a time, that has the loop; every listener that does not
\* stand is still to be sent to or already taken for stale.
SweepInv ==
    /\ \A t \in Tasks : task[t] # None => loop = t
    /\ loop # None => \A c \in listeners : \/ ws[c] = "open"
                                          \/ c \in task[loop].todo \cup task[loop].stale

LEMMA SweepBroadcast ==
    ASSUME TypeOK, SweepInv, NEW t \in Tasks, Register(t) \/ Unregister(t)
    PROVE  SweepInv'
<1>1. loop = None /\ listeners' = listeners
    BY DEF Register, Unregister, MayChange
<1>2. PICK i \in Ids, v \in Values \cup {None} : Broadcast(t, i, v)
    BY DEF Register, Unregister
<1> DEFINE b == [frame |-> Change(i, v), todo |-> listeners, stale |-> {}, at |-> None]
<1>3. task' = [task EXCEPT ![t] = b] /\ loop' = t /\ b.todo = listeners
    BY <1>2 DEF Broadcast
<1> HIDE DEF b
<1>4. \A u \in Tasks : task[u] = None
    BY <1>1, Bounds DEF SweepInv
<1>5. task'[t] = b
    BY <1>3 DEF TypeOK
<1> QED
    BY <1>1, <1>3, <1>4, <1>5 DEF SweepInv, TypeOK

LEMMA SweepSend ==
    ASSUME TypeOK, TaskInv, SweepInv, Suspends = FALSE,
           NEW t \in Tasks, NEW c \in Conns, SendText(t, c) \/ SendRaises(t, c)
    PROVE  SweepInv' /\ loop' = t
<1>1. loop = t /\ loop' = t /\ c \in task[t].todo /\ UNCHANGED <<listeners, ws>>
    BY DEF SendText, SendRaises, MustWait
<1>2. PICK b : /\ task' = [task EXCEPT ![t] = b]
               /\ b.todo = task[t].todo \ {c}
               /\ \/ ws[c] = "open" /\ b.stale = task[t].stale
                  \/ b.stale = task[t].stale \cup {c}
  <2>1. task[t] \in Broadcasts \cup {None}
      BY DEF TypeOK
  <2>2. CASE task[t] \in Broadcasts
    <3>1. CASE SendText(t, c)
      <4> DEFINE b == [task[t] EXCEPT !.todo = @ \ {c}, !.at = None]
      <4>1. task' = [task EXCEPT ![t] = b] /\ ws[c] = "open"
          BY <3>1 DEF SendText, MustWait, TypeOK
      <4>2. b.todo = task[t].todo \ {c} /\ b.stale = task[t].stale
          BY <2>2 DEF Broadcasts
      <4> HIDE DEF b
      <4> QED
          BY <4>1, <4>2
    <3>2. CASE SendRaises(t, c)
      <4> DEFINE b == [task[t] EXCEPT !.todo = @ \ {c}, !.stale = @ \cup {c}]
      <4>1. task' = [task EXCEPT ![t] = b]
          BY <3>2 DEF SendRaises, TypeOK
      <4>2. b.todo = task[t].todo \ {c} /\ b.stale = task[t].stale \cup {c}
          BY <2>2 DEF Broadcasts
      <4> HIDE DEF b
      <4> QED
          BY <4>1, <4>2
    <3> QED
        BY <3>1, <3>2
  <2>3. task[t] # None
      BY <1>1, Bounds DEF TaskInv
  <2> QED
      BY <2>1, <2>2, <2>3
<1>3. task'[t] = b /\ \A u \in Tasks : u # t => task'[u] = task[u]
    BY <1>2 DEF TypeOK
<1> QED
    BY <1>1, <1>2, <1>3, Bounds DEF SweepInv

\* The end of a broadcast discards what is stale, and leaves what stands.
LEMMA SweepDone ==
    ASSUME TypeOK, SweepInv, NEW t \in Tasks, BroadcastDone(t)
    PROVE  SweepInv' /\ \A c \in listeners' : ws[c] = "open"
<1>1. /\ loop = t /\ task[t].todo = {} /\ loop' = None /\ UNCHANGED ws
      /\ listeners' = listeners \ task[t].stale /\ task' = [task EXCEPT ![t] = None]
    BY DEF BroadcastDone
<1>2. loop # None
    BY <1>1, Bounds
<1>3. \A c \in listeners' : ws[c] = "open"
    BY <1>1, <1>2 DEF SweepInv
<1>4. \A u \in Tasks : task'[u] = None
    BY <1>1 DEF SweepInv, TypeOK
<1> QED
    BY <1>1, <1>3, <1>4 DEF SweepInv

\* While nobody has the loop nothing is under way, and nothing is promised.
LEMMA SweepIdle ==
    ASSUME SweepInv, loop = None, loop' = None, \A t \in Tasks : task[t] = None => task'[t] = None
    PROVE  SweepInv'
<1>1. \A t \in Tasks : task[t] = None
    BY Bounds DEF SweepInv
<1> QED
    BY <1>1 DEF SweepInv

LEMMA SweepStep ==
    ASSUME IInv, SweepInv, Suspends = FALSE, [Next]_vars
    PROVE  SweepInv' /\ (loop # None /\ loop' = None => \A c \in listeners' : ws[c] = "open")
<1>0. TypeOK /\ TaskInv
    BY DEF IInv
<1>1. CASE UNCHANGED vars
    BY <1>1 DEF vars, SweepInv
<1>2. ASSUME NEW t \in Tasks, Register(t) \/ Unregister(t)
      PROVE  SweepInv' /\ loop = None
    BY <1>0, <1>2, SweepBroadcast DEF Register, Unregister, MayChange
<1>3. ASSUME NEW t \in Tasks, ClearProject(t) PROVE SweepInv' /\ loop = None
    BY <1>3, SweepIdle DEF ClearProject, MayChange
<1>4. ASSUME NEW t \in Tasks, NEW c \in Conns, SendText(t, c) \/ SendRaises(t, c)
      PROVE  SweepInv' /\ loop' # None
    BY <1>0, <1>4, SweepSend, Bounds
<1>5. ASSUME NEW t \in Tasks, Waited(t) \/ Resume(t) PROVE FALSE
    BY <1>5, Bounds DEF Waited, Resume, SweepInv
<1>6. ASSUME NEW t \in Tasks, BroadcastDone(t)
      PROVE  SweepInv' /\ \A c \in listeners' : ws[c] = "open"
    BY <1>0, <1>6, SweepDone
<1>7. ASSUME NEW c \in Conns, Attach(c) \/ AttachRaises(c) \/ Detach(c)
      PROVE  SweepInv' /\ loop = None
    BY <1>7, SweepIdle DEF Attach, AttachRaises, Detach
<1>8. ASSUME NEW c \in Conns, Stall(c) \/ Unstall(c) \/ Notice(c) \/ CloseDone(c)
      PROVE  SweepInv' /\ loop = None
  <2>1. loop = None /\ loop' = None
      BY <1>8 DEF Stall, Unstall, Notice, CloseDone
  <2>2. \A t \in Tasks : task[t] = None => task'[t] = None
      BY <1>8 DEF Stall, Unstall, Notice, CloseDone
  <2> QED
      BY <2>1, <2>2, SweepIdle
<1>9. ASSUME NEW p \in Phones, Connect(p) PROVE SweepInv' /\ loop = None
    BY <1>9, SweepIdle DEF Connect
<1>10. ASSUME NEW p \in Phones, ReadFrame(p) \/ Drop(p)
       PROVE  SweepInv' /\ loop' = loop
    BY <1>10 DEF ReadFrame, Drop, SweepInv
<1> QED
    BY <1>1, <1>2, <1>3, <1>4, <1>5, <1>6, <1>7, <1>8, <1>9, <1>10
       DEF Next, Backend, Network, Phone, vars

\* Where no send waits, the end of a broadcast leaves no dead connection among
\* the listeners, not even one whose attach failed (preview_service.py:102-134).
THEOREM RegistryDeadAreSwept ==
    ASSUME Suspends = FALSE
    PROVE  Spec => DeadAreSwept
<1>1. Init => SweepInv
    BY DEF Init, SweepInv
<1>2. IInv /\ SweepInv /\ [Next]_vars => SweepInv'
    BY SweepStep
<1>3. IInv /\ SweepInv /\ [Next]_vars =>
          [loop # None /\ loop' = None => \A c \in listeners' : ws[c] = "open"]_vars
    BY SweepStep
<1> QED
    BY <1>1, <1>2, <1>3, RegistryInvariant, PTL DEF Spec, DeadAreSwept

-----------------------------------------------------------------------------
(* What a phone's list will be.                                            *)

\* A frame more decides what it is about, and nothing else.
LEMMA TellsAppend ==
    ASSUME NEW list, NEW s \in Seq(Frames), NEW f \in Frames, NEW i, NEW v
    PROVE  Tells(list, Append(s, f), i, v) <=>
               IF About(f, i) THEN Says(f, i) = v ELSE Tells(list, s, i, v)
<1> DEFINE a == Append(s, f)
           n == Len(s)
<1>1. /\ n \in Nat /\ DOMAIN s = 1 .. n /\ DOMAIN a = 1 .. n + 1
      /\ a[n + 1] = f /\ \A k \in 1 .. n : a[k] = s[k]
    BY AppendProperties, LenProperties
<1> HIDE DEF a, n
<1>2. CASE About(f, i)
  <2>1. ASSUME Says(f, i) = v PROVE Tells(list, a, i, v)
    <3>1. n + 1 \in DOMAIN a /\ About(a[n + 1], i) /\ Says(a[n + 1], i) = v
        BY <1>1, <1>2, <2>1
    <3>2. \A j \in DOMAIN a : About(a[j], i) => j <= n + 1
        BY <1>1
    <3> QED
        BY <3>1, <3>2 DEF Tells
  <2>2. ASSUME Tells(list, a, i, v) PROVE Says(f, i) = v
    <3>1. n + 1 \in DOMAIN a /\ About(a[n + 1], i)
        BY <1>1, <1>2
    <3>2. PICK k \in DOMAIN a : Says(a[k], i) = v /\ \A j \in DOMAIN a : About(a[j], i) => j <= k
        BY <2>2, <3>1 DEF Tells
    <3>3. k = n + 1
        BY <1>1, <3>1, <3>2
    <3> QED
        BY <1>1, <3>2, <3>3
  <2> QED
      BY <1>2, <2>1, <2>2 DEF a
<1>3. CASE ~About(f, i)
  <2>1. \A k \in DOMAIN a : About(a[k], i) => k \in DOMAIN s /\ a[k] = s[k]
      BY <1>1, <1>3
  <2>2. \A k \in DOMAIN s : k \in DOMAIN a /\ a[k] = s[k]
      BY <1>1
  <2>3. Tells(list, a, i, v) <=> Tells(list, s, i, v)
    <3>1. (\A k \in DOMAIN a : ~About(a[k], i)) <=> \A k \in DOMAIN s : ~About(s[k], i)
        BY <2>1, <2>2
    <3>2. ASSUME NEW k \in DOMAIN a, About(a[k], i), Says(a[k], i) = v,
                 \A j \in DOMAIN a : About(a[j], i) => j <= k
          PROVE  Tells(list, s, i, v)
        BY <2>1, <2>2, <3>2 DEF Tells
    <3>3. ASSUME NEW k \in DOMAIN s, About(s[k], i), Says(s[k], i) = v,
                 \A j \in DOMAIN s : About(s[j], i) => j <= k
          PROVE  Tells(list, a, i, v)
        BY <2>1, <2>2, <3>3 DEF Tells
    <3> QED
        BY <3>1, <3>2, <3>3 DEF Tells
  <2> QED
      BY <1>3, <2>3 DEF a
<1> QED
    BY <1>2, <1>3

\* Reading a frame changes the list, and not what it will be.
LEMMA TellsRead ==
    ASSUME NEW list \in Lists, NEW s \in Seq(Frames), s # <<>>, NEW i \in Ids, NEW v,
           Tells(list, s, i, v)
    PROVE  Tells(Applied(list, Head(s)), Tail(s), i, v)
<1> DEFINE h == Head(s)
           u == Tail(s)
           n == Len(u)
<1>1. /\ n \in Nat /\ DOMAIN u = 1 .. n /\ DOMAIN s = 1 .. n + 1
      /\ h \in Frames /\ s[1] = h /\ \A k \in 1 .. n : u[k] = s[k + 1]
  <2>1. h \in Frames /\ u \in Seq(Frames) /\ n = Len(s) - 1
        /\ \A k \in 1 .. n : u[k] = s[k + 1]
      BY HeadTailProperties
  <2>2. Len(s) \in Nat /\ DOMAIN s = 1 .. Len(s) /\ n \in Nat /\ DOMAIN u = 1 .. n /\ s[1] = h
      BY <2>1, LenProperties
  <2> QED
      BY <2>1, <2>2
<1> HIDE DEF h, u, n
<1>2. Applied(list, h)[i] = IF About(h, i) THEN Says(h, i) ELSE list[i]
  <2>1. CASE h \in [type : {"snapshot"}, entries : Lists]
      BY <2>1 DEF Applied, About, Says
  <2>2. CASE h \in [type : {"change"}, id : Ids, value : Values \cup {None}]
      BY <2>2 DEF Applied, About, Says, Lists
  <2> QED
      BY <1>1, <2>1, <2>2 DEF Frames
<1>3. CASE \A k \in DOMAIN s : ~About(s[k], i)
  <2>1. list[i] = v
      BY <1>3 DEF Tells
  <2>2. ~About(h, i) /\ \A k \in DOMAIN u : ~About(u[k], i)
      BY <1>1, <1>3
  <2> QED
      BY <1>2, <2>1, <2>2 DEF Tells, h, u
<1>4. ASSUME NEW k \in DOMAIN s, About(s[k], i), Says(s[k], i) = v,
             \A j \in DOMAIN s : About(s[j], i) => j <= k
      PROVE  Tells(Applied(list, h), u, i, v)
  <2>1. CASE k = 1
    <3>1. Applied(list, h)[i] = v
        BY <1>1, <1>2, <1>4, <2>1
    <3>2. ASSUME NEW j \in DOMAIN u PROVE ~About(u[j], i)
        BY <1>1, <1>4, <2>1
    <3> QED
        BY <3>1, <3>2 DEF Tells
  <2>2. CASE k # 1
    <3>1. k - 1 \in DOMAIN u /\ u[k - 1] = s[k]
        BY <1>1, <2>2
    <3>2. ASSUME NEW j \in DOMAIN u, About(u[j], i) PROVE j <= k - 1
        BY <1>1, <1>4, <3>2
    <3> QED
        BY <1>4, <3>1, <3>2 DEF Tells
  <2> QED
      BY <2>1, <2>2
<1> QED
    BY <1>3, <1>4 DEF Tells, h, u

-----------------------------------------------------------------------------
(* No change is lost.                                                      *)

\* The connections on which phones listen are connections, and their own.
LEMMA CurrentConn ==
    ASSUME TypeOK, ConnInv, NEW p \in online
    PROVE  /\ Current(p) \in Conns /\ Reading(Current(p)) /\ Current(p)[1] = p
           /\ inbox[Current(p)] \in Seq(Frames) /\ view[p] \in Lists
<1>1. p \in Phones /\ conns[p] \in 0 .. MaxConns /\ conns[p] > 0
    BY DEF TypeOK, ConnInv
<1>2. Current(p) \in Conns
    BY <1>1, Bounds DEF Current, Conns
<1> QED
    BY <1>1, <1>2 DEF Current, Reading, TypeOK

\* A phone that is not on the loop's list waits for what is in its inbox.
LEMMA NothingComing ==
    ASSUME NEW s \in Seq(Frames), NEW c \in Conns, loop = None \/ c \notin task[loop].todo
    PROVE  s \o Coming(c) = s
<1>1. Coming(c) = <<>>
    BY DEF Coming
<1> QED
    BY <1>1, ConcatEmptySeq

LEMMA OneComing ==
    ASSUME NEW s \in Seq(Frames), NEW c, loop # None, c \in task[loop].todo,
           task[loop].frame \in Frames
    PROVE  s \o Coming(c) = Append(s, task[loop].frame)
<1>1. Coming(c) = <<task[loop].frame>>
    BY DEF Coming
<1> QED
    BY <1>1, AppendIsConcat

\* A change is told to every phone that stands: it is among the listeners.
LEMMA ChangeLosesNothing ==
    ASSUME IInv, NoLostChange, NEW t \in Tasks, Register(t) \/ Unregister(t)
    PROVE  NoLostChange'
<1>0. TypeOK /\ ConnInv /\ NeverDropsLive
    BY DEF IInv
<1>1. /\ loop = None
      /\ UNCHANGED <<listeners, handler, ws, inbox, conns, online, view>>
    BY DEF Register, Unregister, MayChange, phoneVars
<1>2. PICK i \in Ids, v \in Values \cup {None} :
          /\ Broadcast(t, i, v) /\ entries' = [entries EXCEPT ![i] = v]
          /\ \A p \in Phones : unheard[p] \subseteq unheard'[p] \cup {i}
    BY <1>0 DEF Register, Unregister, TypeOK
<1> DEFINE b == [frame |-> Change(i, v), todo |-> listeners, stale |-> {}, at |-> None]
           f == Change(i, v)
<1>3. task' = [task EXCEPT ![t] = b] /\ loop' = t /\ b.todo = listeners /\ b.frame = f
    BY <1>2 DEF Broadcast
<1>4. /\ f \in Frames /\ About(f, i) /\ Says(f, i) = v
      /\ \A j \in Ids \ {i} : ~About(f, j)
  <2>1. f \in Frames
      BY FramesMade
  <2> QED
      BY <2>1 DEF Change, About, Says
<1> HIDE DEF b, f
<1>5. task'[t] = b
    BY <1>0, <1>3 DEF TypeOK
<1> SUFFICES ASSUME NEW p \in online, Live(Current(p)), NEW j \in Ids \ unheard'[p]
             PROVE  Tells(view[p], (inbox[Current(p)] \o Coming(Current(p)))', j, entries'[j])
    BY <1>1 DEF NoLostChange, Live, Current
<1>6. /\ Current(p) \in Conns /\ inbox[Current(p)] \in Seq(Frames)
      /\ Current(p) \in listeners /\ p \in Phones
    BY <1>0, CurrentConn DEF NeverDropsLive, TypeOK
<1>7. (inbox[Current(p)] \o Coming(Current(p)))' = Append(inbox[Current(p)], f)
  <2>1. Coming(Current(p))' = <<f>>
      BY <1>1, <1>3, <1>5, <1>6, Bounds DEF Coming, Current
  <2>2. inbox[Current(p)]' = inbox[Current(p)]
      BY <1>1 DEF Current
  <2> QED
      BY <1>4, <1>6, <2>1, <2>2, AppendIsConcat
<1>8. CASE j = i
    BY <1>0, <1>2, <1>4, <1>6, <1>7, <1>8, TellsAppend DEF TypeOK, Lists
<1>9. CASE j # i
  <2>1. j \in Ids \ unheard[p] /\ entries'[j] = entries[j]
      BY <1>0, <1>2, <1>6, <1>9 DEF TypeOK, Lists
  <2>2. Tells(view[p], inbox[Current(p)], j, entries[j])
      BY <1>1, <1>6, <2>1, NothingComing DEF NoLostChange
  <2> QED
      BY <1>4, <1>6, <1>7, <1>9, <2>1, <2>2, TellsAppend
<1> QED
    BY <1>8, <1>9

\* Clearing a project tells nobody, and is remembered for those who listen.
LEMMA ClearLosesNothing ==
    ASSUME IInv, NoLostChange, NEW t \in Tasks, ClearProject(t)
    PROVE  NoLostChange'
<1>0. TypeOK
    BY DEF IInv
<1>1. UNCHANGED <<handler, ws, task, loop, inbox, conns, online, view>>
    BY DEF ClearProject, phoneVars
<1>2. PICK q \in Projects :
         LET victims == {i \in Ids : entries[i] # None /\ entries[i].project = q}
         IN  /\ entries' = [i \in Ids |-> IF i \in victims THEN None ELSE entries[i]]
             /\ unheard' = [p \in Phones |-> IF p \in online THEN unheard[p] \cup victims ELSE {}]
    BY DEF ClearProject
<1> DEFINE victims == {i \in Ids : entries[i] # None /\ entries[i].project = q}
<1>3. /\ entries' = [i \in Ids |-> IF i \in victims THEN None ELSE entries[i]]
      /\ unheard' = [p \in Phones |-> IF p \in online THEN unheard[p] \cup victims ELSE {}]
    BY <1>2
<1> HIDE DEF victims
<1> SUFFICES ASSUME NEW p \in online, Live(Current(p)), NEW j \in Ids \ unheard'[p]
             PROVE  Tells(view[p], inbox[Current(p)] \o Coming(Current(p)), j, entries'[j])
    BY <1>1 DEF NoLostChange, Live, Current, Coming
<1>4. j \in Ids \ unheard[p] /\ entries'[j] = entries[j]
    BY <1>0, <1>3 DEF TypeOK
<1> QED
    BY <1>4 DEF NoLostChange

\* What was coming arrives, if the client is there to read it.
LEMMA SendLosesNothing ==
    ASSUME IInv, NoLostChange, Suspends = FALSE,
           NEW t \in Tasks, NEW c \in Conns, SendText(t, c) \/ SendRaises(t, c)
    PROVE  NoLostChange'
<1>0. TypeOK /\ ConnInv /\ TaskInv
    BY DEF IInv
<1>1. /\ loop = t /\ loop' = t /\ c \in task[t].todo /\ loop # None /\ task[t] \in Broadcasts
      /\ UNCHANGED <<entries, handler, ws, conns, online, view, unheard>>
    BY <1>0, Bounds DEF SendText, SendRaises, MustWait, phoneVars, TypeOK, TaskInv
<1>2. task'[t].todo = task[t].todo \ {c} /\ task'[t].frame = task[t].frame
  <2>1. CASE SendText(t, c)
    <3> DEFINE b == [task[t] EXCEPT !.todo = @ \ {c}, !.at = None]
    <3>1. task' = [task EXCEPT ![t] = b]
        BY <1>0, <2>1 DEF SendText, MustWait, TypeOK
    <3>2. b.todo = task[t].todo \ {c} /\ b.frame = task[t].frame
        BY <1>1 DEF Broadcasts
    <3> HIDE DEF b
    <3> QED
        BY <1>0, <3>1, <3>2 DEF TypeOK
  <2>2. CASE SendRaises(t, c)
    <3> DEFINE b == [task[t] EXCEPT !.todo = @ \ {c}, !.stale = @ \cup {c}]
    <3>1. task' = [task EXCEPT ![t] = b]
        BY <1>0, <2>2 DEF SendRaises, TypeOK
    <3>2. b.todo = task[t].todo \ {c} /\ b.frame = task[t].frame
        BY <1>1 DEF Broadcasts
    <3> HIDE DEF b
    <3> QED
        BY <1>0, <3>1, <3>2 DEF TypeOK
  <2> QED
      BY <2>1, <2>2
<1> SUFFICES ASSUME NEW p \in online, Live(Current(p)), NEW j \in Ids \ unheard[p]
             PROVE  Tells(view[p], (inbox[Current(p)] \o Coming(Current(p)))', j, entries[j])
    BY <1>1 DEF NoLostChange, Live, Current
<1>3. /\ Current(p) \in Conns /\ inbox[Current(p)] \in Seq(Frames) /\ Reading(Current(p))
      /\ task[t].frame \in Frames
    BY <1>0, <1>1, CurrentConn DEF Broadcasts
<1>4. Tells(view[p], inbox[Current(p)] \o Coming(Current(p)), j, entries[j])
    BY DEF NoLostChange
<1>5. CASE Current(p) = c
  <2>1. SendText(t, c) /\ ws[c] = "open"
      BY <1>5 DEF SendRaises, SendText, Live
  <2>2. inbox' = [inbox EXCEPT ![c] = Append(@, task[t].frame)]
      BY <1>3, <1>5, <2>1 DEF SendText, Delivered
  <2>3. inbox[Current(p)]' = Append(inbox[c], task[t].frame)
      BY <1>0, <1>1, <1>5, <2>2 DEF TypeOK, Current
  <2>4. Coming(Current(p))' = <<>>
      BY <1>1, <1>2, <1>5 DEF Coming, Current
  <2>5. inbox[c] \o Coming(c) = Append(inbox[c], task[t].frame)
      BY <1>1, <1>3, <1>5, OneComing
  <2>6. Append(inbox[c], task[t].frame) \o <<>> = Append(inbox[c], task[t].frame)
    <3>1. Append(inbox[c], task[t].frame) \in Seq(Frames)
        BY <1>3, <1>5, AppendProperties
    <3> QED
        BY <3>1, ConcatEmptySeq
  <2> QED
      BY <1>4, <1>5, <2>3, <2>4, <2>5, <2>6
<1>6. CASE Current(p) # c
  <2>1. Coming(Current(p))' = Coming(Current(p))
      BY <1>1, <1>2, <1>6 DEF Coming, Current
  <2>2. inbox' \in {inbox, [inbox EXCEPT ![c] = Append(@, task[t].frame)]}
      BY DEF SendText, SendRaises, Delivered
  <2>3. inbox[Current(p)]' = inbox'[Current(p)]
      BY <1>1 DEF Current
  <2>4. inbox'[Current(p)] = inbox[Current(p)]
      BY <1>0, <1>3, <1>6, <2>2 DEF TypeOK
  <2> QED
      BY <1>4, <2>1, <2>3, <2>4
<1> QED
    BY <1>5, <1>6

\* At its end a broadcast has nothing to send any more.
LEMMA DoneLosesNothing ==
    ASSUME IInv, NoLostChange, NEW t \in Tasks, BroadcastDone(t)
    PROVE  NoLostChange'
<1>0. TypeOK /\ ConnInv
    BY DEF IInv
<1>1. /\ loop = t /\ task[t].todo = {} /\ loop' = None
      /\ UNCHANGED <<entries, handler, ws, inbox, conns, online, view, unheard>>
    BY DEF BroadcastDone, phoneVars
<1> SUFFICES ASSUME NEW p \in online, Live(Current(p)), NEW j \in Ids \ unheard[p]
             PROVE  Tells(view[p], (inbox[Current(p)] \o Coming(Current(p)))', j, entries[j])
    BY <1>1 DEF NoLostChange, Live, Current
<1>2. Coming(Current(p))' = <<>> /\ Coming(Current(p)) = <<>>
      /\ inbox[Current(p)]' = inbox[Current(p)]
    BY <1>1 DEF Coming, Current
<1> QED
    BY <1>2 DEF NoLostChange

\* Whoever is attached is told the whole registry; who is gone listens no more.
LEMMA AttachLosesNothing ==
    ASSUME IInv, NoLostChange, NEW c \in Conns, Attach(c) \/ AttachRaises(c) \/ Detach(c)
    PROVE  NoLostChange'
<1>0. TypeOK /\ ConnInv
    BY DEF IInv
<1>1. /\ loop = None /\ UNCHANGED <<entries, ws, loop, conns, online, view>>
    BY DEF Attach, AttachRaises, Detach, phoneVars
<1> SUFFICES ASSUME NEW p \in online, Live(Current(p))', NEW j \in Ids \ unheard'[p]
             PROVE  Tells(view[p], (inbox[Current(p)] \o Coming(Current(p)))', j, entries[j])
    BY <1>1 DEF NoLostChange
<1>2. /\ Current(p) \in Conns /\ inbox[Current(p)] \in Seq(Frames) /\ Reading(Current(p))
      /\ Current(p)[1] = p /\ p \in Phones
    BY <1>0, CurrentConn DEF TypeOK
<1>3. (inbox[Current(p)] \o Coming(Current(p)))' = inbox'[Current(p)] \o <<>>
      /\ ws[Current(p)] = "open" /\ handler'[Current(p)] \in {"attaching", "receiving"}
    BY <1>1 DEF Coming, Current, Live
<1>4. CASE Attach(c) /\ c = Current(p)
  <2> DEFINE f == Snapshot(entries)
  <2>1. f \in Frames /\ About(f, j) /\ Says(f, j) = entries[j]
      BY <1>0, FramesMade DEF TypeOK, Snapshot, About, Says
  <2> HIDE DEF f
  <2>2. inbox'[c] = Append(inbox[c], f) /\ Append(inbox[c], f) \in Seq(Frames)
    <3>1. inbox' = [inbox EXCEPT ![c] = Append(@, f)]
        BY <1>2, <1>3, <1>4 DEF Attach, Delivered, f
    <3> QED
        BY <1>0, <1>2, <1>4, <2>1, <3>1, AppendProperties DEF TypeOK
  <2>3. Tells(view[p], Append(inbox[c], f), j, entries[j])
      BY <1>2, <1>4, <2>1, TellsAppend
  <2> QED
      BY <1>3, <1>4, <2>2, <2>3, ConcatEmptySeq
<1>5. CASE ~(Attach(c) /\ c = Current(p))
  <2>1. /\ inbox'[Current(p)] = inbox[Current(p)]
        /\ handler[Current(p)] \in {"attaching", "receiving"}
      BY <1>0, <1>2, <1>3, <1>5 DEF Attach, AttachRaises, Detach, Delivered, TypeOK
  <2>2. unheard'[p] = unheard[p]
    <3>1. CASE Attach(c)
      <4>1. ~Reading(c) \/ c[1] # p
          BY <1>5, <3>1 DEF Reading
      <4> QED
          BY <1>0, <1>2, <3>1, <4>1 DEF Attach, TypeOK, Conns
    <3>2. CASE AttachRaises(c) \/ Detach(c)
        BY <3>2 DEF AttachRaises, Detach
    <3> QED
        BY <3>1, <3>2
  <2>3. Tells(view[p], inbox[Current(p)] \o Coming(Current(p)), j, entries[j])
      BY <1>3, <2>1, <2>2 DEF NoLostChange, Live
  <2>4. Coming(Current(p)) = <<>>
      BY <1>1 DEF Coming
  <2> QED
      BY <1>3, <2>1, <2>3, <2>4
<1> QED
    BY <1>4, <1>5

\* The network only ends connections.
LEMMA NetworkLosesNothing ==
    ASSUME IInv, NoLostChange, NEW c \in Conns,
           Stall(c) \/ Unstall(c) \/ Notice(c) \/ CloseDone(c)
    PROVE  NoLostChange'
<1>0. TypeOK /\ ConnInv
    BY DEF IInv
<1>1. /\ loop = None /\ UNCHANGED <<entries, loop, inbox, conns, online, view, unheard>>
      /\ \A d \in Conns : handler'[d] = handler[d] \/ handler[d] = "attaching"
    BY <1>0 DEF Stall, Unstall, Notice, CloseDone, phoneVars, TypeOK
<1>2. \A d \in Conns : ws'[d] = "open" => ws[d] = "open"
    BY <1>0 DEF Stall, Unstall, Notice, CloseDone, TypeOK
<1> SUFFICES ASSUME NEW p \in online, Live(Current(p))', NEW j \in Ids \ unheard[p]
             PROVE  Tells(view[p], (inbox[Current(p)] \o Coming(Current(p)))', j, entries[j])
    BY <1>1 DEF NoLostChange
<1>3. Live(Current(p))
  <2>1. Current(p) \in Conns
      BY <1>0, CurrentConn
  <2> QED
      BY <1>1, <1>2, <2>1 DEF Live, Current
<1>4. (inbox[Current(p)] \o Coming(Current(p)))' = inbox[Current(p)] \o Coming(Current(p))
    BY <1>1 DEF Coming, Current
<1> QED
    BY <1>3, <1>4 DEF NoLostChange

\* A new connection has no handler yet, and an old one is nobody's.
LEMMA ConnectLosesNothing ==
    ASSUME IInv, NoLostChange, NEW q \in Phones, Connect(q)
    PROVE  NoLostChange'
<1>0. TypeOK /\ ConnInv
    BY DEF IInv
<1>1. /\ loop = None /\ UNCHANGED <<entries, handler, loop, inbox, view, unheard>>
      /\ online' = online \cup {q} /\ conns' = [conns EXCEPT ![q] = @ + 1]
      /\ ws' = [ws EXCEPT ![<<q, conns[q] + 1>>] = "open"]
    BY DEF Connect
<1>2. conns[q] \in Nat /\ conns[q] + 1 \in 1 .. MaxConns
    BY <1>0, Bounds DEF Connect, TypeOK
<1>3. handler[<<q, conns[q] + 1>>] = "none"
    BY <1>0, <1>2 DEF ConnInv, Conns
<1> SUFFICES ASSUME NEW p \in online', Live(Current(p))', NEW j \in Ids \ unheard[p]
             PROVE  Tells(view[p], (inbox[Current(p)] \o Coming(Current(p)))', j, entries[j])
    BY <1>1 DEF NoLostChange
<1>4. p # q
  <2>1. SUFFICES ASSUME p = q PROVE FALSE
      OBVIOUS
  <2>2. Current(p)' = <<q, conns[q] + 1>>
      BY <1>0, <1>1, <2>1 DEF Current, TypeOK
  <2> QED
      BY <1>1, <1>3, <2>2 DEF Live
<1>5. p \in online /\ Current(p)' = Current(p) /\ Current(p) # <<q, conns[q] + 1>>
    BY <1>0, <1>1, <1>4 DEF Current, TypeOK
<1>6. Live(Current(p))
  <2>1. Current(p) \in Conns
      BY <1>0, <1>5, CurrentConn
  <2> QED
      BY <1>0, <1>1, <1>5, <2>1 DEF Live, TypeOK
<1>7. (inbox[Current(p)] \o Coming(Current(p)))' = inbox[Current(p)] \o Coming(Current(p))
    BY <1>1, <1>5 DEF Coming
<1> QED
    BY <1>5, <1>6, <1>7 DEF NoLostChange

\* Reading a frame keeps what is promised, and who left is promised nothing.
LEMMA PhoneLosesNothing ==
    ASSUME IInv, NoLostChange, NEW q \in Phones, ReadFrame(q) \/ Drop(q)
    PROVE  NoLostChange'
<1>0. TypeOK /\ ConnInv /\ TaskInv
    BY DEF IInv
<1>1. UNCHANGED <<entries, handler, ws, task, loop, conns>> /\ online' \subseteq online
    BY DEF ReadFrame, Drop
<1> SUFFICES ASSUME NEW p \in online', Live(Current(p)), NEW j \in Ids \ unheard'[p]
             PROVE  Tells(view'[p], inbox'[Current(p)] \o Coming(Current(p)), j, entries[j])
    BY <1>1 DEF NoLostChange, Live, Current, Coming
<1>2. /\ p \in online /\ Current(p) \in Conns /\ inbox[Current(p)] \in Seq(Frames)
      /\ view[p] \in Lists /\ p \in Phones
    BY <1>0, <1>1, CurrentConn DEF TypeOK
<1>3. CASE p # q
  <2>1. Current(p) # Current(q)
      BY <1>3 DEF Current
  <2>2. inbox'[Current(p)] = inbox[Current(p)] /\ view'[p] = view[p] /\ unheard'[p] = unheard[p]
      BY <1>0, <1>2, <1>3, <2>1 DEF ReadFrame, Drop, TypeOK
  <2> QED
      BY <1>2, <2>2 DEF NoLostChange
<1>4. CASE p = q
  <2>1. ReadFrame(q)
      BY <1>4 DEF Drop
  <2> DEFINE s == inbox[Current(p)]
             w == Coming(Current(p))
  <2>2. /\ s # <<>> /\ view'[p] = Applied(view[p], Head(s)) /\ inbox'[Current(p)] = Tail(s)
        /\ unheard' = unheard
      BY <1>0, <1>2, <1>4, <2>1 DEF ReadFrame, TypeOK
  <2>3. s \in Seq(Frames) /\ w \in Seq(Frames)
    <3>1. loop # None => task[loop] \in Broadcasts
        BY <1>0 DEF TypeOK, TaskInv
    <3>2. loop # None => task[loop].frame \in Frames
        BY <3>1 DEF Broadcasts
    <3> QED
        BY <1>2, <3>2 DEF Coming
  <2>4. Tells(view[p], s \o w, j, entries[j])
      BY <1>2, <2>2 DEF NoLostChange
  <2> HIDE DEF s, w
  <2>5. /\ s \o w \in Seq(Frames) /\ s \o w # <<>>
        /\ Head(s \o w) = Head(s) /\ Tail(s \o w) = Tail(s) \o w
      BY <2>2, <2>3
  <2>6. Tells(Applied(view[p], Head(s \o w)), Tail(s \o w), j, entries[j])
      BY <1>2, <2>4, <2>5, TellsRead
  <2> QED
      BY <2>2, <2>5, <2>6 DEF w
<1> QED
    BY <1>3, <1>4

\* Where no send waits, a phone on a live connection ends up with the
\* registry's list, whatever it kept from an earlier connection, but for what
\* clear_project removed (preview_service.py:49-80, 99-134).
THEOREM RegistryNoLostChange ==
    ASSUME Suspends = FALSE
    PROVE  Spec => []NoLostChange
<1>1. Init => SweepInv /\ NoLostChange
    BY DEF Init, SweepInv, NoLostChange
<1>2. ASSUME IInv, SweepInv, NoLostChange, Next
      PROVE  NoLostChange'
  <2>1. ASSUME NEW t \in Tasks, Waited(t) \/ Resume(t) PROVE FALSE
      BY <1>2, <2>1, Bounds DEF Waited, Resume, SweepInv
  <2> QED
      BY <1>2, <2>1, ChangeLosesNothing, ClearLosesNothing, SendLosesNothing, DoneLosesNothing,
         AttachLosesNothing, NetworkLosesNothing, ConnectLosesNothing, PhoneLosesNothing
         DEF Next, Backend, Network, Phone
<1>3. NoLostChange /\ UNCHANGED vars => NoLostChange'
    BY DEF vars, phoneVars, NoLostChange, Live, Current, Coming
<1>4. IInv /\ SweepInv /\ [Next]_vars => SweepInv'
    BY SweepStep
<1> QED
    BY <1>1, <1>2, <1>3, <1>4, RegistryInvariant, PTL DEF Spec

-----------------------------------------------------------------------------
(* A phone's stream.                                                       *)

\* Generations are used one after the other, and each opens its channel once.
OrderInv ==
    /\ channel <= generation
    /\ \A g \in Generations :
          /\ g > generation => call[g] = "none" /\ chan[g] = "none"
          /\ call[g] \in {"none", "connect", "stop"} => chan[g] = "none"
          /\ chan[g] = "closing" => g # generation
    /\ shouldRun => generation > 0 /\ call[generation] \in {"connect", "ready", "returned"}
    /\ heard => generation > 0 /\ chan[generation] \notin {"none", "connecting"}

\* A timer runs exactly while the last channel's failure is being reported, and
\* a channel that was refused is gone.
TimerInv ==
    /\ OneTimer
    /\ shouldRun /\ ~authFailed =>
          /\ call[generation] = "connect" \/ chan[generation] \in LiveChan => timers = 0
          /\ chan[generation] \in {"failed", "erred"} => timers = 1
    /\ shouldRun /\ authFailed => chan[generation] \notin LiveChan

\* What is shown, until the stop that will report the end is through.
StopInv == ~shouldRun => state = "disconnected" \/ \E g \in Generations : call[g] = "stop"

SessionInv == /\ OrderInv /\ TimerInv /\ StopInv /\ NoOrphanChannel /\ NeverStranded
       /\ BackoffCountsFailures /\ RejectionStops /\ ShownConnected
SessionIInv == SessionTypeOK /\ SessionInv

LEMMA SessionInitHolds == SessionInit => SessionIInv
<1> SUFFICES ASSUME SessionInit PROVE SessionIInv
    OBVIOUS
<1>1. SessionTypeOK
  <2>1. attempts \in Nat /\ failures \in Nat /\ timers \in 0 .. 1
      BY DEF SessionInit
  <2>2. generation \in 0 .. MaxGeneration /\ channel \in 0 .. MaxGeneration
        /\ old \in [Generations -> 0 .. MaxGeneration]
      BY BoundAssumption DEF SessionInit
  <2> QED
      BY <2>1, <2>2 DEF SessionInit, SessionTypeOK
<1>2. OrderInv /\ TimerInv /\ StopInv /\ NoOrphanChannel
    BY DEF SessionInit, OrderInv, TimerInv, OneTimer, StopInv, NoOrphanChannel, LiveChan, Generations
<1>3. NeverStranded /\ BackoffCountsFailures /\ RejectionStops /\ ShownConnected
    BY DEF SessionInit, NeverStranded, BackoffCountsFailures, RejectionStops, ShownConnected
<1> QED
    BY <1>1, <1>2, <1>3 DEF SessionIInv, SessionInv

\* After the loss of a channel there is one timer, however it is reported.
LEMMA ScheduleGives ==
    ASSUME SessionTypeOK, OneTimer, Schedule
    PROVE  /\ attempts' \in Nat /\ timers' \in 0 .. 1
           /\ shouldRun /\ ~authFailed =>
                 timers' = 1 /\ attempts' = IF timers = 0 THEN attempts + 1 ELSE attempts
           /\ ~(shouldRun /\ ~authFailed) => timers' = timers /\ attempts' = attempts
    BY DEF SessionTypeOK, OneTimer, Schedule

\* A _connect or stop begins to wait: what it leaves behind.
Superseded(kind) ==
           /\ generation' = generation + 1 /\ generation' \in Generations
           /\ generation' \in 0 .. MaxGeneration /\ channel' = 0 /\ heard' = FALSE
           /\ call' \in [Generations -> {"none", "connect", "ready", "stop", "returned"}]
           /\ chan' \in [Generations -> LiveChan \cup {"none", "failed", "erred", "closing", "dead"}]
           /\ old' \in [Generations -> 0 .. MaxGeneration]
           /\ call'[generation'] = kind /\ chan'[generation'] = "none"
           /\ \A g \in Generations : /\ chan'[g] \notin LiveChan
                                     /\ g # generation' => call'[g] = call[g]
                                     /\ \/ chan'[g] = chan[g]
                                        \/ chan'[g] = "closing" /\ chan[g] \in LiveChan /\ g = generation

LEMMA SupersedeGives ==
    ASSUME SessionIInv, NEW kind \in {"connect", "stop"}, Supersede(kind)
    PROVE  Superseded(kind)
<1> USE DEF SessionIInv, SessionInv
<1>1. generation' = generation + 1 /\ generation' \in Generations /\ generation' \in 0 .. MaxGeneration
    BY BoundAssumption DEF Supersede, SessionTypeOK, Generations
<1>2. call' = [call EXCEPT ![generation'] = kind] /\ old' = [old EXCEPT ![generation'] = channel]
      /\ channel' = 0 /\ heard' = FALSE
    BY <1>1 DEF Supersede
<1>3. chan' = [g \in Generations |-> IF g = channel /\ chan[g] \in LiveChan THEN "closing" ELSE chan[g]]
    BY DEF Supersede
<1>4. call' \in [Generations -> {"none", "connect", "ready", "stop", "returned"}]
    BY <1>1, <1>2 DEF SessionTypeOK
<1>5. chan' \in [Generations -> LiveChan \cup {"none", "failed", "erred", "closing", "dead"}]
    BY <1>3 DEF SessionTypeOK
<1>6. old' \in [Generations -> 0 .. MaxGeneration]
    BY <1>1, <1>2 DEF SessionTypeOK
<1>7. call'[generation'] = kind
    BY <1>1, <1>2 DEF SessionTypeOK
<1>8. chan[generation'] = "none"
    BY <1>1 DEF OrderInv, SessionTypeOK
<1>9. chan'[generation'] = "none"
    BY <1>1, <1>3, <1>8 DEF LiveChan
<1>10. ASSUME NEW g \in Generations
       PROVE  /\ chan'[g] \notin LiveChan
              /\ g # generation' => call'[g] = call[g]
              /\ \/ chan'[g] = chan[g]
                 \/ chan'[g] = "closing" /\ chan[g] \in LiveChan /\ g = generation
  <2>1. chan[g] \in LiveChan => g = channel /\ g = generation
      BY DEF NoOrphanChannel
  <2>2. g # generation' => call'[g] = call[g]
      BY <1>1, <1>2 DEF SessionTypeOK
  <2>3. chan'[g] = IF g = channel /\ chan[g] \in LiveChan THEN "closing" ELSE chan[g]
      BY <1>3
  <2>4. CASE chan[g] \in LiveChan
      BY <2>1, <2>2, <2>3, <2>4 DEF LiveChan
  <2>5. CASE chan[g] \notin LiveChan
    <3>1. chan'[g] = chan[g]
        BY <2>3, <2>5
    <3> QED
        BY <2>2, <2>5, <3>1
  <2> QED
      BY <2>4, <2>5
<1> QED
    BY <1>1, <1>2, <1>4, <1>5, <1>6, <1>7, <1>9, <1>10 DEF Superseded

-----------------------------------------------------------------------------
(* start, the timer and stop.                                              *)
LEMMA StartKeeps ==
    ASSUME SessionIInv, Start
    PROVE  SessionIInv'
<1>1. Supersede("connect") /\ shouldRun' = TRUE /\ authFailed' = FALSE /\ attempts' = 0
      /\ failures' = 0 /\ timers' = Cancelled(timers) /\ late' = FALSE /\ state' = state /\ ~shouldRun
    BY DEF Start
<1>2. timers = 0 /\ timers' = 0
    BY <1>1 DEF SessionIInv, SessionInv, TimerInv, OneTimer, SessionTypeOK, Cancelled
<1>s. Superseded("connect") /\ SessionTypeOK /\ SessionInv
    BY <1>1, SupersedeGives DEF SessionIInv
<1>3. SessionTypeOK'
  <2>1. /\ shouldRun' \in BOOLEAN /\ authFailed' \in BOOLEAN /\ heard' \in BOOLEAN /\ late' \in BOOLEAN
        /\ state' \in {"disconnected", "connecting", "connected"}
      BY <1>1, <1>2, <1>s DEF Superseded, SessionTypeOK
  <2>2. attempts' \in Nat /\ failures' \in Nat /\ timers' \in 0 .. 1 /\ channel' \in 0 .. MaxGeneration
      BY <1>1, <1>2, <1>s, BoundAssumption DEF Superseded, SessionTypeOK
  <2> QED
      BY <1>s, <2>1, <2>2 DEF Superseded, SessionTypeOK
<1>4. OrderInv'
    BY <1>1, <1>s DEF Superseded, SessionInv, SessionTypeOK, OrderInv, LiveChan, Generations
<1>5. TimerInv' /\ StopInv' /\ NoOrphanChannel' /\ NeverStranded' /\ BackoffCountsFailures'
      /\ RejectionStops' /\ ShownConnected'
    BY <1>1, <1>2, <1>s DEF Superseded, TimerInv, OneTimer, StopInv, NoOrphanChannel, NeverStranded,
       BackoffCountsFailures, RejectionStops, ShownConnected, LiveChan, Generations
<1> QED
    BY <1>3, <1>4, <1>5 DEF SessionIInv, SessionInv

LEMMA TimerKeeps ==
    ASSUME SessionIInv, TimerFires
    PROVE  SessionIInv'
<1>1. shouldRun /\ timers = 1
    BY DEF TimerFires, SessionIInv, SessionInv, TimerInv, OneTimer, SessionTypeOK
<1>2. Supersede("connect") /\ timers' = 0
      /\ UNCHANGED <<shouldRun, authFailed, attempts, failures, state, late>>
    BY <1>1 DEF TimerFires, Cancelled
<1>s. Superseded("connect") /\ SessionTypeOK /\ SessionInv
    BY <1>1, <1>2, SupersedeGives DEF SessionIInv
<1>3. SessionTypeOK'
  <2>1. /\ shouldRun' \in BOOLEAN /\ authFailed' \in BOOLEAN /\ heard' \in BOOLEAN /\ late' \in BOOLEAN
        /\ state' \in {"disconnected", "connecting", "connected"}
      BY <1>2, <1>s DEF Superseded, SessionTypeOK
  <2>2. attempts' \in Nat /\ failures' \in Nat /\ timers' \in 0 .. 1 /\ channel' \in 0 .. MaxGeneration
      BY <1>2, <1>s, BoundAssumption DEF Superseded, SessionTypeOK
  <2> QED
      BY <1>s, <2>1, <2>2 DEF Superseded, SessionTypeOK
<1>4. OrderInv'
    BY <1>1, <1>2, <1>s DEF Superseded, SessionInv, SessionTypeOK, OrderInv, LiveChan, Generations
<1>5. ~authFailed
    BY <1>1 DEF SessionIInv, SessionInv, RejectionStops
<1>6. TimerInv' /\ StopInv' /\ NoOrphanChannel' /\ NeverStranded' /\ RejectionStops' /\ ShownConnected'
    BY <1>1, <1>2, <1>5, <1>s DEF Superseded, TimerInv, OneTimer, StopInv, NoOrphanChannel,
       NeverStranded, RejectionStops, ShownConnected, LiveChan, Generations
<1>7. BackoffCountsFailures'
    BY <1>2 DEF SessionIInv, SessionInv, BackoffCountsFailures
<1> QED
    BY <1>3, <1>4, <1>6, <1>7 DEF SessionIInv, SessionInv

LEMMA StopKeeps ==
    ASSUME SessionIInv, Stop
    PROVE  SessionIInv'
<1>1. Supersede("stop") /\ shouldRun' = FALSE /\ timers' = Cancelled(timers)
      /\ attempts' = 0 /\ failures' = 0 /\ UNCHANGED <<authFailed, state, late>>
    BY DEF Stop
<1>2. timers' = 0
    BY <1>1 DEF SessionIInv, SessionInv, TimerInv, OneTimer, SessionTypeOK, Cancelled
<1>s. Superseded("stop") /\ SessionTypeOK /\ SessionInv
    BY <1>1, SupersedeGives DEF SessionIInv
<1>3. SessionTypeOK'
  <2>1. /\ shouldRun' \in BOOLEAN /\ authFailed' \in BOOLEAN /\ heard' \in BOOLEAN /\ late' \in BOOLEAN
        /\ state' \in {"disconnected", "connecting", "connected"}
      BY <1>1, <1>2, <1>s DEF Superseded, SessionTypeOK
  <2>2. attempts' \in Nat /\ failures' \in Nat /\ timers' \in 0 .. 1 /\ channel' \in 0 .. MaxGeneration
      BY <1>1, <1>2, <1>s, BoundAssumption DEF Superseded, SessionTypeOK
  <2> QED
      BY <1>s, <2>1, <2>2 DEF Superseded, SessionTypeOK
<1>4. OrderInv'
    BY <1>1, <1>s DEF Superseded, SessionInv, SessionTypeOK, OrderInv, LiveChan, Generations
<1>5. TimerInv' /\ StopInv' /\ NoOrphanChannel' /\ NeverStranded' /\ BackoffCountsFailures'
      /\ RejectionStops' /\ ShownConnected'
    BY <1>1, <1>2, <1>s DEF Superseded, TimerInv, OneTimer, StopInv, NoOrphanChannel, NeverStranded,
       BackoffCountsFailures, RejectionStops, ShownConnected, LiveChan, Generations
<1> QED
    BY <1>3, <1>4, <1>5 DEF SessionIInv, SessionInv

-----------------------------------------------------------------------------
(* What follows an await.                                                  *)
LEMMA CallKeeps ==
    ASSUME SessionIInv, NEW g \in Generations, Open(g) \/ GiveUp(g) \/ Stopped(g) \/ Ready(g) \/ Closed(g)
    PROVE  SessionIInv'
<1> USE DEF SessionIInv, SessionInv
<1>0. UNCHANGED <<session, backoff, old, heard>>
    BY DEF Open, GiveUp, Stopped, Ready, Closed, marks
<1>1. SessionTypeOK'
    BY <1>0 DEF SessionTypeOK, Open, GiveUp, Stopped, Ready, Closed, LiveChan, Generations, session, backoff, marks
<1>2. CASE Open(g)
  <2>1. g = generation /\ shouldRun /\ chan[g] = "none"
      BY <1>2 DEF Open, Stale, OrderInv
  <2>2. \A d \in Generations : chan[d] \notin LiveChan
      BY <2>1 DEF NoOrphanChannel, LiveChan
  <2>3. heard = FALSE
      BY <2>1 DEF OrderInv, SessionTypeOK
  <2> QED
      BY <1>0, <1>1, <1>2, <2>1, <2>2, <2>3 DEF Open, SessionTypeOK, OrderInv, TimerInv, OneTimer, StopInv,
         NoOrphanChannel, NeverStranded, BackoffCountsFailures, RejectionStops, ShownConnected, LiveChan,
         Generations, session, backoff, marks
<1>3. CASE GiveUp(g)
  <2>1. g # generation \/ ~shouldRun
      BY <1>3 DEF GiveUp, Stale
  <2> QED
      BY <1>0, <1>1, <1>3, <2>1 DEF GiveUp, SessionTypeOK, OrderInv, TimerInv, OneTimer, StopInv,
         NoOrphanChannel, NeverStranded, BackoffCountsFailures, RejectionStops, ShownConnected, LiveChan,
         Generations, session, backoff, marks
<1>4. CASE Stopped(g)
  <2>1. g # generation \/ ~shouldRun
      BY <1>4 DEF Stopped, OrderInv
  <2> QED
      BY <1>0, <1>1, <1>4, <2>1 DEF Stopped, SessionTypeOK, OrderInv, TimerInv, OneTimer, StopInv,
         NoOrphanChannel, NeverStranded, BackoffCountsFailures, RejectionStops, ShownConnected, LiveChan,
         Generations, session, backoff, marks
<1>5. CASE Ready(g)
  <2>1. g = generation /\ shouldRun /\ g = channel /\ heard = FALSE
      BY <1>5 DEF Ready, NoOrphanChannel, OrderInv, LiveChan, SessionTypeOK
  <2> QED
      BY <1>0, <1>1, <1>5, <2>1 DEF Ready, SessionTypeOK, OrderInv, TimerInv, OneTimer, StopInv,
         NoOrphanChannel, NeverStranded, BackoffCountsFailures, RejectionStops, ShownConnected, LiveChan,
         Generations, session, backoff, marks
<1>6. CASE Closed(g)
  <2>1. g # generation /\ call[g] \notin {"none", "connect", "stop"}
      BY <1>6 DEF Closed, OrderInv
  <2> QED
      BY <1>0, <1>1, <1>6, <2>1 DEF Closed, SessionTypeOK, OrderInv, TimerInv, OneTimer, StopInv,
         NoOrphanChannel, NeverStranded, BackoffCountsFailures, RejectionStops, ShownConnected, LiveChan,
         Generations, session, backoff, marks
<1> QED
    BY <1>2, <1>3, <1>4, <1>5, <1>6

LEMMA FailureKeeps ==
    ASSUME SessionIInv, NEW g \in Generations, ConnectFails(g) \/ StreamErrs(g) \/ StreamDone(g)
    PROVE  SessionIInv'
<1> USE DEF SessionIInv, SessionInv
<1>0. UNCHANGED <<session, channel, old, marks>>
    BY DEF ConnectFails, StreamErrs, StreamDone
<1>1. /\ chan[g] \notin {"none", "closing", "dead"} /\ chan'[g] \in {"failed", "erred", "dead"}
      /\ chan'[g] \in {"failed", "erred"} \/ chan[g] \in {"erred", "open"}
      /\ \A d \in Generations : d # g => chan'[d] = chan[d] /\ call'[d] = call[d]
      /\ call'[g] \in {call[g], "returned"} /\ call[g] \notin {"none", "connect", "stop"}
      /\ chan' \in [Generations -> LiveChan \cup {"none", "failed", "erred", "closing", "dead"}]
      /\ call' \in [Generations -> {"none", "connect", "ready", "stop", "returned"}]
    BY DEF ConnectFails, StreamErrs, StreamDone, SessionTypeOK, OrderInv, LiveChan
<1>2. OrderInv'
    BY <1>0, <1>1 DEF OrderInv, session, marks, SessionTypeOK, Generations
<1>3. NoOrphanChannel'
    BY <1>0, <1>1 DEF NoOrphanChannel, session, LiveChan
<1>4. CASE Stale(g)
  <2>1. UNCHANGED <<attempts, failures, timers, state>>
      BY <1>4 DEF ConnectFails, StreamErrs, StreamDone, backoff
  <2>2. g # generation \/ ~shouldRun
      BY <1>4 DEF Stale
  <2>3. SessionTypeOK'
      BY <1>0, <1>1, <2>1 DEF SessionTypeOK, session, marks
  <2>4. TimerInv' /\ NeverStranded' /\ BackoffCountsFailures' /\ RejectionStops'
      BY <1>0, <1>1, <2>1, <2>2 DEF TimerInv, OneTimer, NeverStranded, BackoffCountsFailures,
         RejectionStops, session, SessionTypeOK, Generations, OrderInv
  <2>5. StopInv'
      BY <1>0, <1>1, <2>1 DEF StopInv, session
  <2>6. ShownConnected'
      BY <1>0, <1>1, <2>1 DEF ShownConnected, session, marks, OrderInv, SessionTypeOK, Generations
  <2> QED
      BY <1>2, <1>3, <2>3, <2>4, <2>5, <2>6
<1>5. CASE ~Stale(g)
  <2>1. shouldRun /\ g = generation
      BY <1>5 DEF Stale
  <2>2. Schedule
      BY <1>5 DEF ConnectFails, StreamErrs, StreamDone
  <2>3. failures' = IF chan[g] \in LiveChan THEN failures + 1 ELSE failures
      BY <1>5 DEF ConnectFails, StreamErrs, StreamDone, Lost, LiveChan
  <2>4. /\ attempts' \in Nat /\ timers' \in 0 .. 1
        /\ ~authFailed => timers' = 1 /\ attempts' = IF timers = 0 THEN attempts + 1 ELSE attempts
        /\ authFailed => timers' = timers /\ attempts' = attempts
      BY <2>1, <2>2, ScheduleGives DEF TimerInv
  <2>5. state' \in {"disconnected", "connecting", "connected"}
      BY <1>5 DEF ConnectFails, StreamErrs, StreamDone, Lost, SessionTypeOK
  <2>6. failures' \in Nat
      BY <2>3 DEF SessionTypeOK
  <2>7. SessionTypeOK'
      BY <1>0, <1>1, <2>4, <2>5, <2>6 DEF SessionTypeOK, session, marks
  <2>8. TimerInv' /\ NeverStranded' /\ RejectionStops' /\ StopInv' /\ ShownConnected'
      BY <1>0, <1>1, <2>1, <2>4 DEF TimerInv, OneTimer, NeverStranded, RejectionStops, StopInv,
         ShownConnected, session, LiveChan
  <2>9. BackoffCountsFailures'
    <3> SUFFICES ASSUME ~authFailed PROVE attempts' = failures'
        BY <1>0 DEF BackoffCountsFailures, session
    <3>1. attempts = failures
        BY <2>1 DEF BackoffCountsFailures
    <3>2. timers = IF chan[g] \in LiveChan THEN 0 ELSE 1
        BY <1>1, <2>1 DEF TimerInv, SessionTypeOK, LiveChan
    <3> QED
        BY <2>3, <2>4, <3>1, <3>2
  <2> QED
      BY <1>2, <1>3, <2>7, <2>8, <2>9
<1> QED
    BY <1>4, <1>5

LEMMA FrameKeeps ==
    ASSUME SessionIInv, NEW g \in Generations, Frame(g) \/ AuthClose(g)
    PROVE  SessionIInv'
<1> USE DEF SessionIInv, SessionInv
<1>1. CASE Frame(g)
  <2>1. g = generation /\ shouldRun
      BY <1>1 DEF Frame, Stale
  <2> QED
      BY <1>1, <2>1 DEF Frame, SessionTypeOK, OrderInv, TimerInv, OneTimer, StopInv, NoOrphanChannel,
         NeverStranded, BackoffCountsFailures, RejectionStops, ShownConnected, LiveChan, Generations,
         session, channels
<1>2. CASE AuthClose(g)
  <2>1. g = generation /\ shouldRun /\ ~Stale(g)
      BY <1>2 DEF AuthClose, NoOrphanChannel, LiveChan, Stale
  <2>2. authFailed' = TRUE /\ state' = "disconnected" /\ timers' = 0
      BY <1>2, <2>1 DEF AuthClose, TimerInv, OneTimer, Cancelled, SessionTypeOK
  <2>3. call[g] \notin {"none", "connect", "stop"}
      BY <1>2 DEF AuthClose, OrderInv
  <2>4. chan' = [chan EXCEPT ![g] = "dead"]
        /\ UNCHANGED <<shouldRun, generation, attempts, failures, channel, call, old, heard, late>>
      BY <1>2 DEF AuthClose
  <2>5. SessionTypeOK'
      BY <2>2, <2>4 DEF SessionTypeOK
  <2> QED
      BY <2>1, <2>2, <2>3, <2>4, <2>5 DEF SessionTypeOK, OrderInv, TimerInv, OneTimer, StopInv,
         NoOrphanChannel, NeverStranded, BackoffCountsFailures, RejectionStops, ShownConnected, LiveChan,
         Generations
<1> QED
    BY <1>1, <1>2

-----------------------------------------------------------------------------
(* A session is one link.                                                  *)

\* What OneLink sees of a session.
LinkIs(l) ==
    /\ ~shouldRun => l = "off"
    /\ shouldRun /\ authFailed => l = "refused"
    /\ shouldRun /\ ~authFailed /\ timers > 0 => l = "waiting"
    /\ shouldRun /\ ~authFailed /\ ~(timers > 0) =>
          l = IF call[generation] = "connect" THEN "dialing" ELSE chan[generation]

LEMMA LinkCases == LinkIs(Link) /\ LinkIs(Link)'
    BY DEF LinkIs, Link

\* What it does not see: a step of an earlier generation, or of a session that
\* is stopped.
LEMMA UnseenStep ==
    ASSUME SessionIInv, NEW g \in Generations, g # generation \/ ~shouldRun,
           \A d \in Generations : d # g => chan'[d] = chan[d] /\ call'[d] = call[d],
           UNCHANGED <<shouldRun, generation, authFailed, attempts, timers>>
    PROVE  UNCHANGED One!vars
<1>1. shouldRun => generation \in Generations
    BY BoundAssumption DEF SessionIInv, SessionInv, SessionTypeOK, OrderInv, Generations
<1>2. Link' = Link
    BY <1>1, LinkCases DEF LinkIs
<1> QED
    BY <1>2 DEF One!vars

LEMMA MethodsLink ==
    ASSUME SessionIInv, Start \/ Stop \/ TimerFires
    PROVE  [One!Next]_(One!vars)
<1>0. SessionTypeOK /\ SessionInv /\ timers \in 0 .. 1
    BY DEF SessionIInv, SessionTypeOK
<1>1. CASE Start
  <2>1. ~shouldRun /\ shouldRun' /\ ~authFailed' /\ attempts' = 0 /\ Superseded("connect")
      BY <1>1, SupersedeGives DEF Start
  <2>2. timers' = 0
      BY <1>0, <1>1 DEF Start, SessionInv, TimerInv, OneTimer, Cancelled
  <2>3. Link = "off" /\ Link' = "dialing"
      BY <2>1, <2>2, LinkCases DEF LinkIs, Superseded
  <2> QED
      BY <2>1, <2>3 DEF One!Start, One!Next
<1>2. CASE Stop
  <2>1. ~shouldRun' /\ attempts' = 0
      BY <1>2 DEF Stop
  <2>2. Link' = "off"
      BY <2>1, LinkCases DEF LinkIs
  <2> QED
      BY <2>1, <2>2 DEF One!Stop, One!Next
<1>3. CASE TimerFires
  <2>1. shouldRun /\ timers = 1 /\ ~authFailed
      BY <1>0, <1>3 DEF TimerFires, SessionInv, TimerInv, OneTimer, RejectionStops
  <2>2. /\ Superseded("connect") /\ timers' = 0
        /\ UNCHANGED <<shouldRun, authFailed, attempts>>
      BY <1>3, <2>1, SupersedeGives DEF TimerFires, Cancelled
  <2>3. Link = "waiting" /\ Link' = "dialing"
      BY <2>1, <2>2, LinkCases DEF LinkIs, Superseded
  <2> QED
      BY <2>2, <2>3 DEF One!Retry, One!Next
<1> QED
    BY <1>1, <1>2, <1>3

LEMMA CallsLink ==
    ASSUME SessionIInv, NEW g \in Generations,
           Open(g) \/ GiveUp(g) \/ Stopped(g) \/ Ready(g) \/ Closed(g)
    PROVE  [One!Next]_(One!vars)
<1>0. /\ SessionTypeOK /\ SessionInv
      /\ UNCHANGED <<shouldRun, generation, authFailed, attempts, timers>>
      /\ \A d \in Generations : d # g => chan'[d] = chan[d] /\ call'[d] = call[d]
    BY DEF SessionIInv, SessionTypeOK, Open, GiveUp, Stopped, Ready, Closed, session, backoff
<1>1. CASE g # generation \/ ~shouldRun
    BY <1>0, <1>1, UnseenStep
<1>2. CASE g = generation /\ shouldRun
  <2>1. ~Closed(g) /\ ~Stopped(g) /\ ~GiveUp(g)
      BY <1>0, <1>2 DEF SessionInv, OrderInv, Closed, Stopped, GiveUp, Stale
  <2>2. CASE Open(g)
    <3>1. /\ call[g] = "connect" /\ ~authFailed /\ timers = 0
          /\ chan'[g] = "connecting" /\ call'[g] = "ready"
        BY <1>0, <1>2, <2>2 DEF Open, SessionInv, SessionTypeOK, RejectionStops, TimerInv
    <3>2. Link = "dialing" /\ Link' = "connecting"
        BY <1>0, <1>2, <3>1, LinkCases DEF LinkIs
    <3> QED
        BY <1>0, <3>2 DEF One!Connect, One!Next
  <2>3. CASE Ready(g)
    <3>1. /\ chan[g] = "connecting" /\ chan'[g] = "open" /\ call'[g] = "returned"
          /\ call[g] # "connect" /\ ~authFailed /\ timers = 0
        BY <1>0, <1>2, <2>3 DEF Ready, SessionInv, SessionTypeOK, OrderInv, TimerInv, LiveChan
    <3>2. Link = "connecting" /\ Link' = "open"
        BY <1>0, <1>2, <3>1, LinkCases DEF LinkIs
    <3> QED
        BY <1>0, <3>2 DEF One!Opened, One!Next
  <2> QED
      BY <2>1, <2>2, <2>3
<1> QED
    BY <1>1, <1>2

LEMMA FailuresLink ==
    ASSUME SessionIInv, NEW g \in Generations, ConnectFails(g) \/ StreamErrs(g) \/ StreamDone(g)
    PROVE  [One!Next]_(One!vars)
<1>0. /\ SessionTypeOK /\ SessionInv /\ UNCHANGED <<shouldRun, generation, authFailed>>
      /\ \A d \in Generations : d # g => chan'[d] = chan[d] /\ call'[d] = call[d]
      /\ chan[g] \notin {"none", "closing", "dead"} /\ call[g] # "connect"
      /\ chan[g] \in LiveChan \cup {"failed", "erred"}
    BY DEF SessionIInv, SessionInv, OrderInv, SessionTypeOK, ConnectFails, StreamErrs, StreamDone,
       session, LiveChan
<1>1. CASE Stale(g)
  <2>1. UNCHANGED <<attempts, timers>> /\ (g # generation \/ ~shouldRun)
      BY <1>1 DEF ConnectFails, StreamErrs, StreamDone, backoff, Stale
  <2> QED
      BY <1>0, <2>1, UnseenStep
<1>2. CASE ~Stale(g)
  <2>1. shouldRun /\ g = generation /\ Schedule /\ OneTimer
      BY <1>0, <1>2 DEF Stale, ConnectFails, StreamErrs, StreamDone, SessionInv, TimerInv
  <2>2. /\ ~authFailed => timers' = 1 /\ attempts' = IF timers = 0 THEN attempts + 1 ELSE attempts
        /\ authFailed => timers' = timers /\ attempts' = attempts
      BY <1>0, <2>1, ScheduleGives
  <2>3. CASE authFailed
    <3>1. Link' = Link
        BY <1>0, <2>1, <2>3, LinkCases DEF LinkIs
    <3> QED
        BY <2>2, <2>3, <3>1 DEF One!vars
  <2>4. CASE ~authFailed /\ timers > 0
    <3>1. Link' = Link
        BY <1>0, <2>1, <2>2, <2>4, LinkCases DEF LinkIs
    <3> QED
        BY <2>2, <2>4, <3>1 DEF One!vars
  <2>5. CASE ~authFailed /\ ~(timers > 0)
    <3>1. timers = 0 /\ chan[g] \in LiveChan
        BY <1>0, <2>1, <2>5 DEF SessionInv, TimerInv, SessionTypeOK
    <3>2. Link \in {"connecting", "open"} /\ Link' = "waiting"
        BY <1>0, <2>1, <2>2, <2>5, <3>1, LinkCases DEF LinkIs, LiveChan
    <3> QED
        BY <2>2, <2>5, <3>1, <3>2 DEF One!Lose, One!Next
  <2> QED
      BY <2>3, <2>4, <2>5
<1> QED
    BY <1>1, <1>2

LEMMA FramesLink ==
    ASSUME SessionIInv, NEW g \in Generations, Frame(g) \/ AuthClose(g)
    PROVE  [One!Next]_(One!vars)
<1>0. SessionTypeOK /\ SessionInv /\ chan[g] = "open"
    BY DEF SessionIInv, Frame, AuthClose
<1>1. shouldRun /\ g = generation /\ ~authFailed /\ timers = 0 /\ call[g] # "connect"
    BY <1>0 DEF SessionInv, NoOrphanChannel, TimerInv, OrderInv, LiveChan
<1>2. Link = "open"
    BY <1>0, <1>1, LinkCases DEF LinkIs
<1>3. CASE Frame(g)
  <2>1. Link' = Link /\ attempts' = 0
      BY <1>0, <1>1, <1>3, LinkCases DEF LinkIs, Frame, session, channels
  <2> QED
      BY <1>2, <2>1 DEF One!Hear, One!Next
<1>4. CASE AuthClose(g)
  <2>1. shouldRun' /\ authFailed' /\ attempts' = attempts
      BY <1>1, <1>4 DEF AuthClose, Stale
  <2>2. Link' = "refused"
      BY <2>1, LinkCases DEF LinkIs
  <2> QED
      BY <1>2, <2>1, <2>2 DEF One!Refused, One!Next
<1> QED
    BY <1>3, <1>4

-----------------------------------------------------------------------------
(* Theorems on a phone's stream.                                           *)

\* The inductive invariant: the order of the generations, and a timer exactly
\* while a failure is being reported (preview_session.dart:60-225).
THEOREM SessionInvariant == SessionSpec => []SessionIInv
<1>1. SessionIInv /\ UNCHANGED sessionVars => SessionIInv'
    BY DEF sessionVars, session, backoff, channels, marks, SessionIInv, SessionInv, SessionTypeOK, OrderInv, TimerInv, OneTimer,
       StopInv, NoOrphanChannel, NeverStranded, BackoffCountsFailures, RejectionStops, ShownConnected
<1>2. SessionIInv /\ [SessionNext]_sessionVars => SessionIInv'
    BY <1>1, StartKeeps, StopKeeps, TimerKeeps, CallKeeps, FailureKeeps, FrameKeeps DEF SessionNext
<1> QED
    BY SessionInitHolds, <1>2, PTL DEF SessionSpec

\* Every variable keeps its type, however often the session is started.
THEOREM SessionTypes == SessionSpec => []SessionTypeOK
    BY SessionInvariant, PTL DEF SessionIInv

\* No start, stop, timer or slow close leaves a channel behind
\* (preview_session.dart:60-75, 208-225).
THEOREM SessionNoOrphan == SessionSpec => []NoOrphanChannel
    BY SessionInvariant, PTL DEF SessionIInv, SessionInv

\* A running session that was not refused has something ahead of it
\* (preview_session.dart:60-104, 179-206).
THEOREM SessionNeverStranded == SessionSpec => []NeverStranded
    BY SessionInvariant, PTL DEF SessionIInv, SessionInv

\* A loss is retried once and after its own delay, and a refusal is not
\* (preview_session.dart:80-104, 177-187).
THEOREM SessionRetriesPaced == SessionSpec => []RetriesPaced
<1>1. SessionIInv => RetriesPaced
    BY DEF SessionIInv, SessionInv, TimerInv, RetriesPaced
<1> QED
    BY SessionInvariant, <1>1, PTL

\* Through any starts, stops, slow closes and reports that come late or twice,
\* a session behaves as one link that is dialled, lost, waited for and tried
\* again, until it is stopped or refused (preview_session.dart:60-225).
THEOREM SessionRefinesLink == SessionSpec => ImplementsOneLink
<1>1. SessionInit => One!Init
    BY DEF SessionInit, One!Init, Link
<1>2. UNCHANGED sessionVars => UNCHANGED One!vars
    BY DEF sessionVars, session, backoff, channels, One!vars, Link
<1>3. SessionIInv /\ [SessionNext]_sessionVars => [One!Next]_(One!vars)
    BY <1>2, MethodsLink, CallsLink, FailuresLink, FramesLink DEF SessionNext
<1> QED
    BY SessionInvariant, <1>1, <1>3, PTL DEF SessionSpec, ImplementsOneLink, One!Spec

\* What the session shows, running or stopped, is so
\* (preview_session.dart:76-87, 208-216).
THEOREM SessionShownTruly == SessionSpec => []ShownTruly
<1>1. SessionIInv => ShownTruly
    BY DEF SessionIInv, SessionInv, StopInv, ShownTruly, ShownStopped
<1> QED
    BY SessionInvariant, <1>1, PTL
=============================================================================
