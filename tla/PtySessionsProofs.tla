-------------------------- MODULE PtySessionsProofs --------------------------
(***************************************************************************)
(* Safety of the interactive terminals, for every number of sessions and   *)
(* every MAX_PTYS.                                                         *)
(***************************************************************************)
EXTENDS PtySessions, FiniteSetTheorems, TLAPS

\* What each suspension point of the handler knows about the rest of its
\* session.
SessionOK(s) ==
    /\ pc[s] \in {"idle", "refused", "spawning", "readying"} => reader[s] = "none"
    /\ pc[s] \in {"idle", "refused", "spawning"} => shell[s] = "none"
    /\ reader[s] = "none" <=> receiver[s] = "none"
    /\ pc[s] \in {"grace", "exiting", "closing"} => shell[s] = "reaped"
    /\ pc[s] \in {"exiting", "closing"} => reader[s] = "ended"
    /\ reader[s] = "ended" /\ master[s] =>
          ~LiveShell(s) /\ job[s] = "none" /\ ~unsent[s]
    /\ pc[s] = "readying" \/ reader[s] # "none" => shell[s] # "none"
    /\ pc[s] = "gathering" => reader[s] # "none"
    /\ pc[s] \in {"gathering", "done"} => shell[s] \in {"none", "reaped"} /\ ~master[s]
    /\ pc[s] = "done" => reader[s] # "running" /\ receiver[s] \notin {"running", "writing"}

SessionsOK == \A s \in Sessions : SessionOK(s)

IInv == TypeOK /\ SessionsOK /\ SlotAccounting /\ SlotLimit

-----------------------------------------------------------------------------
(* Each step keeps the types and what the handler knows of its session.    *)

\* What entering `finally` changes, whatever led there.
LEMMA FinallyEffect ==
    ASSUME TypeOK, NEW s \in Sessions, EnterFinally(s)
    PROVE  /\ activePtys' = GiveSlotBack
           /\ pc' \in [Sessions -> PCs] /\ shell' \in [Sessions -> ShellStates]
           /\ job' \in [Sessions -> Jobs] /\ master' \in [Sessions -> BOOLEAN]
           /\ \A t \in Sessions \ {s} :
                 /\ pc'[t] = pc[t] /\ shell'[t] = shell[t] /\ master'[t] = master[t]
                 /\ job'[t] = job[t]
           /\ shell'[s] \in {shell[s], "zombie"} /\ job'[s] \in {job[s], "none"}
           /\ shell[s] = "none" => shell'[s] = "none"
           /\ master'[s] => master[s]
           /\ pc'[s] \in {"terminating", "gathering", "done"}
           /\ pc'[s] # "terminating" => shell'[s] \in {"none", "reaped"} /\ ~master'[s]
           /\ pc'[s] = "done" <=> pc'[s] # "terminating" /\ reader[s] = "none"
<1>1. CASE shell[s] \in {"none", "reaped"}
    BY <1>1 DEF EnterFinally, CloseMaster, procVars, TypeOK, PCs, Finishing
<1>2. CASE shell[s] \notin {"none", "reaped"}
  <2>1. /\ activePtys' = GiveSlotBack
        /\ pc' = [pc EXCEPT ![s] = "terminating"]
        /\ SendTerm(s)
        /\ master' = master
      BY <1>2 DEF EnterFinally
  <2>2. /\ shell' \in [Sessions -> ShellStates] /\ job' \in [Sessions -> Jobs]
        /\ \A t \in Sessions \ {s} : shell'[t] = shell[t] /\ job'[t] = job[t]
        /\ shell'[s] \in {shell[s], "zombie"} /\ job'[s] \in {job[s], "none"}
      BY <2>1 DEF SendTerm, procVars, TypeOK, ShellStates, Jobs
  <2> QED
      BY <1>2, <2>1, <2>2 DEF TypeOK, PCs, Finishing
<1> QED
    BY <1>1, <1>2

LEMMA GiveSlotBackType == ASSUME TypeOK PROVE GiveSlotBack \in Nat
BY DEF GiveSlotBack, TypeOK

\* Handler steps.
LEMMA HandlerKeepsSessions ==
    ASSUME TypeOK, SessionsOK, NEW s \in Sessions, Handler(s)
    PROVE  TypeOK' /\ SessionsOK'
<1>1. CASE Refuse(s)
    BY <1>1
       DEF Refuse, TypeOK, SessionsOK, SessionOK, LiveShell, PCs, Holding, Finishing, ShellStates, Jobs,
           ReaderStates, ReceiverStates, Clients, procVars, taskVars
<1>2. CASE Accept(s)
    BY <1>2
       DEF Accept, TypeOK, SessionsOK, SessionOK, LiveShell, PCs, Holding, Finishing, ShellStates, Jobs,
           ReaderStates, ReceiverStates, Clients, procVars, taskVars
<1>3. CASE Spawned(s)
    BY <1>3
       DEF Spawned, TypeOK, SessionsOK, SessionOK, LiveShell, PCs, Holding, Finishing, ShellStates, Jobs,
           ReaderStates, ReceiverStates, Clients, procVars, taskVars
<1>4. CASE SpawnFails(s)
    BY <1>4
       DEF SpawnFails, TypeOK, SessionsOK, SessionOK, LiveShell, PCs, Holding, Finishing, ShellStates, Jobs,
           ReaderStates, ReceiverStates, Clients, procVars, taskVars
<1>5. CASE SendReady(s)
    BY <1>5
       DEF SendReady, TypeOK, SessionsOK, SessionOK, LiveShell, PCs, Holding, Finishing, ShellStates, Jobs,
           ReaderStates, ReceiverStates, Clients, procVars, taskVars
<1>6. CASE SendRaises(s)
  <2>1. CASE EnterFinally(s)
      BY <1>6, <2>1, FinallyEffect, GiveSlotBackType
         DEF SendRaises, TypeOK, SessionsOK, SessionOK, LiveShell, PCs, Holding, Finishing, ShellStates, Jobs,
           ReaderStates, ReceiverStates, Clients, procVars, taskVars
  <2>2. CASE pc' = [pc EXCEPT ![s] = "failing"] /\ UNCHANGED <<activePtys, procVars, master>>
      BY <1>6, <2>2
         DEF SendRaises, TypeOK, SessionsOK, SessionOK, LiveShell, PCs, Holding, Finishing, ShellStates, Jobs,
           ReaderStates, ReceiverStates, Clients, procVars, taskVars
  <2> QED
      BY <1>6, <2>1, <2>2 DEF SendRaises
<1>7. CASE ErrorSent(s)
    BY <1>7, FinallyEffect, GiveSlotBackType
       DEF ErrorSent, TypeOK, SessionsOK, SessionOK, LiveShell, PCs, Holding, Finishing, ShellStates, Jobs,
           ReaderStates, ReceiverStates, Clients, procVars, taskVars
<1>8. CASE TermDone(s)
    BY <1>8
       DEF TermDone, CloseMaster, TypeOK, SessionsOK, SessionOK, LiveShell, PCs, Holding, Finishing, ShellStates, Jobs,
           ReaderStates, ReceiverStates, Clients, procVars, taskVars
<1>9. CASE TermTimeout(s)
    BY <1>9
       DEF TermTimeout, SendKill, TypeOK, SessionsOK, SessionOK, LiveShell, PCs, Holding, Finishing, ShellStates, Jobs,
           ReaderStates, ReceiverStates, Clients, procVars, taskVars
<1>10. CASE KillDone(s)
    BY <1>10
       DEF KillDone, CloseMaster, TypeOK, SessionsOK, SessionOK, LiveShell, PCs, Holding, Finishing, ShellStates, Jobs,
           ReaderStates, ReceiverStates, Clients, procVars, taskVars
<1>11. CASE Gathered(s)
    BY <1>11
       DEF Gathered, TypeOK, SessionsOK, SessionOK, LiveShell, PCs, Holding, Finishing, ShellStates, Jobs,
           ReaderStates, ReceiverStates, Clients, procVars, taskVars
<1>12. CASE WakeOnExit(s)
    BY <1>12
       DEF WakeOnExit, TypeOK, SessionsOK, SessionOK, LiveShell, PCs, Holding, Finishing, ShellStates, Jobs,
           ReaderStates, ReceiverStates, Clients, procVars, taskVars
<1>13. CASE WakeOnReceive(s)
  <2>1. CASE EnterFinally(s)
      BY <1>13, <2>1, FinallyEffect, GiveSlotBackType
         DEF WakeOnReceive, TypeOK, SessionsOK, SessionOK, LiveShell, PCs, Holding, Finishing, ShellStates, Jobs,
           ReaderStates, ReceiverStates, Clients, procVars, taskVars
  <2>2. CASE pc' = [pc EXCEPT ![s] = "failing"] /\ UNCHANGED <<activePtys, procVars, master>>
      BY <1>13, <2>2
         DEF WakeOnReceive, TypeOK, SessionsOK, SessionOK, LiveShell, PCs, Holding, Finishing, ShellStates, Jobs,
           ReaderStates, ReceiverStates, Clients, procVars, taskVars
  <2> QED
      BY <1>13, <2>1, <2>2 DEF WakeOnReceive
<1>14. CASE Drained(s)
    BY <1>14
       DEF Drained, TypeOK, SessionsOK, SessionOK, LiveShell, PCs, Holding, Finishing, ShellStates, Jobs,
           ReaderStates, ReceiverStates, Clients, procVars, taskVars
<1>15. CASE DrainRaises(s)
  <2>1. CASE EnterFinally(s)
      BY <1>15, <2>1, FinallyEffect, GiveSlotBackType
         DEF DrainRaises, TypeOK, SessionsOK, SessionOK, LiveShell, PCs, Holding, Finishing, ShellStates, Jobs,
           ReaderStates, ReceiverStates, Clients, procVars, taskVars
  <2>2. CASE pc' = [pc EXCEPT ![s] = "failing"] /\ UNCHANGED <<activePtys, procVars, master>>
      BY <1>15, <2>2
         DEF DrainRaises, TypeOK, SessionsOK, SessionOK, LiveShell, PCs, Holding, Finishing, ShellStates, Jobs,
           ReaderStates, ReceiverStates, Clients, procVars, taskVars
  <2> QED
      BY <1>15, <2>1, <2>2 DEF DrainRaises
<1>16. CASE GraceTimeout(s)
    BY <1>16
       DEF GraceTimeout, TypeOK, SessionsOK, SessionOK, LiveShell, PCs, Holding, Finishing, ShellStates, Jobs,
           ReaderStates, ReceiverStates, Clients, procVars, taskVars
<1>17. CASE SendExit(s)
    BY <1>17
       DEF SendExit, TypeOK, SessionsOK, SessionOK, LiveShell, PCs, Holding, Finishing, ShellStates, Jobs,
           ReaderStates, ReceiverStates, Clients, procVars, taskVars
<1>18. CASE CloseSocket(s)
    BY <1>18, FinallyEffect, GiveSlotBackType
       DEF CloseSocket, TypeOK, SessionsOK, SessionOK, LiveShell, PCs, Holding, Finishing, ShellStates, Jobs,
           ReaderStates, ReceiverStates, Clients, procVars, taskVars
<1> QED
    BY <1>1, <1>2, <1>3, <1>4, <1>5, <1>6, <1>7, <1>8, <1>9, <1>10, <1>11, <1>12, <1>13, <1>14, <1>15, <1>16, <1>17, <1>18 DEF Handler

\* Tasks steps.
LEMMA TasksKeepsSessions ==
    ASSUME TypeOK, SessionsOK, NEW s \in Sessions, Tasks(s)
    PROVE  TypeOK' /\ SessionsOK'
<1>1. CASE OutputEnds(s)
    BY <1>1
       DEF OutputEnds, SlaveHeld, TypeOK, SessionsOK, SessionOK, LiveShell, PCs, Holding, Finishing, ShellStates, Jobs,
           ReaderStates, ReceiverStates, Clients, procVars, taskVars
<1>2. CASE UserFrame(s)
    BY <1>2
       DEF UserFrame, Receiving, ReceiverEnds, TypeOK, SessionsOK, SessionOK, LiveShell, PCs, Holding, Finishing, ShellStates, Jobs,
           ReaderStates, ReceiverStates, Clients, procVars, taskVars
<1>3. CASE WriteDone(s)
    BY <1>3
       DEF WriteDone, ReceiverEnds, TypeOK, SessionsOK, SessionOK, LiveShell, PCs, Holding, Finishing, ShellStates, Jobs,
           ReaderStates, ReceiverStates, Clients, procVars, taskVars
<1>4. CASE BadFrame(s)
    BY <1>4
       DEF BadFrame, Receiving, ReceiverEnds, TypeOK, SessionsOK, SessionOK, LiveShell, PCs, Holding, Finishing, ShellStates, Jobs,
           ReaderStates, ReceiverStates, Clients, procVars, taskVars
<1>5. CASE Ping(s)
    BY <1>5
       DEF Ping, Receiving, TypeOK, SessionsOK, SessionOK, LiveShell, PCs, Holding, Finishing, ShellStates, Jobs,
           ReaderStates, ReceiverStates, Clients, procVars, taskVars
<1>6. CASE ReceiveTimeout(s)
  <2>1. CASE ReceiverEnds(s, "ended")
      BY <1>6, <2>1
         DEF ReceiveTimeout, Receiving, ReceiverEnds, TypeOK, SessionsOK, SessionOK, LiveShell, PCs, Holding, Finishing, ShellStates, Jobs,
           ReaderStates, ReceiverStates, Clients, procVars, taskVars
  <2>2. CASE /\ quiet' = [quiet EXCEPT ![s] = @ + 2]
             /\ UNCHANGED receiver
      BY <1>6, <2>2
         DEF ReceiveTimeout, TypeOK, SessionsOK, SessionOK, LiveShell, PCs, Holding, Finishing, ShellStates, Jobs,
           ReaderStates, ReceiverStates, Clients, procVars, taskVars
  <2> QED
      BY <1>6, <2>1, <2>2 DEF ReceiveTimeout
<1>7. CASE SeeDisconnect(s)
    BY <1>7
       DEF SeeDisconnect, ReceiverEnds, TypeOK, SessionsOK, SessionOK, LiveShell, PCs, Holding, Finishing, ShellStates, Jobs,
           ReaderStates, ReceiverStates, Clients, procVars, taskVars
<1>9. CASE SendOutput(s)
    BY <1>9 DEF SendOutput, TypeOK, SessionsOK, SessionOK, LiveShell, PCs, Holding, Finishing, ShellStates, Jobs,
           ReaderStates, ReceiverStates, Clients, procVars, taskVars
<1>8. CASE OutputRaises(s)
    BY <1>8 DEF OutputRaises, TypeOK, SessionsOK, SessionOK, LiveShell, PCs, Holding, Finishing, ShellStates, Jobs,
           ReaderStates, ReceiverStates, Clients, procVars, taskVars
<1> QED
    BY <1>1, <1>2, <1>3, <1>4, <1>5, <1>6, <1>7, <1>8, <1>9 DEF Tasks

\* World steps.
LEMMA WorldKeepsSessions ==
    ASSUME TypeOK, SessionsOK, NEW s \in Sessions, World(s)
    PROVE  TypeOK' /\ SessionsOK'
<1>1. CASE BootDone(s)
    BY <1>1
       DEF BootDone, TypeOK, SessionsOK, SessionOK, LiveShell, PCs, Holding, Finishing, ShellStates, Jobs,
           ReaderStates, ReceiverStates, Clients, procVars, taskVars
<1>2. CASE StartJob(s)
    BY <1>2
       DEF StartJob, TypeOK, SessionsOK, SessionOK, LiveShell, PCs, Holding, Finishing, ShellStates, Jobs,
           ReaderStates, ReceiverStates, Clients, procVars, taskVars
<1>3. CASE JobEnds(s)
    BY <1>3
       DEF JobEnds, TypeOK, SessionsOK, SessionOK, LiveShell, PCs, Holding, Finishing, ShellStates, Jobs,
           ReaderStates, ReceiverStates, Clients, procVars, taskVars
<1>4. CASE ShellExits(s)
    BY <1>4
       DEF ShellExits, TypeOK, SessionsOK, SessionOK, LiveShell, PCs, Holding, Finishing, ShellStates, Jobs,
           ReaderStates, ReceiverStates, Clients, procVars, taskVars
<1>5. CASE Reap(s)
    BY <1>5
       DEF Reap, TypeOK, SessionsOK, SessionOK, LiveShell, PCs, Holding, Finishing, ShellStates, Jobs,
           ReaderStates, ReceiverStates, Clients, procVars, taskVars
<1>7. CASE Prints(s)
    BY <1>7
       DEF Prints, SlaveHeld, TypeOK, SessionsOK, SessionOK, LiveShell, PCs, Holding, Finishing, ShellStates, Jobs,
           ReaderStates, ReceiverStates, Clients, procVars, taskVars
<1>6. CASE Disconnect(s)
    BY <1>6
       DEF Disconnect, TypeOK, SessionsOK, SessionOK, LiveShell, PCs, Holding, Finishing, ShellStates, Jobs,
           ReaderStates, ReceiverStates, Clients, procVars, taskVars
<1> QED
    BY <1>1, <1>2, <1>3, <1>4, <1>5, <1>6, <1>7 DEF World

-----------------------------------------------------------------------------
(* Slots.                                                                  *)

\* The three things a step can do with the slot of its session.
TakesSlot(s) ==
    /\ pc[s] \notin Holding /\ pc'[s] \in Holding
    /\ activePtys < MaxPtys /\ activePtys' = activePtys + 1
GivesSlot(s) ==
    /\ pc[s] \in Holding /\ pc'[s] \notin Holding
    /\ activePtys' = GiveSlotBack
KeepsSlot(s) ==
    /\ pc[s] \in Holding <=> pc'[s] \in Holding
    /\ activePtys' = activePtys

\* Every handler step does one of them, to its own slot only.
LEMMA HandlerSlot ==
    ASSUME TypeOK, NEW s \in Sessions, Handler(s)
    PROVE  /\ \A t \in Sessions \ {s} : pc'[t] = pc[t]
           /\ TakesSlot(s) \/ GivesSlot(s) \/ KeepsSlot(s)
<1>1. CASE Accept(s)
    BY <1>1 DEF Accept, TakesSlot, TypeOK, PCs, Holding
<1>2. CASE EnterFinally(s) /\ pc[s] \in Holding
    BY <1>2, FinallyEffect DEF GivesSlot, Holding
<1>3. CASE /\ pc[s] \in {"readying", "exiting", "closing", "running", "grace"}
           /\ pc' = [pc EXCEPT ![s] = "failing"]
           /\ activePtys' = activePtys
    BY <1>3 DEF KeepsSlot, TypeOK, PCs, Holding
<1>4. CASE Refuse(s) \/ Spawned(s) \/ SpawnFails(s) \/ SendReady(s) \/ TermDone(s)
           \/ TermTimeout(s) \/ KillDone(s) \/ Gathered(s) \/ WakeOnExit(s)
           \/ Drained(s) \/ GraceTimeout(s) \/ SendExit(s)
    BY <1>4 DEF Refuse, Spawned, SpawnFails, SendReady, TermDone, TermTimeout,
         KillDone, Gathered, WakeOnExit, Drained, GraceTimeout, SendExit,
         CloseMaster, KeepsSlot, TypeOK, PCs, Holding, Finishing
<1>5. CASE SendRaises(s)
    BY <1>2, <1>3, <1>5 DEF SendRaises, Holding
<1>6. CASE ErrorSent(s)
    BY <1>2, <1>6 DEF ErrorSent, Holding
<1>7. CASE WakeOnReceive(s)
    BY <1>2, <1>3, <1>7 DEF WakeOnReceive, Holding
<1>8. CASE DrainRaises(s)
    BY <1>2, <1>3, <1>8 DEF DrainRaises, Holding
<1>9. CASE CloseSocket(s)
    BY <1>2, <1>9 DEF CloseSocket, Holding
<1> QED
    BY <1>1, <1>4, <1>5, <1>6, <1>7, <1>8, <1>9 DEF Handler

\* The other steps leave every slot alone.
LEMMA OthersKeepSlots ==
    ASSUME NEW s \in Sessions, Tasks(s) \/ World(s)
    PROVE  pc' = pc /\ activePtys' = activePtys
BY DEF Tasks, World, SendOutput, Prints, OutputEnds, OutputRaises, UserFrame, WriteDone, BadFrame, Ping,
       ReceiveTimeout, SeeDisconnect, BootDone, StartJob, JobEnds, ShellExits, Reap,
       Disconnect

LEMMA HoldersFinite == IsFiniteSet(SlotHolders) /\ Cardinality(SlotHolders) \in Nat
BY SessionsFinite, FS_Subset, FS_CardinalityType DEF SlotHolders

\* What one step on one slot does to the counter and to the set it counts.
LEMMA SlotStep ==
    ASSUME TypeOK, SlotAccounting, SlotLimit, NEW s \in Sessions,
           \A t \in Sessions \ {s} : pc'[t] = pc[t],
           TakesSlot(s) \/ GivesSlot(s) \/ KeepsSlot(s)
    PROVE  SlotAccounting' /\ SlotLimit'
<1>1. CASE TakesSlot(s)
  <2>1. SlotHolders' = SlotHolders \cup {s} /\ s \notin SlotHolders
      BY <1>1 DEF TakesSlot, SlotHolders, HoldsSlot
  <2>2. Cardinality(SlotHolders') = Cardinality(SlotHolders) + 1
      BY <2>1, HoldersFinite, FS_AddElement
  <2> QED
      BY <1>1, <2>2, HoldersFinite, MaxPtysAssumption
         DEF TakesSlot, SlotAccounting, SlotLimit
<1>2. CASE GivesSlot(s)
  <2>1. SlotHolders' = SlotHolders \ {s} /\ s \in SlotHolders
      BY <1>2 DEF GivesSlot, SlotHolders, HoldsSlot
  <2>2. Cardinality(SlotHolders') = Cardinality(SlotHolders) - 1
      BY <2>1, HoldersFinite, FS_RemoveElement
  <2>3. Cardinality(SlotHolders) # 0
      BY <2>1, HoldersFinite, FS_EmptySet
  <2> QED
      BY <1>2, <2>2, <2>3, HoldersFinite, MaxPtysAssumption
         DEF GivesSlot, GiveSlotBack, SlotAccounting, SlotLimit
<1>3. CASE KeepsSlot(s)
  <2>1. SlotHolders' = SlotHolders
      BY <1>3 DEF KeepsSlot, SlotHolders, HoldsSlot
  <2> QED
      BY <1>3, <2>1 DEF KeepsSlot, SlotAccounting, SlotLimit
<1> QED
    BY <1>1, <1>2, <1>3

-----------------------------------------------------------------------------
(* The invariant and what follows from it.                                 *)

LEMMA InitIInv == Init => IInv
<1> SUFFICES ASSUME Init PROVE IInv
    OBVIOUS
<1>1. SlotHolders = {}
    BY DEF Init, SlotHolders, HoldsSlot, Holding
<1>2. SlotAccounting /\ SlotLimit
    BY <1>1, FS_EmptySet, MaxPtysAssumption DEF SlotAccounting, SlotLimit, Init
<1>3. TypeOK /\ SessionsOK
    BY DEF Init, TypeOK, SessionsOK, SessionOK, LiveShell, PCs, Holding, Finishing, ShellStates,
           Jobs, ReaderStates, ReceiverStates, Clients
<1> QED
    BY <1>2, <1>3 DEF IInv

LEMMA NextIInv == IInv /\ [Next]_vars => IInv'
<1> SUFFICES ASSUME IInv, [Next]_vars PROVE IInv'
    OBVIOUS
<1>1. ASSUME NEW s \in Sessions, Handler(s) PROVE IInv'
    BY <1>1, HandlerKeepsSessions, HandlerSlot, SlotStep DEF IInv
<1>2. ASSUME NEW s \in Sessions, Tasks(s) PROVE IInv'
  <2>1. TypeOK' /\ SessionsOK'
      BY <1>2, TasksKeepsSessions DEF IInv
  <2>2. SlotAccounting' /\ SlotLimit'
      BY <1>2, OthersKeepSlots DEF IInv, SlotAccounting, SlotLimit, SlotHolders, HoldsSlot
  <2> QED
      BY <2>1, <2>2 DEF IInv
<1>3. ASSUME NEW s \in Sessions, World(s) PROVE IInv'
  <2>1. TypeOK' /\ SessionsOK'
      BY <1>3, WorldKeepsSessions DEF IInv
  <2>2. SlotAccounting' /\ SlotLimit'
      BY <1>3, OthersKeepSlots DEF IInv, SlotAccounting, SlotLimit, SlotHolders, HoldsSlot
  <2> QED
      BY <2>1, <2>2 DEF IInv
<1>4. CASE UNCHANGED vars
    BY <1>4 DEF IInv, vars, TypeOK, SessionsOK, SessionOK, LiveShell, SlotAccounting, SlotLimit,
         SlotHolders, HoldsSlot
<1> QED
    BY <1>1, <1>2, <1>3, <1>4 DEF Next

\* The strengthened invariant holds in every reachable state.
THEOREM PtyInvariant == Spec => []IInv
BY InitIInv, NextIInv, PTL DEF Spec

\* Every variable keeps its type.
THEOREM PtyTypes == Spec => []TypeOK
<1>1. IInv => TypeOK
    BY DEF IInv
<1> QED
    BY <1>1, PtyInvariant, PTL

\* _active_ptys always equals the number of handlers that hold a slot, so the
\* clamp at zero never hides a lost or doubled decrement.
THEOREM PtySlotAccounting == Spec => []SlotAccounting
<1>1. IInv => SlotAccounting
    BY DEF IInv
<1> QED
    BY <1>1, PtyInvariant, PTL

\* At most MAX_PTYS handlers hold a slot, whatever the number of clients.
THEOREM PtySlotLimit == Spec => []SlotLimit
<1>1. IInv => SlotLimit
    BY DEF IInv
<1> QED
    BY <1>1, PtyInvariant, PTL

\* A handler that has returned has reaped its shell, closed its descriptor and
\* ended its tasks.
THEOREM PtyNothingOutlivesHandler == Spec => []NothingOutlivesHandler
<1>1. IInv => NothingOutlivesHandler
    BY DEF IInv, SessionsOK, SessionOK, NothingOutlivesHandler
<1> QED
    BY <1>1, PtyInvariant, PTL

\* The exit frame follows the death of the shell and all output, but for what
\* the end of the grace period cut off.
THEOREM PtyExitFollowsOutput == Spec => []ExitFollowsOutput
<1>1. IInv => ExitFollowsOutput
    BY DEF IInv, SessionsOK, SessionOK, ExitFollowsOutput, SlaveHeld
<1> QED
    BY <1>1, PtyInvariant, PTL
=============================================================================
