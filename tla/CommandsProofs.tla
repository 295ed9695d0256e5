--------------------------- MODULE CommandsProofs ---------------------------
(***************************************************************************)
(* Safety of a command, whatever the limits, the size of a pipe and the    *)
(* callers in use.                                                         *)
(***************************************************************************)
EXTENDS Commands, TLAPS

Total == buf["stdout"] + buf["stderr"]

\* Until the limit is crossed every chunk written is kept or still unread, and
\* a pump that ended found its pipe empty and closed for good.
OutputInv ==
    /\ Total <= MaxBytes
    /\ truncated => Total = MaxBytes
    /\ ~truncated => \A s \in Pipes : buf[s] + unread[s] = written[s]
    /\ \A s \in Pipes :
          /\ pump[s] \in {"callback", "draining", "raised"} => truncated
          /\ pump[s] = "done" => unread[s] = 0 /\ ~Held(s)
    /\ pc \in {"wait", "ok"} => \A s \in Pipes : pump[s] = "done"

\* Who is still able to send a signal, and what an end of the caller rests on.
SignalInv ==
    /\ \A s \in Pipes :
          /\ term[s] \in {"term", "kill"} => pump[s] = "callback"
          /\ pump[s] = "raised" => shell = "reaped" /\ ~KillsGroup
    /\ \A w \in Pipes \cup {"caller"} : term[w] # "none" => KillsGroup
    /\ pc \in {"gather", "wait", "ok"} => term["caller"] = "none"
    /\ pc = "late" \/ term["caller"] \in {"none", "over"}
    /\ term["caller"] = "over" /\ pc # "left" => shell = "reaped"
    /\ pc \in {"late", "timed out", "left"} =>
          \A s \in Pipes : pump[s] \in {"done", "cancelled"}
    /\ pc \in {"wait", "ok"} => \A s \in Pipes : pump[s] = "done"
    /\ pc = "raised" => ~KillsGroup
    /\ pc \in {"ok", "timed out", "raised"} => shell = "reaped"

IInv == TypeOK /\ OutputInv /\ SignalInv

-----------------------------------------------------------------------------
(* What a kill does to the processes: it opens nothing.                    *)
LEMMA Kills ==
    ASSUME TypeOK, KillShell \/ KillGroup, caller' = caller
    PROVE  /\ shell' \in {"running", "zombie", "reaped"} /\ job' \in {"none", "running", "over"}
           /\ UNCHANGED <<inGroup, holds>>
           /\ shell = "reaped" => shell' = "reaped"
           /\ \A s \in Pipes : ~Held(s) => ~Held(s)'
    BY DEF TypeOK, KillShell, KillGroup, Held

LEMMA InitHolds == Init => IInv
<1> SUFFICES ASSUME Init PROVE IInv
    OBVIOUS
<1>0. caller \in AllCallers /\ MaxBytes \in Nat /\ MaxOutput \in Nat /\ PipeSize \in Nat
    BY CommandsAssumption DEF Init
<1>1. TypeOK
  <2>1. inGroup \in BOOLEAN /\ truncated \in BOOLEAN
      BY DEF Init
  <2> QED
      BY <1>0, <2>1 DEF Init, TypeOK, Pipes
<1>2. OutputInv
    BY <1>0 DEF Init, OutputInv, Pipes, Held, Total
<1>3. SignalInv
    BY <1>0 DEF Init, SignalInv, Pipes, KillsGroup
<1> QED
    BY <1>1, <1>2, <1>3 DEF IInv

-----------------------------------------------------------------------------
(* Types.                                                                  *)
LEMMA NextTypes == ASSUME TypeOK, OutputInv, [Next]_vars PROVE TypeOK'
<1>0. MaxBytes \in Nat /\ MaxOutput \in Nat /\ PipeSize \in Nat
    BY CommandsAssumption
<1>1. ASSUME NEW s \in Pipes, Write(s) PROVE TypeOK'
  <2>1. unread[s] + 1 \in 0 .. PipeSize /\ written[s] + 1 \in 0 .. MaxOutput
      BY <1>0, <1>1 DEF TypeOK, Write
  <2> QED
      BY <1>1, <2>1 DEF TypeOK, Write, procVars, Ended
<1>2. CASE StartJob
  <2>1. inGroup' \in BOOLEAN /\ holds' \subseteq Pipes
      BY <1>2 DEF StartJob
  <2> QED
      BY <1>2, <2>1 DEF TypeOK, StartJob, ioVars, Ended
<1>3. CASE ShellExits \/ JobExits \/ Reap
    BY <1>3 DEF TypeOK, ShellExits, JobExits, Reap, ioVars, Ended
<1>4. CASE Leave
    BY <1>4 DEF TypeOK, Leave, CancelPumps, procVars, ioVars, Ended
<1>5. CASE Gathered \/ GatherRaises \/ Waited \/ TimedOut
    BY <1>5 DEF TypeOK, Gathered, GatherRaises, Waited, TimedOut, procVars, ioVars, Ended
<1>6. CASE Timeout
  <2>1. /\ shell' \in {"running", "zombie", "reaped"} /\ job' \in {"none", "running", "over"}
        /\ UNCHANGED <<caller, inGroup, holds>>
      BY <1>6, Kills DEF Timeout, procVars, TypeOK
  <2>2. term' \in [Pipes \cup {"caller"} -> {"none", "term", "kill", "over"}]
      BY <1>6 DEF Timeout, TypeOK
  <2>3. pump' \in [Pipes -> {"reading", "callback", "draining", "done", "raised", "cancelled"}]
        /\ pc' \in {"late", "raised"}
      BY <1>6 DEF Timeout, CancelPumps
  <2> QED
      BY <1>6, <2>1, <2>2, <2>3 DEF TypeOK, Timeout, ioVars, Ended
<1>7. ASSUME NEW w \in Pipes \cup {"caller"}, TermDone(w) \/ TermTimeout(w) PROVE TypeOK'
  <2>1. CASE TermDone(w)
      BY <2>1 DEF TypeOK, TermDone, procVars, ioVars, Ended
  <2>2. CASE TermTimeout(w)
    <3>1. /\ shell' \in {"running", "zombie", "reaped"} /\ job' \in {"none", "running", "over"}
          /\ UNCHANGED <<caller, inGroup, holds>>
        BY <2>2, Kills DEF TermTimeout
    <3> QED
        BY <2>2, <3>1 DEF TypeOK, TermTimeout, ioVars, Ended
  <2> QED
      BY <1>7, <2>1, <2>2
<1>8. ASSUME NEW s \in Pipes, CallbackOver(s) \/ Drain(s) \/ Eof(s) PROVE TypeOK'
  <2>1. CASE CallbackOver(s) \/ Eof(s)
      BY <2>1 DEF TypeOK, CallbackOver, Eof, procVars, ioVars, Ended
  <2>2. CASE Drain(s)
    <3>1. unread' \in [Pipes -> 0 .. PipeSize]
        BY <1>0, <2>2 DEF TypeOK, Drain
    <3> QED
        BY <2>2, <3>1 DEF TypeOK, Drain, procVars, Ended
  <2> QED
      BY <1>8, <2>1, <2>2
<1>9. ASSUME NEW s \in Pipes, NEW k \in 1 .. PipeSize, ReadFits(s, k) PROVE TypeOK'
  <2>1. unread[s] - k \in 0 .. PipeSize /\ buf[s] + k \in Nat
      BY <1>0, <1>9 DEF TypeOK, ReadFits
  <2> QED
      BY <1>9, <2>1 DEF TypeOK, ReadFits, procVars, Ended
<1>10. ASSUME NEW s \in Pipes, NEW k \in 1 .. PipeSize, ReadOver(s, k) PROVE TypeOK'
  <2>1. Space \in Nat
      BY <1>0 DEF Space, TypeOK, OutputInv, Total, Pipes
  <2>2. /\ shell' \in {"running", "zombie", "reaped"} /\ job' \in {"none", "running", "over"}
        /\ UNCHANGED <<caller, inGroup, holds>>
      BY <1>10, Kills DEF ReadOver, procVars, TypeOK
  <2>3. unread' \in [Pipes -> 0 .. PipeSize] /\ buf' \in [Pipes -> Nat] /\ truncated' \in BOOLEAN
      BY <1>0, <1>10, <2>1 DEF ReadOver, TypeOK
  <2>4. /\ pump' \in [Pipes -> {"reading", "callback", "draining", "done", "raised", "cancelled"}]
        /\ term' \in [Pipes \cup {"caller"} -> {"none", "term", "kill", "over"}]
      BY <1>10 DEF ReadOver, TypeOK, Terminate
  <2> QED
      BY <1>10, <2>2, <2>3, <2>4 DEF TypeOK, ReadOver, Ended
<1>11. CASE UNCHANGED vars
    BY <1>11 DEF TypeOK, vars, procVars, ioVars, Ended
<1> QED
    BY <1>1, <1>2, <1>3, <1>4, <1>5, <1>6, <1>7, <1>8, <1>9, <1>10, <1>11
       DEF Next, Environment, Loop

-----------------------------------------------------------------------------
(* Output.                                                                 *)

\* Nothing that is closed is opened again.
LEMMA ClosedStaysClosed ==
    ASSUME TypeOK, [Next]_vars, NEW p \in Pipes, ~Held(p)
    PROVE  ~Held(p)'
<1>1. ASSUME NEW s \in Pipes, Write(s) PROVE ~Held(p)'
    BY <1>1 DEF Write, procVars, Held
<1>2. CASE StartJob
    BY <1>2 DEF StartJob, Held
<1>3. CASE ShellExits \/ JobExits \/ Reap
    BY <1>3 DEF ShellExits, JobExits, Reap, Held
<1>4. CASE Leave \/ Gathered \/ GatherRaises \/ Waited \/ TimedOut
    BY <1>4 DEF Leave, Gathered, GatherRaises, Waited, TimedOut, procVars, Held
<1>5. CASE Timeout
  <2>1. CASE KillShell
      BY <1>5, <2>1, Kills DEF Timeout
  <2>2. CASE UNCHANGED procVars
      BY <1>5, <2>2 DEF Timeout, procVars, Held
  <2> QED
      BY <1>5, <2>1, <2>2 DEF Timeout
<1>6. ASSUME NEW w \in Pipes \cup {"caller"}, TermDone(w) \/ TermTimeout(w) PROVE ~Held(p)'
  <2>1. CASE TermDone(w)
      BY <2>1 DEF TermDone, procVars, Held
  <2>2. CASE TermTimeout(w)
      BY <2>2, Kills DEF TermTimeout
  <2> QED
      BY <1>6, <2>1, <2>2
<1>7. ASSUME NEW s \in Pipes, CallbackOver(s) \/ Drain(s) \/ Eof(s) PROVE ~Held(p)'
    BY <1>7 DEF CallbackOver, Drain, Eof, procVars, Held
<1>8. ASSUME NEW s \in Pipes, NEW k \in 1 .. PipeSize, ReadFits(s, k) PROVE ~Held(p)'
    BY <1>8 DEF ReadFits, procVars, Held
<1>9. ASSUME NEW s \in Pipes, NEW k \in 1 .. PipeSize, ReadOver(s, k) PROVE ~Held(p)'
  <2>1. CASE KillShell
      BY <1>9, <2>1, Kills DEF ReadOver
  <2>2. CASE UNCHANGED procVars
      BY <1>9, <2>2 DEF ReadOver, procVars, Held
  <2> QED
      BY <1>9, <2>1, <2>2 DEF ReadOver
<1>10. CASE UNCHANGED vars
    BY <1>10 DEF vars, procVars, Held
<1> QED
    BY <1>1, <1>2, <1>3, <1>4, <1>5, <1>6, <1>7, <1>8, <1>9, <1>10 DEF Next, Environment, Loop

LEMMA NextOutput == ASSUME TypeOK, OutputInv, [Next]_vars PROVE OutputInv'
<1>0. MaxBytes \in Nat /\ MaxOutput \in Nat /\ PipeSize \in Nat
    BY CommandsAssumption
<1>h. \A p \in Pipes : ~Held(p) => ~Held(p)'
    BY ClosedStaysClosed
\* A step that keeps the chunks, the flag and the pumps keeps it all.
<1>q. ASSUME UNCHANGED <<ioVars, pump>>,
             pc' \in {"wait", "ok"} => pc \in {"wait", "ok"} \/ \A s \in Pipes : pump[s] = "done"
      PROVE  OutputInv'
    BY <1>h, <1>q DEF OutputInv, Total, ioVars, Pipes
<1>1. ASSUME NEW s \in Pipes, Write(s) PROVE OutputInv'
  <2>1. Total' = Total
      BY <1>1 DEF Write, Total
  <2>2. ~truncated => \A p \in Pipes : (buf[p] + unread[p] = written[p])'
      BY <1>1 DEF Write, OutputInv, TypeOK
  <2>3. \A p \in Pipes : (pump[p] = "done" => unread[p] = 0)'
      BY <1>1 DEF Write, OutputInv, TypeOK
  <2> QED
      BY <1>1, <1>h, <2>1, <2>2, <2>3 DEF Write, OutputInv
<1>2. CASE StartJob \/ ShellExits \/ JobExits \/ Reap
    BY <1>2, <1>q DEF StartJob, ShellExits, JobExits, Reap
<1>3. CASE Gathered \/ GatherRaises \/ Waited \/ TimedOut
    BY <1>3, <1>q DEF Gathered, GatherRaises, Waited, TimedOut
<1>4. CASE Leave \/ Timeout
  <2>1. pc' \notin {"wait", "ok"} /\ UNCHANGED ioVars /\ CancelPumps
      BY <1>4 DEF Leave, Timeout
  <2>2. \A p \in Pipes : /\ pump'[p] \notin {"callback", "draining", "raised"}
                         /\ pump'[p] = "done" => pump[p] = "done"
      BY <2>1 DEF CancelPumps
  <2> QED
      BY <1>h, <2>1, <2>2 DEF OutputInv, Total, ioVars
<1>5. ASSUME NEW w \in Pipes \cup {"caller"}, TermDone(w) \/ TermTimeout(w) PROVE OutputInv'
    BY <1>5, <1>q DEF TermDone, TermTimeout
<1>6. ASSUME NEW s \in Pipes, CallbackOver(s) PROVE OutputInv'
    BY <1>6, <1>h DEF CallbackOver, OutputInv, Total, ioVars, TypeOK
<1>7. ASSUME NEW s \in Pipes, Drain(s) PROVE OutputInv'
    BY <1>7, <1>h, <1>0 DEF Drain, OutputInv, Total, TypeOK
<1>8. ASSUME NEW s \in Pipes, Eof(s) PROVE OutputInv'
    BY <1>8, <1>h DEF Eof, OutputInv, Total, ioVars, TypeOK
<1>9. ASSUME NEW s \in Pipes, NEW k \in 1 .. PipeSize, ReadFits(s, k) PROVE OutputInv'
  <2>1. ~truncated /\ Total' = Total + k /\ Total + k <= MaxBytes
      BY <1>0, <1>9 DEF ReadFits, OutputInv, Total, TypeOK, Pipes, Space
  <2>2. \A p \in Pipes : (buf[p] + unread[p] = written[p])'
      BY <1>9, <2>1 DEF ReadFits, OutputInv, TypeOK
  <2>3. \A p \in Pipes : (pump[p] = "done" => unread[p] = 0)'
      BY <1>9 DEF ReadFits, OutputInv, TypeOK
  <2> QED
      BY <1>9, <1>h, <2>1, <2>2, <2>3 DEF ReadFits, OutputInv
<1>10. ASSUME NEW s \in Pipes, NEW k \in 1 .. PipeSize, ReadOver(s, k) PROVE OutputInv'
  <2>1. Total' = MaxBytes /\ truncated'
      BY <1>0, <1>10 DEF ReadOver, OutputInv, Total, TypeOK, Pipes, Space
  <2>2. \A p \in Pipes : pump'[p] = "done" => pump[p] = "done" /\ p # s
      BY <1>10 DEF ReadOver, TypeOK
  <2>3. \A p \in Pipes : pump'[p] = "done" => unread'[p] = 0
      BY <1>10, <2>2 DEF ReadOver, OutputInv, TypeOK
  <2>4. pc \notin {"wait", "ok"} /\ pc' = pc
      BY <1>10 DEF ReadOver, OutputInv
  <2> QED
      BY <1>0, <1>h, <2>1, <2>2, <2>3, <2>4 DEF OutputInv
<1>11. CASE UNCHANGED vars
    BY <1>11, <1>q DEF vars
<1> QED
    BY <1>1, <1>2, <1>3, <1>4, <1>5, <1>6, <1>7, <1>8, <1>9, <1>10, <1>11
       DEF Next, Environment, Loop

-----------------------------------------------------------------------------
(* Signals and answers.                                                    *)
LEMMA NextSignal == ASSUME IInv, [Next]_vars PROVE SignalInv'
<1> USE DEF IInv
<1>1. ASSUME NEW s \in Pipes, Write(s) PROVE SignalInv'
    BY <1>1 DEF Write, procVars, SignalInv, KillsGroup
<1>2. CASE StartJob \/ ShellExits \/ JobExits \/ Reap
    BY <1>2 DEF StartJob, ShellExits, JobExits, Reap, SignalInv, KillsGroup
<1>3. CASE Gathered \/ Waited
    BY <1>3 DEF Gathered, Waited, procVars, SignalInv, KillsGroup
<1>4. CASE GatherRaises
    BY <1>4 DEF GatherRaises, procVars, SignalInv, KillsGroup
<1>5. CASE TimedOut
    BY <1>5 DEF TimedOut, procVars, SignalInv, KillsGroup
<1>6. CASE Leave
    BY <1>6 DEF Leave, CancelPumps, procVars, SignalInv, KillsGroup, TypeOK
<1>7. CASE Timeout
  <2>1. UNCHANGED caller /\ pc \in {"gather", "wait"} /\ pc' \in {"late", "raised"}
      BY <1>7 DEF Timeout
  <2>2. \A s \in Pipes : pump'[s] \in {"done", "cancelled"}
      BY <1>7 DEF Timeout, CancelPumps
  <2>3. \A s \in Pipes : term'[s] \in {"none", "over"} /\ (term'[s] # "none" => term[s] # "none")
      BY <1>7 DEF Timeout, TypeOK, Pipes
  <2>4. CASE KillsGroup
      BY <1>7, <2>1, <2>2, <2>3, <2>4 DEF Timeout, TypeOK, SignalInv, KillsGroup, procVars
  <2>5. CASE ~KillsGroup
    <3>1. term'["caller"] = "none" /\ (pc' = "raised" => shell' = "reaped")
        BY <1>7, <2>1, <2>5 DEF Timeout, TypeOK, SignalInv, Forgotten, procVars
    <3> QED
        BY <2>1, <2>2, <2>3, <2>5, <3>1 DEF SignalInv, KillsGroup
  <2> QED
      BY <2>4, <2>5
<1>8. ASSUME NEW w \in Pipes \cup {"caller"}, TermDone(w) PROVE SignalInv'
    BY <1>8 DEF TermDone, procVars, SignalInv, KillsGroup, TypeOK
<1>9. ASSUME NEW w \in Pipes \cup {"caller"}, TermTimeout(w) PROVE SignalInv'
  <2>1. shell = "reaped" => shell' = "reaped"
      BY <1>9, Kills DEF TermTimeout
  <2> QED
      BY <1>9, <2>1 DEF TermTimeout, SignalInv, KillsGroup, TypeOK
<1>10. ASSUME NEW s \in Pipes, CallbackOver(s) \/ Drain(s) \/ Eof(s) PROVE SignalInv'
    BY <1>10 DEF CallbackOver, Drain, Eof, procVars, ioVars, SignalInv, KillsGroup, TypeOK
<1>11. ASSUME NEW s \in Pipes, NEW k \in 1 .. PipeSize, ReadFits(s, k) PROVE SignalInv'
    BY <1>11 DEF ReadFits, procVars, SignalInv, KillsGroup
<1>12. ASSUME NEW s \in Pipes, NEW k \in 1 .. PipeSize, ReadOver(s, k) PROVE SignalInv'
  <2>1. /\ pump[s] = "reading" /\ pc \in {"gather", "raised"} /\ UNCHANGED <<caller, pc>>
        /\ pc = "raised" => ~KillsGroup
      BY <1>12 DEF ReadOver, SignalInv, TypeOK, Ended
  <2>2. CASE KillsGroup
    <3>1. UNCHANGED procVars /\ Terminate(s) /\ pump' = [pump EXCEPT ![s] = "callback"]
        BY <1>12, <2>2 DEF ReadOver, KillsGroup
    <3> QED
        BY <2>1, <2>2, <3>1 DEF Terminate, SignalInv, KillsGroup, TypeOK, procVars, Pipes
  <2>3. CASE ~KillsGroup
    <3>1. /\ UNCHANGED term /\ (shell = "reaped" => shell' = "reaped")
          /\ \/ pump' = [pump EXCEPT ![s] = "draining"]
             \/ pump' = [pump EXCEPT ![s] = "raised"] /\ shell' = "reaped"
        BY <1>12, <2>3, Kills DEF ReadOver, procVars, Forgotten
    <3> QED
        BY <2>1, <2>3, <3>1 DEF SignalInv, KillsGroup, TypeOK
  <2> QED
      BY <2>2, <2>3
<1>13. CASE UNCHANGED vars
    BY <1>13 DEF vars, procVars, SignalInv, KillsGroup
<1> QED
    BY <1>1, <1>2, <1>3, <1>4, <1>5, <1>6, <1>7, <1>8, <1>9, <1>10, <1>11, <1>12, <1>13
       DEF Next, Environment, Loop

-----------------------------------------------------------------------------
(* Theorems.                                                               *)

\* The inductive invariant: where each chunk went, who may still signal, and
\* what each way to answer rests on (communicate_with_cap and its callers).
THEOREM CommandsInvariant == Spec => []IInv
<1>1. IInv /\ [Next]_vars => IInv'
    BY NextTypes, NextOutput, NextSignal DEF IInv
<1> QED
    BY InitHolds, <1>1, PTL DEF Spec

\* Every variable keeps its type, for any limits and any set of callers.
THEOREM CommandsTypes == Spec => []TypeOK
    BY CommandsInvariant, PTL DEF IInv

\* The two pumps keep no more than the limit together; a result that is not
\* said to be cut has every chunk that was written, but for that of a search
\* which fills the limit (communicate_with_cap and its callers).
THEOREM CommandsOutput == Spec => []OutputIsTrue
<1>1. IInv => OutputIsTrue
    BY DEF IInv, OutputInv, OutputIsTrue, WithinCap, CompleteOrTold, Told, Total, TypeOK
<1> QED
    BY CommandsInvariant, <1>1, PTL

\* Whoever is answered has the command's process reaped, and no signal is sent
\* after the answer (run_command, execute_tool, _run_git_cmd).
THEOREM CommandsAnswer == Spec => []AnswerIsFinal
<1>1. IInv => AnswerMeansReaped
    BY DEF IInv, SignalInv, AnswerMeansReaped, Ended
<1>2. IInv => NoLateSignal
  <2> SUFFICES ASSUME IInv, pc \in Ended, NEW w \in Pipes \cup {"caller"}
               PROVE  term[w] \in {"none", "over"}
      BY DEF NoLateSignal, IInv, TypeOK
  <2>1. CASE w = "caller"
      BY <2>1 DEF IInv, SignalInv, Ended
  <2>2. CASE w \in Pipes
      BY <2>2 DEF IInv, SignalInv, TypeOK, Ended
  <2> QED
      BY <2>1, <2>2
<1> QED
    BY CommandsInvariant, <1>1, <1>2, PTL DEF AnswerIsFinal
=============================================================================
