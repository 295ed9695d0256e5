----------------------------- MODULE SystemMonitor -----------------------------
(***************************************************************************)
(* SystemService of services/system_service.py: snapshots of the host for  *)
(* every phone that watches, each taken by a worker thread of its own      *)
(* under one lock, with rates against the last sample anybody took and a   *)
(* list of GPUs that is asked for once in a while.                         *)
(*                                                                         *)
(* One byte counter stands for the four, which are read, compared and kept *)
(* alike.                                                                  *)
(***************************************************************************)
EXTENDS Integers, FiniteSets

CONSTANTS
    Clients,    \* phones, on /system/ws or asking for one snapshot
    GpuTtl,     \* the age of a GPU list that is asked for anew: 10 s
    MaxTime,    \* bound: the clock
    MaxBytes,   \* bound: bytes that flow
    MaxFaults   \* bound: readings that fail and counters that start over

NoTime == MaxTime + 1
Nobody == "nobody"

ASSUME MonitorAssumption ==
    /\ Nobody \notin Clients
    /\ MaxTime \in Nat /\ GpuTtl \in 1 .. MaxTime
    /\ MaxBytes \in Nat /\ MaxFaults \in Nat

VARIABLES
    now,      \* time.monotonic(), from the boot of the host
    counter,  \* the host's counter
    flowed,   \* bytes that really flowed
    faults,
    last,     \* _last_sample_time and its counter
    gpu,      \* _gpu_cache: when it was stamped, and when its list was measured
    asked,    \* the snapshot times nvidia-smi was started for
    lock,
    pc,       \* where each client's handler is
    snap,     \* the snapshot it makes: its time, the counter, the GPU list
    left,     \* clients that hung up
    tiled     \* spans and bytes of all rates so far, and where the first began

hostVars == <<now, counter, flowed, faults>>
vars == <<hostVars, last, gpu, asked, lock, pc, snap, left, tiled>>

InThread == {"waiting", "timed", "read", "sampled", "measuring"}
Snap == [t : 0 .. NoTime, read : 0 .. MaxBytes, gpus : 0 .. NoTime]
NoSnap == [t |-> NoTime, read |-> 0, gpus |-> NoTime]

\* The backend starts just after the boot of its host, or later.
Init ==
    /\ now \in {0, GpuTtl} /\ counter = 0 /\ flowed = 0 /\ faults = 0
    /\ last = [t |-> NoTime, read |-> 0]
    /\ gpu = [at |-> 0, measured |-> NoTime] /\ asked = {}
    /\ lock = Nobody /\ left = {}
    /\ pc = [c \in Clients |-> "new"] /\ snap = [c \in Clients |-> NoSnap]
    /\ tiled = [from |-> NoTime, span |-> 0, base |-> 0, bytes |-> 0]

Go(c, where) == pc' = [pc EXCEPT ![c] = where]

-----------------------------------------------------------------------------
Tick ==
    /\ now < MaxTime /\ now' = now + 1
    /\ UNCHANGED <<counter, flowed, faults, last, gpu, asked, lock, pc, snap, left, tiled>>
Flow ==
    /\ flowed < MaxBytes /\ counter' = counter + 1 /\ flowed' = flowed + 1
    /\ UNCHANGED <<now, faults, last, gpu, asked, lock, pc, snap, left, tiled>>
\* An interface comes back, and counts from 0.
StartsOver ==
    /\ faults < MaxFaults /\ counter' = 0 /\ faults' = faults + 1
    /\ UNCHANGED <<now, flowed, last, gpu, asked, lock, pc, snap, left, tiled>>
HangUp(c) ==
    /\ left' = left \cup {c}
    /\ UNCHANGED <<hostVars, last, gpu, asked, lock, pc, snap, tiled>>

-----------------------------------------------------------------------------
\* snapshot: a request, or the loop of a stream, starts a thread.
Ask(c) ==
    /\ pc[c] \in {"new", "asleep"} /\ Go(c, "waiting")
    /\ UNCHANGED <<hostVars, last, gpu, asked, lock, snap, left, tiled>>

\* Variant: no lock.
AcquireAnyway(c) ==
    /\ pc[c] = "waiting" /\ lock' = c /\ Go(c, "timed")
    /\ snap' = [snap EXCEPT ![c] = [NoSnap EXCEPT !.t = now]]
    /\ UNCHANGED <<hostVars, last, gpu, asked, left, tiled>>

Acquire(c) ==
    /\ pc[c] = "waiting" /\ lock = Nobody
    /\ lock' = c /\ Go(c, "timed")
    /\ snap' = [snap EXCEPT ![c] = [NoSnap EXCEPT !.t = now]]
    /\ UNCHANGED <<hostVars, last, gpu, asked, left, tiled>>

\* A counter that cannot be read is 0.
ReadCounters(c) ==
    /\ pc[c] = "timed" /\ Go(c, "read")
    /\ \/ snap' = [snap EXCEPT ![c].read = counter] /\ UNCHANGED faults
       \/ /\ faults < MaxFaults /\ faults' = faults + 1
          /\ snap' = [snap EXCEPT ![c].read = 0]
    /\ UNCHANGED <<now, counter, flowed, last, gpu, asked, lock, left, tiled>>

Minus(a, b) == IF a > b THEN a - b ELSE 0
\* The rates, and the sample kept for whoever is next.
Sample(c) ==
    LET s == snap[c]
        first == last.t = NoTime
        span  == IF first THEN 0 ELSE Minus(s.t, last.t)
        bytes == IF first THEN 0 ELSE Minus(s.read, last.read)
    IN /\ pc[c] = "read" /\ Go(c, "sampled")
       /\ snap' = [snap EXCEPT ![c].read = 0]
       /\ last' = [t |-> s.t, read |-> s.read]
       /\ tiled' = IF first THEN [tiled EXCEPT !.from = s.t, !.base = s.read]
                   ELSE [tiled EXCEPT !.span = @ + span, !.bytes = @ + bytes]
       /\ UNCHANGED <<hostVars, gpu, asked, lock, left>>

\* _gpus: what is known, or nvidia-smi, for two seconds at most.
GpuCached(c) ==
    /\ pc[c] = "sampled" /\ snap[c].t - gpu.at < GpuTtl
    /\ snap' = [snap EXCEPT ![c].gpus = gpu.measured]
    /\ lock' = Nobody /\ Go(c, "sending")
    /\ UNCHANGED <<hostVars, last, gpu, asked, left, tiled>>
GpuAsked(c) ==
    /\ pc[c] = "sampled" /\ snap[c].t - gpu.at >= GpuTtl
    /\ asked' = asked \cup {snap[c].t} /\ Go(c, "measuring")
    /\ UNCHANGED <<hostVars, last, gpu, lock, snap, left, tiled>>
\* Variant: what failed is not cached.
GpuKnown(c) ==
    /\ pc[c] = "measuring"
    /\ \E m \in {now, NoTime} :
          /\ gpu' = IF m = NoTime THEN gpu ELSE [at |-> snap[c].t, measured |-> m]
          /\ snap' = [snap EXCEPT ![c].gpus = m]
    /\ lock' = Nobody /\ Go(c, "sending")
    /\ UNCHANGED <<hostVars, last, asked, left, tiled>>

\* Its list, or none when it failed, is kept with the time of the snapshot.
GpuAnswers(c) ==
    /\ pc[c] = "measuring"
    /\ \E m \in {now, NoTime} :
          /\ gpu' = [at |-> snap[c].t, measured |-> m]
          /\ snap' = [snap EXCEPT ![c].gpus = m]
    /\ lock' = Nobody /\ Go(c, "sending")
    /\ UNCHANGED <<hostVars, last, asked, left, tiled>>

\* Variant: the lock is not released by an exception.
RaisesLocked(c) ==
    /\ pc[c] = "sampled" /\ Go(c, "over")
    /\ UNCHANGED <<hostVars, last, gpu, asked, lock, snap, left, tiled>>

\* One of the readings behind the sample raises: with the lock goes the client.
Raises(c) ==
    /\ pc[c] = "sampled" /\ lock' = Nobody /\ Go(c, "over")
    /\ snap' = [snap EXCEPT ![c] = NoSnap]
    /\ UNCHANGED <<hostVars, last, gpu, asked, left, tiled>>

\* The answer, or send_json, where a stream hears of its client's end.
Send(c) ==
    /\ pc[c] = "sending"
    /\ \/ Go(c, "over")
       \/ c \notin left /\ Go(c, "asleep")
    /\ snap' = [snap EXCEPT ![c] = NoSnap]
    /\ UNCHANGED <<hostVars, last, gpu, asked, lock, left, tiled>>

Thread(c) ==
    \/ ReadCounters(c) \/ Sample(c) \/ GpuCached(c) \/ GpuAsked(c) \/ GpuAnswers(c) \/ Raises(c)
Next ==
    \/ Tick \/ Flow \/ StartsOver
    \/ \E c \in Clients : HangUp(c) \/ Ask(c) \/ Acquire(c) \/ Thread(c) \/ Send(c)

\* Threads run, the sleep between two snapshots ends, and in it the lock is
\* free again and again for a thread that waits.
Fairness == \A c \in Clients :
    /\ WF_vars(pc[c] = "asleep" /\ Ask(c)) /\ WF_vars(Send(c)) /\ WF_vars(Thread(c))
    /\ SF_vars(Acquire(c))
Spec == Init /\ [][Next]_vars /\ Fairness

-----------------------------------------------------------------------------
TypeOK ==
    /\ now \in 0 .. MaxTime /\ counter \in 0 .. MaxBytes /\ flowed \in 0 .. MaxBytes
    /\ faults \in 0 .. MaxFaults
    /\ last \in [t : 0 .. NoTime, read : 0 .. MaxBytes]
    /\ gpu \in [at : 0 .. MaxTime, measured : 0 .. NoTime]
    /\ asked \subseteq 0 .. MaxTime /\ lock \in Clients \cup {Nobody}
    /\ pc \in [Clients -> InThread \cup {"new", "sending", "asleep", "over"}]
    /\ tiled \in [from : 0 .. NoTime, span : Nat, base : 0 .. MaxBytes, bytes : Nat]
    /\ snap \in [Clients -> Snap] /\ left \subseteq Clients

\* The phones share one row of samples: all their spans together are the time
\* from the first sample to the last, and a byte is in one rate only, unless a
\* reading failed or a counter started over (_snapshot).
SamplesTile == tiled.from # NoTime =>
    /\ tiled.span = last.t - tiled.from
    /\ faults = 0 => tiled.bytes = last.read - tiled.base

\* A list of GPUs is younger than its time to live when the snapshot begins
\* (_gpus).
GpuFresh == \A c \in Clients : pc[c] = "sending" /\ snap[c].gpus # NoTime =>
    snap[c].t < snap[c].gpus + GpuTtl

\* However many phones watch, nvidia-smi is started no more than once in that
\* time, also when it is missing or fails (_gpus).
GpuRarely == \A s, t \in asked : s < t => t - s >= GpuTtl

\* The list of GPUs is fresh and cheap.
GpuSpared == GpuFresh /\ GpuRarely

\* The handler of a phone that hung up ends, whoever else holds the lock, and
\* whatever raises (handle_websocket).
LeaverForgotten == \A c \in Clients : c \in left /\ pc[c] # "new" ~> pc[c] = "over"
=============================================================================
