------------------------- MODULE SystemMonitorProofs -------------------------
(***************************************************************************)
(* Safety of the system monitor for any set of phones and any time to live *)
(* of the list of GPUs.                                                    *)
(***************************************************************************)
EXTENDS SystemMonitor, TLAPS

\* Where a thread holds the lock.
Owning == {"timed", "read", "sampled", "measuring"}

\* One thread at a time is between the clock and the end of its snapshot.
LockInv == \A c \in Clients : pc[c] \in Owning <=> lock = c

\* The owner's time is no earlier than the last sample and the last GPU list.
TimeInv ==
    /\ last.t # NoTime => last.t <= now
    /\ gpu.at <= now
    /\ \A c \in Clients :
          /\ pc[c] \in Owning => gpu.at <= snap[c].t /\ snap[c].t <= now
          /\ pc[c] \in {"timed", "read"} /\ last.t # NoTime => last.t <= snap[c].t

\* The spans so far; and, while nothing has failed, the bytes.
SpanInv ==
    /\ tiled.from = NoTime <=> last.t = NoTime
    /\ tiled.from = NoTime => tiled.span = 0 /\ tiled.bytes = 0
    /\ tiled.from # NoTime => tiled.from <= last.t /\ tiled.span = last.t - tiled.from
ByteInv ==
    /\ counter <= flowed
    /\ faults = 0 =>
          /\ last.read <= counter
          /\ \A c \in Clients : pc[c] = "read" => last.read <= snap[c].read /\ snap[c].read <= counter
          /\ tiled.from # NoTime => tiled.base <= last.read /\ tiled.bytes = last.read - tiled.base

\* nvidia-smi was started for lists that are known, or for the owner's.
GpuInv ==
    /\ gpu.measured # NoTime => gpu.at <= gpu.measured
    /\ \A t \in asked : t <= gpu.at \/ \E c \in Clients : pc[c] = "measuring" /\ snap[c].t = t
    /\ GpuFresh /\ GpuRarely

IInv == TypeOK /\ LockInv /\ TimeInv /\ SpanInv /\ ByteInv /\ GpuInv

LEMMA Bounds == /\ MaxTime \in Nat /\ GpuTtl \in 1 .. MaxTime
                /\ MaxBytes \in Nat /\ MaxFaults \in Nat
                /\ NoTime \in Nat /\ NoTime = MaxTime + 1 /\ Nobody \notin Clients
    BY MonitorAssumption DEF NoTime

\* The fields of the records, for the arithmetic.
LEMMA Fields ==
    ASSUME TypeOK
    PROVE  /\ last.t \in 0 .. NoTime /\ last.read \in 0 .. MaxBytes
           /\ gpu.at \in 0 .. MaxTime /\ gpu.measured \in 0 .. NoTime
           /\ tiled.from \in 0 .. NoTime /\ tiled.span \in Nat
           /\ tiled.base \in 0 .. MaxBytes /\ tiled.bytes \in Nat
           /\ \A c \in Clients : /\ snap[c].t \in 0 .. NoTime /\ snap[c].read \in 0 .. MaxBytes
                                 /\ snap[c].gpus \in 0 .. NoTime
           /\ \A t \in asked : t \in 0 .. MaxTime
    BY DEF TypeOK, Snap

\* A sample, the first one and the others.
LEMMA SampleGives ==
    ASSUME TypeOK, NEW c \in Clients, Sample(c)
    PROVE  /\ pc[c] = "read" /\ pc' = [pc EXCEPT ![c] = "sampled"]
           /\ snap' = [snap EXCEPT ![c].read = 0]
           /\ last' = [t |-> snap[c].t, read |-> snap[c].read]
           /\ last.t = NoTime =>
                 tiled' = [tiled EXCEPT !.from = snap[c].t, !.base = snap[c].read]
           /\ last.t # NoTime =>
                 tiled' = [tiled EXCEPT !.span = @ + Minus(snap[c].t, last.t),
                                        !.bytes = @ + Minus(snap[c].read, last.read)]
           /\ UNCHANGED <<now, counter, flowed, faults, gpu, asked, lock, left>>
    BY DEF Sample, Go, hostVars

LEMMA InitHolds == Init => IInv
<1> SUFFICES ASSUME Init PROVE IInv
    OBVIOUS
<1> USE Bounds
<1>2. TypeOK
  <2>1. now \in 0 .. MaxTime
      BY DEF Init
  <2>2. last \in [t : 0 .. NoTime, read : 0 .. MaxBytes] /\ gpu \in [at : 0 .. MaxTime, measured : 0 .. NoTime]
      BY DEF Init
  <2>3. snap \in [Clients -> Snap]
      BY DEF Init, Snap, NoSnap
  <2>4. tiled \in [from : 0 .. NoTime, span : Nat, base : 0 .. MaxBytes, bytes : Nat]
      BY DEF Init
  <2> QED
      BY <2>1, <2>2, <2>3, <2>4 DEF Init, TypeOK, InThread, Nobody
<1>3. LockInv /\ TimeInv /\ SpanInv
    BY DEF Init, LockInv, TimeInv, SpanInv, Owning, Nobody
<1>4. ByteInv /\ GpuInv
    BY DEF Init, ByteInv, GpuInv, GpuFresh, GpuRarely
<1> QED
    BY <1>2, <1>3, <1>4 DEF IInv

-----------------------------------------------------------------------------
(* Steps of the world.                                                     *)
LEMMA WorldKeeps ==
    ASSUME IInv, \/ Tick \/ Flow \/ StartsOver \/ UNCHANGED vars
                 \/ \E c \in Clients : HangUp(c)
    PROVE  IInv'
<1> USE Bounds DEF IInv
<1>0. UNCHANGED <<last, gpu, asked, lock, pc, snap, tiled>>
    BY DEF Tick, Flow, StartsOver, HangUp, vars
<1>1. now' \in Nat /\ now <= now'
    BY DEF Tick, Flow, StartsOver, HangUp, vars, hostVars, TypeOK
<1>2. TypeOK'
  <2>1. now' \in 0 .. MaxTime
      BY DEF Tick, Flow, StartsOver, HangUp, vars, hostVars, TypeOK
  <2>2. counter' \in 0 .. MaxBytes /\ flowed' \in 0 .. MaxBytes /\ counter' <= flowed'
      BY DEF Tick, Flow, StartsOver, HangUp, vars, hostVars, TypeOK, ByteInv
  <2>3. faults' \in 0 .. MaxFaults
      BY DEF Tick, Flow, StartsOver, HangUp, vars, hostVars, TypeOK
  <2>4. left' \subseteq Clients
      BY DEF Tick, Flow, StartsOver, HangUp, vars, TypeOK
  <2> QED
      BY <1>0, <2>1, <2>2, <2>3, <2>4 DEF TypeOK
<1>3. LockInv' /\ SpanInv'
    BY <1>0 DEF LockInv, SpanInv
<1>4. TimeInv'
    BY <1>0, <1>1, Fields DEF TimeInv, TypeOK
<1>5. ByteInv'
  <2>1. counter' <= flowed'
      BY DEF Tick, Flow, StartsOver, HangUp, vars, hostVars, TypeOK, ByteInv
  <2>2. faults' = 0 => faults = 0 /\ counter <= counter'
      BY DEF Tick, Flow, StartsOver, HangUp, vars, hostVars, TypeOK
  <2>3. counter' \in Nat
      BY <1>2 DEF TypeOK
  <2> QED
      BY <1>0, <2>1, <2>2, <2>3, Fields DEF ByteInv, TypeOK
<1>6. GpuInv'
    BY <1>0 DEF GpuInv, GpuFresh, GpuRarely
<1> QED
    BY <1>2, <1>3, <1>4, <1>5, <1>6

-----------------------------------------------------------------------------
(* Steps of a client.                                                      *)
LEMMA SampleTypes ==
    ASSUME IInv, NEW c \in Clients, Sample(c)
    PROVE  TypeOK'
<1>1. TypeOK
    BY DEF IInv
<1> DEFINE span == Minus(snap[c].t, last.t)
           bytes == Minus(snap[c].read, last.read)
<1>2. snap[c].t \in 0 .. NoTime /\ snap[c].read \in 0 .. MaxBytes /\ last.t \in 0 .. NoTime
      /\ last.read \in 0 .. MaxBytes
    BY <1>1, Fields
<1>3. span \in Nat /\ bytes \in Nat
    BY <1>2, Bounds DEF Minus
<1>4. last' \in [t : 0 .. NoTime, read : 0 .. MaxBytes]
  <2>1. last' = [t |-> snap[c].t, read |-> snap[c].read]
      BY <1>1, SampleGives
  <2> QED
      BY <1>2, <2>1
<1>5. snap' \in [Clients -> Snap]
  <2>1. snap \in [Clients -> Snap] /\ snap' = [snap EXCEPT ![c].read = 0]
      BY <1>1, SampleGives DEF TypeOK
  <2> QED
      BY <2>1, Bounds DEF Snap
<1>6. tiled' \in [from : 0 .. NoTime, span : Nat, base : 0 .. MaxBytes, bytes : Nat]
  <2>1. tiled \in [from : 0 .. NoTime, span : Nat, base : 0 .. MaxBytes, bytes : Nat]
      BY <1>1 DEF TypeOK
  <2>2. CASE last.t = NoTime
    <3>1. tiled' = [tiled EXCEPT !.from = snap[c].t, !.base = snap[c].read]
        BY <1>1, <2>2, SampleGives
    <3> QED
        BY <1>2, <2>1, <3>1
  <2>3. CASE last.t # NoTime
    <3>1. tiled' = [tiled EXCEPT !.span = @ + span, !.bytes = @ + bytes]
        BY <1>1, <2>3, SampleGives
    <3> HIDE DEF span, bytes
    <3>2. tiled.span + span \in Nat /\ tiled.bytes + bytes \in Nat
        BY <1>3, <2>1
    <3> QED
        BY <2>1, <3>1, <3>2, Zenon
  <2> QED
      BY <2>2, <2>3
<1>7. pc' \in [Clients -> InThread \cup {"new", "sending", "asleep", "over"}]
    BY <1>1, SampleGives DEF TypeOK, InThread
<1>8. UNCHANGED <<now, counter, flowed, faults, gpu, asked, lock, left>>
    BY <1>1, SampleGives
<1> QED
    BY <1>1, <1>4, <1>5, <1>6, <1>7, <1>8 DEF TypeOK

LEMMA ClientTypes ==
    ASSUME IInv, NEW c \in Clients, Ask(c) \/ Acquire(c) \/ Thread(c) \/ Send(c)
    PROVE  TypeOK'
<1> USE Bounds DEF IInv, TypeOK
<1>1. CASE Ask(c)
    BY <1>1 DEF Ask, Go, hostVars, InThread
<1>2. CASE Acquire(c)
    BY <1>2 DEF Acquire, Go, hostVars, InThread, Snap, NoSnap
<1>3. CASE ReadCounters(c)
    BY <1>3 DEF ReadCounters, Go, InThread, Snap
<1>4. CASE Sample(c)
    BY <1>4, SampleTypes
<1>5. CASE GpuCached(c)
    BY <1>5 DEF GpuCached, Go, hostVars, InThread, Snap
<1>6. CASE GpuAsked(c)
  <2>1. snap[c].t \in 0 .. MaxTime
      BY <1>6, Fields DEF GpuAsked, TimeInv, Owning
  <2> QED
      BY <1>6, <2>1 DEF GpuAsked, Go, hostVars, InThread
<1>7. CASE GpuAnswers(c)
    BY <1>7 DEF GpuAnswers, Go, hostVars, InThread, Snap, TimeInv, Owning
<1>8. CASE Raises(c)
    BY <1>8 DEF Raises, Go, hostVars, InThread, Snap, NoSnap
<1>9. CASE Send(c)
    BY <1>9 DEF Send, Go, hostVars, InThread, Snap, NoSnap
<1> QED
    BY <1>1, <1>2, <1>3, <1>4, <1>5, <1>6, <1>7, <1>8, <1>9 DEF Thread

LEMMA ClientLock ==
    ASSUME IInv, NEW c \in Clients, Ask(c) \/ Acquire(c) \/ Thread(c) \/ Send(c)
    PROVE  LockInv'
    BY Bounds DEF IInv, TypeOK, LockInv, Owning, Ask, Acquire, Thread, Send, ReadCounters, Sample,
        GpuCached, GpuAsked, GpuAnswers, Raises, Go

LEMMA SampleTimes ==
    ASSUME IInv, NEW c \in Clients, Sample(c)
    PROVE  TimeInv' /\ SpanInv'
<1>1. TypeOK /\ LockInv /\ TimeInv /\ SpanInv
    BY DEF IInv
<1>2. /\ pc[c] = "read" /\ pc' = [pc EXCEPT ![c] = "sampled"]
      /\ snap' = [snap EXCEPT ![c].read = 0] /\ last'.t = snap[c].t
      /\ now' = now /\ gpu' = gpu
  <2>1. last' = [t |-> snap[c].t, read |-> snap[c].read]
      BY <1>1, SampleGives
  <2> QED
      BY <1>1, <2>1, SampleGives
<1>3. /\ last.t \in 0 .. NoTime /\ gpu.at \in 0 .. MaxTime /\ tiled.from \in 0 .. NoTime
      /\ tiled.span \in Nat /\ snap[c].t \in 0 .. NoTime /\ now \in 0 .. MaxTime
    BY <1>1, Fields DEF TypeOK
<1>4. snap[c].t <= now /\ gpu.at <= snap[c].t /\ (last.t # NoTime => last.t <= snap[c].t)
    BY <1>1, <1>2 DEF TimeInv, Owning
<1>5. \A d \in Clients : /\ d # c => pc'[d] = pc[d] /\ pc[d] \notin Owning
                          /\ pc'[c] = "sampled" /\ snap'[d].t = snap[d].t
  <2>1. pc \in [Clients -> InThread \cup {"new", "sending", "asleep", "over"}] /\ snap \in [Clients -> Snap]
      BY <1>1 DEF TypeOK
  <2> QED
      BY <1>1, <1>2, <2>1 DEF LockInv, Owning, Snap
<1>6. TimeInv'
    BY <1>2, <1>3, <1>4, <1>5, Bounds DEF TimeInv, Owning
<1>7. CASE last.t = NoTime
  <2>1. tiled' = [tiled EXCEPT !.from = snap[c].t, !.base = snap[c].read]
      BY <1>1, <1>7, SampleGives
  <2>2. tiled \in [from : 0 .. NoTime, span : Nat, base : 0 .. MaxBytes, bytes : Nat]
      BY <1>1 DEF TypeOK
  <2>3. tiled'.from = snap[c].t /\ tiled'.span = tiled.span
      BY <2>1, <2>2
  <2>4. tiled.span = 0
      BY <1>1, <1>7 DEF SpanInv
  <2>5. snap[c].t # NoTime
      BY <1>3, <1>4, Bounds
  <2> QED
      BY <1>2, <1>3, <1>6, <2>3, <2>4, <2>5 DEF SpanInv
<1>8. CASE last.t # NoTime
  <2>1. Minus(snap[c].t, last.t) = snap[c].t - last.t
      BY <1>3, <1>4, <1>8, Bounds DEF Minus
  <2>2. tiled' = [tiled EXCEPT !.span = @ + Minus(snap[c].t, last.t),
                               !.bytes = @ + Minus(snap[c].read, last.read)]
      BY <1>1, <1>8, SampleGives
  <2>3. tiled \in [from : 0 .. NoTime, span : Nat, base : 0 .. MaxBytes, bytes : Nat]
      BY <1>1 DEF TypeOK
  <2>4. tiled'.from = tiled.from /\ tiled'.span = tiled.span + (snap[c].t - last.t)
      BY <2>1, <2>2, <2>3
  <2>5. tiled.from # NoTime /\ tiled.from <= last.t /\ tiled.span = last.t - tiled.from
      BY <1>1, <1>8 DEF SpanInv
  <2>6. snap[c].t # NoTime
      BY <1>3, <1>4, Bounds
  <2> QED
      BY <1>2, <1>3, <1>4, <1>6, <1>8, <2>4, <2>5, <2>6, Bounds DEF SpanInv
<1> QED
    BY <1>7, <1>8

LEMMA ClientTimes ==
    ASSUME IInv, NEW c \in Clients, Ask(c) \/ Acquire(c) \/ Thread(c) \/ Send(c)
    PROVE  TimeInv' /\ SpanInv'
<1> USE Bounds DEF IInv, TypeOK, TimeInv, SpanInv
<1>0. \A d \in Clients : d # c => pc'[d] = pc[d] /\ snap'[d] = snap[d]
    BY DEF Ask, Acquire, Thread, Send, ReadCounters, Sample, GpuCached, GpuAsked, GpuAnswers, Raises, Go
<1>1. CASE Ask(c) \/ Send(c) \/ Raises(c)
    BY <1>0, <1>1 DEF Ask, Send, Raises, Go, hostVars, Owning
<1>2. CASE Acquire(c)
    BY <1>0, <1>2 DEF Acquire, Go, hostVars, Owning, NoSnap
<1>3. CASE ReadCounters(c)
    BY <1>0, <1>3 DEF ReadCounters, Go, Owning, Snap
<1>4. CASE Sample(c)
    BY <1>4, SampleTimes
<1>5. CASE GpuCached(c) \/ GpuAsked(c)
    BY <1>0, <1>5 DEF GpuCached, GpuAsked, Go, hostVars, Owning, Snap
<1>6. CASE GpuAnswers(c)
  <2>1. \A d \in Clients : d # c => pc[d] \notin Owning
      BY <1>6 DEF GpuAnswers, LockInv, Owning
  <2> QED
      BY <1>0, <1>6, <2>1 DEF GpuAnswers, Go, hostVars, Owning, Snap
<1> QED
    BY <1>1, <1>2, <1>3, <1>4, <1>5, <1>6 DEF Thread

LEMMA SampleBytes ==
    ASSUME IInv, NEW c \in Clients, Sample(c)
    PROVE  ByteInv'
<1>1. TypeOK /\ LockInv /\ SpanInv /\ ByteInv
    BY DEF IInv
<1>2. /\ pc[c] = "read" /\ pc' = [pc EXCEPT ![c] = "sampled"]
      /\ snap' = [snap EXCEPT ![c].read = 0] /\ last'.read = snap[c].read /\ last'.t = snap[c].t
      /\ UNCHANGED <<counter, flowed, faults>>
  <2>1. last' = [t |-> snap[c].t, read |-> snap[c].read]
      BY <1>1, SampleGives
  <2> QED
      BY <1>1, <2>1, SampleGives
<1>3. /\ last.read \in 0 .. MaxBytes /\ tiled.base \in 0 .. MaxBytes /\ tiled.bytes \in Nat
      /\ snap[c].read \in 0 .. MaxBytes /\ counter \in 0 .. MaxBytes
    BY <1>1, Fields DEF TypeOK
<1>4. \A d \in Clients : pc'[d] # "read"
  <2>1. pc \in [Clients -> InThread \cup {"new", "sending", "asleep", "over"}]
      BY <1>1 DEF TypeOK
  <2> QED
      BY <1>1, <1>2, <2>1 DEF LockInv, Owning
<1>5. tiled \in [from : 0 .. NoTime, span : Nat, base : 0 .. MaxBytes, bytes : Nat]
    BY <1>1 DEF TypeOK
<1> SUFFICES ASSUME faults = 0
             PROVE  /\ last'.read <= counter'
                    /\ tiled'.from # NoTime => tiled'.base <= last'.read
                                              /\ tiled'.bytes = last'.read - tiled'.base
    BY <1>1, <1>2, <1>4 DEF ByteInv
<1>6. last.read <= snap[c].read /\ snap[c].read <= counter
    BY <1>1, <1>2 DEF ByteInv
<1>7. CASE last.t = NoTime
  <2>1. tiled' = [tiled EXCEPT !.from = snap[c].t, !.base = snap[c].read]
      BY <1>1, <1>7, SampleGives
  <2>2. tiled'.base = snap[c].read /\ tiled'.bytes = tiled.bytes
      BY <1>5, <2>1
  <2>3. tiled.bytes = 0
      BY <1>1, <1>7 DEF SpanInv
  <2> QED
      BY <1>2, <1>3, <1>6, <2>2, <2>3
<1>8. CASE last.t # NoTime
  <2>1. Minus(snap[c].read, last.read) = snap[c].read - last.read
      BY <1>3, <1>6 DEF Minus
  <2>2. tiled' = [tiled EXCEPT !.span = @ + Minus(snap[c].t, last.t),
                               !.bytes = @ + Minus(snap[c].read, last.read)]
      BY <1>1, <1>8, SampleGives
  <2>3. tiled'.base = tiled.base /\ tiled'.bytes = tiled.bytes + (snap[c].read - last.read)
      BY <1>5, <2>1, <2>2
  <2>4. tiled.base <= last.read /\ tiled.bytes = last.read - tiled.base
      BY <1>1, <1>8 DEF SpanInv, ByteInv
  <2> QED
      BY <1>2, <1>3, <1>6, <2>3, <2>4
<1> QED
    BY <1>7, <1>8

LEMMA ClientBytes ==
    ASSUME IInv, NEW c \in Clients, Ask(c) \/ Acquire(c) \/ Thread(c) \/ Send(c)
    PROVE  ByteInv'
<1> USE Bounds DEF IInv, TypeOK, ByteInv
<1>0. \A d \in Clients : d # c => pc'[d] = pc[d] /\ snap'[d] = snap[d]
    BY DEF Ask, Acquire, Thread, Send, ReadCounters, Sample, GpuCached, GpuAsked, GpuAnswers, Raises, Go
<1>1. CASE Ask(c) \/ Send(c) \/ Raises(c) \/ Acquire(c) \/ GpuCached(c) \/ GpuAsked(c) \/ GpuAnswers(c)
    BY <1>0, <1>1 DEF Ask, Send, Raises, Acquire, GpuCached, GpuAsked, GpuAnswers, Go, hostVars
<1>2. CASE ReadCounters(c)
    BY <1>0, <1>2 DEF ReadCounters, Go, Snap
<1>3. CASE Sample(c)
    BY <1>3, SampleBytes
<1> QED
    BY <1>1, <1>2, <1>3 DEF Thread

LEMMA ClientGpus ==
    ASSUME IInv, NEW c \in Clients, Ask(c) \/ Acquire(c) \/ Thread(c) \/ Send(c)
    PROVE  GpuInv'
<1> USE Bounds DEF IInv, TypeOK, GpuInv
<1>0. \A d \in Clients : d # c => pc'[d] = pc[d] /\ snap'[d] = snap[d]
    BY DEF Ask, Acquire, Thread, Send, ReadCounters, Sample, GpuCached, GpuAsked, GpuAnswers, Raises, Go
<1>1. CASE Ask(c) \/ Acquire(c) \/ ReadCounters(c) \/ Sample(c) \/ Raises(c) \/ Send(c)
  <2>1. pc[c] # "measuring" /\ pc'[c] # "sending" /\ UNCHANGED <<gpu, asked>>
      BY <1>1 DEF Ask, Acquire, ReadCounters, Sample, Raises, Send, Go
  <2> QED
      BY <1>0, <2>1 DEF GpuFresh, GpuRarely
<1>2. CASE GpuCached(c)
  <2>1. pc[c] # "measuring" /\ UNCHANGED <<gpu, asked>>
      BY <1>2 DEF GpuCached
  <2>2. snap'[c].t = snap[c].t /\ snap'[c].gpus = gpu.measured /\ snap[c].t < gpu.at + GpuTtl
      BY <1>2 DEF GpuCached, Snap
  <2>3. GpuFresh'
      BY <1>0, <2>1, <2>2 DEF GpuFresh, Snap
  <2>4. GpuRarely'
      BY <2>1 DEF GpuRarely
  <2> QED
      BY <1>0, <2>1, <2>3, <2>4
<1>3. CASE GpuAsked(c)
  <2>9. GpuRarely
      OBVIOUS
  <2>0. gpu.at \in Nat /\ asked \subseteq Nat
      OBVIOUS
  <2>1. \A d \in Clients : pc[d] # "measuring"
      BY <1>3 DEF GpuAsked, LockInv, Owning
  <2>2. \A t \in asked : t <= gpu.at
      BY <2>1
  <2>3. asked' = asked \cup {snap[c].t} /\ snap[c].t >= gpu.at + GpuTtl /\ snap' = snap /\ gpu' = gpu
        /\ pc'[c] = "measuring" /\ snap[c].t \in Nat
      BY <1>3 DEF GpuAsked, Snap, Go
  <2>4. GpuRarely'
    <3> SUFFICES ASSUME NEW s \in asked', NEW t \in asked', s < t PROVE t - s >= GpuTtl
        BY DEF GpuRarely
    <3> HIDE DEF IInv, TypeOK, GpuInv
    <3>0. GpuTtl \in Nat
        BY Bounds
    <3>1. CASE s \in asked /\ t \in asked
        BY <2>9, <3>1 DEF GpuRarely
    <3>2. CASE s \in asked /\ t = snap[c].t
      <4>1. s \in Nat /\ gpu.at \in Nat /\ s <= gpu.at /\ t \in Nat /\ t >= gpu.at + GpuTtl
          BY <2>0, <2>2, <2>3, <3>2
      <4> QED
          BY <3>0, <4>1
    <3>3. CASE s = snap[c].t
      <4>1. t \in Nat /\ t <= snap[c].t
          BY <2>0, <2>2, <2>3, <3>0
      <4> QED
          BY <2>3, <3>3, <4>1
    <3> QED
        BY <2>3, <3>1, <3>2, <3>3
  <2>5. GpuFresh'
      BY <1>0, <2>3 DEF GpuFresh
  <2> QED
      BY <1>0, <2>2, <2>3, <2>4, <2>5
<1>4. CASE GpuAnswers(c)
  <2>1. \A d \in Clients : pc[d] = "measuring" => d = c
      BY <1>4 DEF GpuAnswers, LockInv, Owning
  <2>2. /\ asked' = asked /\ now' = now /\ pc'[c] = "sending" /\ snap'[c].t = snap[c].t
        /\ gpu'.at = snap[c].t /\ gpu'.measured = snap'[c].gpus /\ snap'[c].gpus \in {now, NoTime}
      BY <1>4 DEF GpuAnswers, Go, hostVars, Snap
  <2>3. gpu.at <= snap[c].t /\ snap[c].t <= now /\ snap[c].t \in Nat
      BY <1>4 DEF GpuAnswers, TimeInv, Owning, Snap
  <2>4. \A t \in asked' : t <= gpu'.at
      BY <2>1, <2>2, <2>3, Fields
  <2>5. GpuFresh'
      BY <1>0, <2>2, <2>3 DEF GpuFresh
  <2> QED
      BY <2>2, <2>3, <2>4, <2>5 DEF GpuRarely
<1> QED
    BY <1>1, <1>2, <1>3, <1>4 DEF Thread

-----------------------------------------------------------------------------
(* Theorems.                                                               *)

\* The inductive invariant: who holds the lock, and how the times, the bytes
\* and the starts of nvidia-smi are ordered behind it (_snapshot, _gpus).
THEOREM MonitorInvariant == Spec => []IInv
<1>1. IInv /\ [Next]_vars => IInv'
    BY WorldKeeps, ClientTypes, ClientLock, ClientTimes, ClientBytes, ClientGpus DEF Next, IInv
<1> QED
    BY InitHolds, <1>1, PTL DEF Spec

\* Every variable keeps its type, for any number of phones.
THEOREM MonitorTypes == Spec => []TypeOK
    BY MonitorInvariant, PTL DEF IInv

\* The spans of all rates tile the time since the first sample, and their bytes
\* what the counter counted, however many phones watch (_snapshot).
THEOREM MonitorSamplesTile == Spec => []SamplesTile
<1>1. IInv => SamplesTile
    BY DEF IInv, SpanInv, ByteInv, SamplesTile
<1> QED
    BY MonitorInvariant, <1>1, PTL

\* A list of GPUs is never older than its time to live when it is used, and
\* nvidia-smi is started once in that time at most (_gpus).
THEOREM MonitorGpuSpared == Spec => []GpuSpared
<1>1. IInv => GpuSpared
    BY DEF IInv, GpuInv, GpuSpared
<1> QED
    BY MonitorInvariant, <1>1, PTL
=============================================================================
