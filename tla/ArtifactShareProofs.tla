------------------------- MODULE ArtifactShareProofs -------------------------
(***************************************************************************)
(* Safety of the request limiters, the middlewares and the artifact store  *)
(* for any number of addresses, tokens, limits, requests and restarts.     *)
(***************************************************************************)
EXTENDS ArtifactShare, FiniteSetTheorems, TLAPS

\* A bucket's table has, of the admitted stamps, those inside the window.
HitsInv == \A b \in Buckets, i \in Ips :
    /\ hits[b][i] \subseteq admitted[b][i]
    /\ Within(admitted[b][i], Window) \subseteq hits[b][i]
    /\ IsFiniteSet(hits[b][i]) /\ Cardinality(hits[b][i]) <= Limit[b]

GateInv == GateTypes /\ HitsInv /\ KeysBounded /\ GateOrder

\* The PIN limiter has, of the wrong attempts, those inside its window.
PinInv == \A t \in Spellings :
    /\ Within(wrong[t], PinWindow) \subseteq fails[t]
    /\ IsFiniteSet(fails[t]) /\ Cardinality(fails[t]) <= MaxFailures

\* A token that was never issued has no file and was never shown.
IssueInv == \A t \in Tokens : t \notin issued => files[t].state = "absent" /\ shown[t] = 0

StoreTypes ==
    /\ files \in [Tokens -> File] /\ issued \subseteq Tokens
    /\ shown \in [Tokens -> Nat] /\ faults \in [Tokens -> 0 .. MaxFaults]
    /\ fails \in [Spellings -> SUBSET Stamp] /\ wrong \in [Spellings -> SUBSET Stamp]
StoreInv == StoreTypes /\ PinInv /\ IssueInv /\ ViewsCounted /\ CapHolds

IInv == GateInv /\ StoreInv

LEMMA Bounds ==
    /\ IsFiniteSet(Ips) /\ IsFiniteSet(Tokens) /\ IsFiniteSet(Spellings)
    /\ FileOf \in [Spellings -> Tokens] /\ Limit \in [Buckets -> Nat \ {0}]
    /\ Window \in Nat \ {0} /\ PinWindow \in Nat \ {0} /\ MaxKeys \in Nat /\ EvictSlice \in Nat \ {0}
    /\ PinMaxKeys \in Nat \ {0} /\ MaxFailures \in Nat \ {0} /\ MaxFaults \in Nat
    /\ Cap \in Nat \ {0} /\ Lifetimes \subseteq Nat /\ MaxRequests \in Nat /\ MaxTime \in Nat
    /\ TokenSet \in BOOLEAN /\ Paths \subseteq AllPaths
    BY GateAssumption, ShareAssumption

-----------------------------------------------------------------------------
(* Tables of stamps.                                                       *)

\* What the window leaves of a finite set of stamps.
LEMMA WithinBounds ==
    ASSUME NEW S, IsFiniteSet(S), NEW w
    PROVE  /\ Within(S, w) \subseteq S /\ IsFiniteSet(Within(S, w))
           /\ Cardinality(Within(S, w)) \in Nat /\ Cardinality(S) \in Nat
           /\ Cardinality(Within(S, w)) <= Cardinality(S)
<1>1. Within(S, w) \subseteq S
    BY DEF Within
<1> QED
    BY <1>1, FS_Subset, FS_CardinalityType

\* As time passes the window only loses stamps.
LEMMA WithinShrinks ==
    ASSUME now \in Nat, now' = now \/ now' = now + 1, NEW S \in SUBSET Stamp, NEW w \in Nat
    PROVE  {s \in S : now' - s.t < w} \subseteq Within(S, w)
    BY DEF Within, Stamp

LEMMA AddOne ==
    ASSUME NEW S, IsFiniteSet(S), NEW x
    PROVE  /\ IsFiniteSet(S \cup {x})
           /\ Cardinality(S) \in Nat /\ Cardinality(S \cup {x}) \in Nat
           /\ Cardinality(S \cup {x}) <= Cardinality(S) + 1
<1>1. IsFiniteSet(S \cup {x})
    BY FS_AddElement
<1>2. Cardinality(S) \in Nat /\ Cardinality(S \cup {x}) \in Nat
    BY <1>1, FS_CardinalityType
<1>3. CASE x \in S
  <2>0. S \cup {x} = S
      BY <1>3
  <2>1. Cardinality(S \cup {x}) = Cardinality(S)
      BY <2>0
  <2> QED
      BY <1>1, <1>2, <2>1
<1>4. CASE x \notin S
  <2>1. Cardinality(S \cup {x}) = Cardinality(S) + 1
      BY <1>4, FS_AddElement
  <2> QED
      BY <1>1, <1>2, <2>1
<1> QED
    BY <1>3, <1>4

\* One more stamp where there was room for it.
LEMMA OneMore ==
    ASSUME NEW S, IsFiniteSet(S), NEW x, NEW limit \in Nat, Cardinality(S) < limit
    PROVE  IsFiniteSet(S \cup {x}) /\ Cardinality(S \cup {x}) <= limit
<1>1. /\ IsFiniteSet(S \cup {x}) /\ Cardinality(S) \in Nat /\ Cardinality(S \cup {x}) \in Nat
      /\ Cardinality(S \cup {x}) <= Cardinality(S) + 1
    BY AddOne
<1> QED
    BY <1>1

LEMMA KnownIsFinite ==
    ASSUME NEW D, IsFiniteSet(D), NEW X, NEW table \in [D -> X]
    PROVE  /\ Known(table) \subseteq D /\ IsFiniteSet(Known(table))
           /\ Cardinality(Known(table)) \in Nat
<1>1. Known(table) \subseteq D
    BY DEF Known
<1> QED
    BY <1>1, FS_Subset, FS_CardinalityType

\* An eviction empties as many keys as it was told, and touches no other.
LEMMA DropGives ==
    ASSUME NEW D, IsFiniteSet(D), NEW S, NEW table \in [D -> SUBSET S], NEW count \in Nat,
           NEW new \in DropIdlest(table, count)
    PROVE  /\ new \in [D -> SUBSET S]
           /\ \A k \in D : new[k] = table[k] \/ new[k] = {}
           /\ Cardinality(Known(new)) = Cardinality(Known(table)) - count
<1>1. PICK gone \in SUBSET Known(table) :
         Cardinality(gone) = count /\ new = [k \in D |-> IF k \in gone THEN {} ELSE table[k]]
    BY DEF DropIdlest
<1>2. Known(new) = Known(table) \ gone
    BY <1>1 DEF Known
<1>3. Known(table) \cap gone = gone
    OBVIOUS
<1>4. Cardinality(Known(new)) = Cardinality(Known(table)) - count
    BY <1>1, <1>2, <1>3, KnownIsFinite, FS_Difference
<1> QED
    BY <1>1, <1>4

LEMMA EvictedGives ==
    ASSUME NEW table \in [Ips -> SUBSET Stamp], Cardinality(Known(table)) <= MaxKeys + 1,
           NEW new \in Evicted(table)
    PROVE  /\ new \in [Ips -> SUBSET Stamp]
           /\ \A k \in Ips : new[k] = table[k] \/ new[k] = {}
           /\ Cardinality(Known(new)) <= MaxKeys
<1> DEFINE size == Cardinality(Known(table))
<1>1. size \in Nat
    BY Bounds, KnownIsFinite
<1>2. CASE size <= MaxKeys
    BY <1>2 DEF Evicted
<1>3. CASE size > MaxKeys
  <2> DEFINE count == IF EvictSlice < size THEN EvictSlice ELSE size
  <2>1. count \in Nat /\ size - count <= MaxKeys
      BY <1>1, <1>3, Bounds
  <2>2. new \in DropIdlest(table, count)
      BY <1>1, <1>3, Bounds DEF Evicted
  <2>3. IsFiniteSet(Ips)
      BY Bounds
  <2> HIDE DEF count
  <2>4. /\ new \in [Ips -> SUBSET Stamp]
        /\ \A k \in Ips : new[k] = table[k] \/ new[k] = {}
        /\ Cardinality(Known(new)) = size - count
      BY <2>1, <2>2, <2>3, DropGives
  <2> QED
      BY <2>1, <2>4
<1> QED
    BY <1>1, <1>2, <1>3, Bounds

\* RateLimiter.allowed keeps the limiters in order.
LEMMA AllowedKeeps ==
    ASSUME GateInv, NEW b \in Buckets, NEW i \in Ips, NEW ok \in BOOLEAN, Allowed(b, i, ok),
           n < MaxRequests, now' = now
    PROVE  /\ hits' \in [Buckets -> [Ips -> SUBSET Stamp]]
           /\ admitted' \in [Buckets -> [Ips -> SUBSET Stamp]]
           /\ HitsInv' /\ KeysBounded'
           /\ ~ok => Cardinality(Within(admitted[b][i], Window)) >= Limit[b]
<1> DEFINE fresh == Within(hits[b][i], Window)
           stamp == [id |-> n + 1, t |-> now]
<1>1. /\ hits \in [Buckets -> [Ips -> SUBSET Stamp]] /\ admitted \in [Buckets -> [Ips -> SUBSET Stamp]]
      /\ HitsInv /\ KeysBounded /\ now \in 0 .. MaxTime /\ n \in 0 .. MaxRequests
    BY DEF GateInv, GateTypes
<1>2. stamp \in Stamp
    BY <1>1, Bounds DEF Stamp
<1>3. /\ fresh \subseteq hits[b][i] /\ fresh = Within(admitted[b][i], Window)
      /\ IsFiniteSet(fresh) /\ Cardinality(fresh) \in Nat /\ Cardinality(fresh) <= Limit[b]
  <2>1. IsFiniteSet(hits[b][i]) /\ Cardinality(hits[b][i]) <= Limit[b] /\ Limit[b] \in Nat
      BY <1>1, Bounds DEF HitsInv
  <2>2. fresh = Within(admitted[b][i], Window)
      BY <1>1 DEF HitsInv, Within
  <2> QED
      BY <2>1, <2>2, WithinBounds
<1>4. CASE Cardinality(fresh) >= Limit[b]
  <2>1. ok = FALSE /\ hits' = [hits EXCEPT ![b][i] = fresh] /\ admitted' = admitted
      BY <1>4 DEF Allowed
  <2>2. hits' \in [Buckets -> [Ips -> SUBSET Stamp]]
      BY <1>1, <1>3, <2>1
  <2>3. ASSUME NEW c \in Buckets, NEW j \in Ips
        PROVE  hits'[c][j] = IF c = b /\ j = i THEN fresh ELSE hits[c][j]
      BY <1>1, <2>1
  <2>4. HitsInv'
    <3>1. ASSUME NEW c \in Buckets, NEW j \in Ips
          PROVE  /\ hits'[c][j] \subseteq admitted'[c][j]
                 /\ Within(admitted'[c][j], Window) \subseteq hits'[c][j]
                 /\ IsFiniteSet(hits'[c][j]) /\ Cardinality(hits'[c][j]) <= Limit[c]
        BY <1>1, <1>3, <2>1, <2>3 DEF HitsInv
    <3> QED
        BY <3>1 DEF HitsInv, Within
  <2>5. KeysBounded'
    <3> SUFFICES ASSUME NEW c \in Buckets PROVE Cardinality(Known(hits'[c])) <= MaxKeys
        BY DEF KeysBounded, Known
    <3>1. Known(hits'[c]) \subseteq Known(hits[c])
        BY <1>1, <1>3, <2>2, <2>3 DEF Known
    <3>2. /\ IsFiniteSet(Known(hits[c])) /\ Cardinality(Known(hits[c])) \in Nat
          /\ IsFiniteSet(Known(hits'[c])) /\ Cardinality(Known(hits'[c])) \in Nat
        BY <1>1, <2>2, Bounds, KnownIsFinite
    <3>3. Cardinality(Known(hits'[c])) <= Cardinality(Known(hits[c]))
        BY <3>1, <3>2, FS_Subset
    <3>4. Cardinality(Known(hits[c])) <= MaxKeys
        BY <1>1 DEF KeysBounded
    <3> QED
        BY <3>2, <3>3, <3>4, Bounds
  <2> QED
      BY <1>1, <1>3, <1>4, <2>1, <2>2, <2>4, <2>5
<1>5. CASE ~(Cardinality(fresh) >= Limit[b])
  <2> DEFINE first == [hits[b] EXCEPT ![i] = fresh \cup {stamp}]
  <2>1. PICK table \in Evicted(first) :
           /\ hits' = [hits EXCEPT ![b] = table]
           /\ admitted' = [admitted EXCEPT ![b] =
                 [k \in Ips |-> IF table[k] = {} THEN {}
                                ELSE IF k = i THEN @[k] \cup {stamp} ELSE @[k]]]
      BY <1>5 DEF Allowed
  <2>2. ok
      BY <1>5 DEF Allowed
  <2>3. first \in [Ips -> SUBSET Stamp]
      BY <1>1, <1>2, <1>3
  <2>4. Cardinality(Known(first)) <= MaxKeys + 1
    <3>1. Known(first) \subseteq Known(hits[b]) \cup {i}
        BY <1>1 DEF Known
    <3>2. IsFiniteSet(Known(hits[b])) /\ Cardinality(Known(hits[b])) \in Nat
        BY <1>1, Bounds, KnownIsFinite
    <3>3. /\ IsFiniteSet(Known(hits[b]) \cup {i})
          /\ Cardinality(Known(hits[b]) \cup {i}) <= Cardinality(Known(hits[b])) + 1
          /\ Cardinality(Known(hits[b]) \cup {i}) \in Nat
        BY <3>2, AddOne
    <3>4. Cardinality(Known(first)) <= Cardinality(Known(hits[b]) \cup {i})
          /\ Cardinality(Known(first)) \in Nat
        BY <3>1, <3>3, FS_Subset, FS_CardinalityType
    <3>5. Cardinality(Known(hits[b])) <= MaxKeys
        BY <1>1 DEF KeysBounded
    <3> QED
        BY <3>2, <3>3, <3>4, <3>5, Bounds
  <2>5. /\ table \in [Ips -> SUBSET Stamp] /\ Cardinality(Known(table)) <= MaxKeys
        /\ \A k \in Ips : table[k] = first[k] \/ table[k] = {}
      BY <2>3, <2>4, EvictedGives
  <2>6. first[i] = fresh \cup {stamp} /\ \A k \in Ips : k # i => first[k] = hits[b][k]
      BY <1>1
  <2> HIDE DEF first, fresh, stamp
  <2>7. /\ hits'[b] = table /\ \A c \in Buckets : c # b => hits'[c] = hits[c]
        /\ hits' \in [Buckets -> [Ips -> SUBSET Stamp]]
      BY <1>1, <2>1, <2>5
  <2>8. /\ \A k \in Ips : admitted'[b][k] =
             IF table[k] = {} THEN {} ELSE IF k = i THEN admitted[b][k] \cup {stamp} ELSE admitted[b][k]
        /\ \A c \in Buckets : c # b => admitted'[c] = admitted[c]
      BY <1>1, <2>1
  <2>9. admitted' \in [Buckets -> [Ips -> SUBSET Stamp]]
      BY <1>1, <1>2, <2>1
  <2>10. HitsInv'
    <3>1. ASSUME NEW c \in Buckets, NEW j \in Ips
          PROVE  /\ hits'[c][j] \subseteq admitted'[c][j]
                 /\ Within(admitted'[c][j], Window) \subseteq hits'[c][j]
                 /\ IsFiniteSet(hits'[c][j]) /\ Cardinality(hits'[c][j]) <= Limit[c]
      <4>1. CASE c # b
          BY <1>1, <2>7, <2>8, <4>1 DEF HitsInv
      <4>2. CASE c = b /\ table[j] = {}
        <5>1. hits'[c][j] = {} /\ admitted'[c][j] = {}
            BY <2>7, <2>8, <4>2
        <5>2. Limit[c] \in Nat
            BY Bounds
        <5> QED
            BY <5>1, <5>2, FS_EmptySet DEF Within
      <4>3. CASE c = b /\ table[j] # {} /\ j # i
        <5>1. hits'[c][j] = hits[c][j] /\ admitted'[c][j] = admitted[c][j]
            BY <2>5, <2>6, <2>7, <2>8, <4>3
        <5> QED
            BY <1>1, <5>1 DEF HitsInv
      <4>4. CASE c = b /\ table[j] # {} /\ j = i
        <5>1. hits'[c][j] = fresh \cup {stamp} /\ admitted'[c][j] = admitted[b][i] \cup {stamp}
            BY <2>5, <2>6, <2>7, <2>8, <4>4
        <5>2. hits[b][i] \subseteq admitted[b][i]
            BY <1>1 DEF HitsInv
        <5>3. Within(admitted[b][i] \cup {stamp}, Window)
              \subseteq Within(admitted[b][i], Window) \cup {stamp}
            BY DEF Within
        <5>4. Limit[b] \in Nat /\ Cardinality(fresh) < Limit[b]
            BY <1>3, <1>5, Bounds
        <5>5. IsFiniteSet(fresh \cup {stamp}) /\ Cardinality(fresh \cup {stamp}) <= Limit[b]
            BY <1>3, <5>4, OneMore
        <5> QED
            BY <1>3, <4>4, <5>1, <5>2, <5>3, <5>5
      <4> QED
          BY <4>1, <4>2, <4>3, <4>4
    <3> QED
        BY <3>1 DEF HitsInv, Within
  <2>11. KeysBounded'
    <3> SUFFICES ASSUME NEW c \in Buckets PROVE Cardinality(Known(hits'[c])) <= MaxKeys
        BY DEF KeysBounded, Known
    <3> QED
        BY <1>1, <2>5, <2>7 DEF KeysBounded
  <2> QED
      BY <2>2, <2>7, <2>9, <2>10, <2>11
<1> QED
    BY <1>4, <1>5
-----------------------------------------------------------------------------
(* The gate.                                                               *)

\* What the limiter and the two middlewares behind it say to one request.
LEMMA ArriveKeeps ==
    ASSUME GateInv, NEW i \in Ips, NEW path \in Paths, NEW ws \in BOOLEAN, NEW origin \in BOOLEAN,
           NEW bearer \in BOOLEAN, NEW over \in BOOLEAN, Arrive(i, path, ws, origin, bearer, over)
    PROVE  /\ GateInv'
           /\ \A q \in sent' : q.code \in {"429", "4429"} =>
                 Cardinality(Within(admitted[Bucket(q.path)][q.ip], Window)) >= Limit[Bucket(q.path)]
<1> DEFINE b == Bucket(path)
           verdict == Verdict(path, ws, origin, bearer, over)
<1>1. PICK ok \in BOOLEAN :
         LET code == IF ~ok THEN (IF ws THEN "4429" ELSE "429") ELSE verdict
         IN /\ Allowed(b, i, ok)
            /\ IF code = ""
               THEN /\ flight' = flight \cup {[id |-> n + 1, path |-> path, bearer |-> bearer,
                                               phase |-> IF ws THEN "route" ELSE "body"]}
                    /\ sent' = {}
               ELSE /\ sent' = {[ip |-> i, path |-> path, bearer |-> bearer, code |-> code]}
                    /\ UNCHANGED flight
    BY DEF Arrive
<1> DEFINE code == IF ~ok THEN (IF ws THEN "4429" ELSE "429") ELSE verdict
<1>2. n < MaxRequests /\ n' = n + 1 /\ now' = now
    BY DEF Arrive
<1>3. GateTypes /\ GateOrder /\ b \in Buckets
    BY DEF GateInv, Bucket, Buckets
<1>4. /\ hits' \in [Buckets -> [Ips -> SUBSET Stamp]]
      /\ admitted' \in [Buckets -> [Ips -> SUBSET Stamp]]
      /\ HitsInv' /\ KeysBounded'
      /\ ~ok => Cardinality(Within(admitted[b][i], Window)) >= Limit[b]
    BY <1>1, <1>2, <1>3, AllowedKeeps
<1>5. /\ verdict \in {"", "4403", "401", "4401", "413"}
      /\ verdict \in {"", "413"} => (TokenSet /\ ~Public(path) => bearer)
  <2>1. CASE ws /\ ~origin
      BY <2>1 DEF Verdict
  <2>2. CASE ~(ws /\ ~origin) /\ TokenSet /\ ~Public(path) /\ ~bearer
      BY <2>2 DEF Verdict
  <2>3. CASE ~(ws /\ ~origin) /\ ~(TokenSet /\ ~Public(path) /\ ~bearer)
      BY <2>3 DEF Verdict
  <2> QED
      BY <2>1, <2>2, <2>3
<1>6. /\ code \in {"", "429", "4429", "4403", "401", "4401", "413"}
      /\ code \in {"", "413"} => (TokenSet /\ ~Public(path) => bearer)
      /\ code \in {"429", "4429"} => ~ok
    BY <1>5
<1>7. CASE code = ""
  <2> DEFINE f == [id |-> n + 1, path |-> path, bearer |-> bearer,
                   phase |-> IF ws THEN "route" ELSE "body"]
  <2>1. flight' = flight \cup {f} /\ sent' = {}
      BY <1>1, <1>7
  <2>2. f \in Flight /\ f.path = path /\ f.bearer = bearer
      BY <1>2, <1>3, Bounds DEF Flight, GateTypes
  <2> HIDE DEF f
  <2>3. GateTypes'
      BY <1>2, <1>3, <1>4, <2>1, <2>2, Bounds DEF GateTypes
  <2>4. GateOrder'
      BY <1>3, <1>6, <1>7, <2>1, <2>2 DEF GateOrder
  <2> QED
      BY <1>4, <2>1, <2>3, <2>4 DEF GateInv
<1>8. CASE code # ""
  <2> DEFINE r == [ip |-> i, path |-> path, bearer |-> bearer, code |-> code]
  <2>1. flight' = flight /\ sent' = {r}
      BY <1>1, <1>8
  <2> HIDE DEF code, b
  <2>2. r \in Refusal /\ r.path = path /\ r.bearer = bearer /\ r.code = code /\ r.ip = i
      BY <1>6, <1>8 DEF Refusal
  <2> HIDE DEF r
  <2>3. GateTypes'
      BY <1>2, <1>3, <1>4, <2>1, <2>2, Bounds DEF GateTypes
  <2>4. GateOrder'
      BY <1>3, <1>6, <2>1, <2>2 DEF GateOrder
  <2>5. r.code \in {"429", "4429"} => Cardinality(Within(admitted[b][i], Window)) >= Limit[b]
      BY <1>4, <1>6, <2>2
  <2>6. \A q \in sent' : q.code \in {"429", "4429"} =>
           Cardinality(Within(admitted[Bucket(q.path)][q.ip], Window)) >= Limit[Bucket(q.path)]
      BY <2>1, <2>2, <2>5 DEF b
  <2> QED
      BY <1>4, <2>3, <2>4, <2>6 DEF GateInv
<1> QED
    BY <1>7, <1>8

\* The other steps of requests, time and restarts.
LEMMA GateKeeps ==
    ASSUME GateInv,
           \/ Tick \/ GateRestart \/ UNCHANGED gateVars
           \/ \E f \in flight : LastChunk(f) \/ BodyTooLarge(f) \/ \E P : Answers(f, P)
    PROVE  GateInv'
<1>1. GateTypes /\ HitsInv /\ KeysBounded /\ GateOrder
    BY DEF GateInv
<1>2. now' \in 0 .. MaxTime /\ n' = n /\ (now' = now \/ now' = now + 1) /\ now \in Nat
    BY <1>1, Bounds DEF Tick, GateRestart, gateVars, LastChunk, BodyTooLarge, Answers, GateTypes
<1>3. \/ UNCHANGED <<hits, admitted>>
      \/ hits' = NoHits /\ admitted' = NoHits
    BY DEF Tick, GateRestart, gateVars, LastChunk, BodyTooLarge, Answers
<1>4. /\ hits' \in [Buckets -> [Ips -> SUBSET Stamp]]
      /\ admitted' \in [Buckets -> [Ips -> SUBSET Stamp]]
    BY <1>1, <1>3 DEF GateTypes, NoHits
<1>5. HitsInv'
  <2> SUFFICES ASSUME NEW b \in Buckets, NEW i \in Ips
               PROVE  /\ hits'[b][i] \subseteq admitted'[b][i]
                      /\ {s \in admitted'[b][i] : now' - s.t < Window} \subseteq hits'[b][i]
                      /\ IsFiniteSet(hits'[b][i]) /\ Cardinality(hits'[b][i]) <= Limit[b]
      BY DEF HitsInv, Within
  <2>1. CASE UNCHANGED <<hits, admitted>>
    <3>1. {s \in admitted[b][i] : now' - s.t < Window} \subseteq Within(admitted[b][i], Window)
      <4>1. admitted[b][i] \in SUBSET Stamp
          BY <1>1 DEF GateTypes
      <4> QED
          BY <1>2, <4>1, Bounds, WithinShrinks
    <3> QED
        BY <1>1, <2>1, <3>1 DEF HitsInv
  <2>2. CASE hits' = NoHits /\ admitted' = NoHits
    <3>1. hits'[b][i] = {} /\ admitted'[b][i] = {} /\ Limit[b] \in Nat
        BY <2>2, Bounds DEF NoHits
    <3> QED
        BY <3>1, FS_EmptySet
  <2> QED
      BY <1>3, <2>1, <2>2
<1>6. KeysBounded'
  <2>1. CASE UNCHANGED <<hits, admitted>>
      BY <1>1, <2>1 DEF KeysBounded, Known
  <2>2. CASE hits' = NoHits
    <3> SUFFICES ASSUME NEW b \in Buckets PROVE Cardinality(Known(hits'[b])) <= MaxKeys
        BY DEF KeysBounded, Known
    <3>1. Known(hits'[b]) = {}
        BY <2>2 DEF NoHits, Known
    <3> QED
        BY <3>1, FS_EmptySet, Bounds
  <2> QED
      BY <1>3, <2>1, <2>2
<1>7. flight' \subseteq Flight /\ sent' \subseteq Refusal /\ GateOrder'
  <2>1. CASE Tick \/ GateRestart \/ UNCHANGED gateVars
      BY <1>1, <2>1 DEF Tick, GateRestart, gateVars, GateTypes, GateOrder
  <2>2. ASSUME NEW f \in flight, LastChunk(f)
        PROVE  flight' \subseteq Flight /\ sent' \subseteq Refusal /\ GateOrder'
    <3> DEFINE g == [f EXCEPT !.phase = "route"]
    <3>1. f \in Flight
        BY <1>1 DEF GateTypes
    <3>2. g \in Flight /\ g.path = f.path /\ g.bearer = f.bearer
        BY <3>1 DEF Flight
    <3>3. flight' = (flight \ {f}) \cup {g} /\ sent' = {}
        BY <2>2 DEF LastChunk
    <3> HIDE DEF g
    <3> QED
        BY <1>1, <3>2, <3>3 DEF GateTypes, GateOrder
  <2>3. ASSUME NEW f \in flight, BodyTooLarge(f)
        PROVE  flight' \subseteq Flight /\ sent' \subseteq Refusal /\ GateOrder'
    <3>1. PICK i \in Ips :
             sent' = {[ip |-> i, path |-> f.path, bearer |-> f.bearer, code |-> "413"]}
        BY <2>3 DEF BodyTooLarge
    <3> DEFINE r == [ip |-> i, path |-> f.path, bearer |-> f.bearer, code |-> "413"]
    <3>2. f \in Flight /\ flight' = flight \ {f}
        BY <1>1, <2>3 DEF GateTypes, BodyTooLarge
    <3>3. r \in Refusal /\ r.path = f.path /\ r.bearer = f.bearer
        BY <3>2 DEF Flight, Refusal
    <3>4. sent' = {r}
        BY <3>1
    <3> HIDE DEF r
    <3> QED
        BY <1>1, <3>2, <3>3, <3>4 DEF GateTypes, GateOrder
  <2>4. ASSUME NEW f \in flight, NEW P, Answers(f, P)
        PROVE  flight' \subseteq Flight /\ sent' \subseteq Refusal /\ GateOrder'
      BY <1>1, <2>4 DEF Answers, GateTypes, GateOrder
  <2> QED
      BY <2>1, <2>2, <2>3, <2>4
<1>8. GateTypes'
    BY <1>1, <1>2, <1>4, <1>7 DEF GateTypes
<1> QED
    BY <1>5, <1>6, <1>7, <1>8 DEF GateInv

LEMMA GateStepKeeps ==
    ASSUME GateInv, GateStep
    PROVE  GateInv'
<1>1. CASE ArriveAny
    BY <1>1, ArriveKeeps DEF ArriveAny
<1> QED
    BY <1>1, GateKeeps DEF GateStep
-----------------------------------------------------------------------------
(* The store.                                                              *)

\* The window of the PIN limiter moves with time.
LEMMA PinShrinks ==
    ASSUME StoreInv, now \in Nat, now' = now \/ now' = now + 1, UNCHANGED pinVars
    PROVE  PinInv'
<1> SUFFICES ASSUME NEW t \in Spellings
             PROVE  {s \in wrong[t] : now' - s.t < PinWindow} \subseteq fails[t]
                    /\ IsFiniteSet(fails[t]) /\ Cardinality(fails[t]) <= MaxFailures
    BY DEF PinInv, Within, pinVars
<1>1. PinInv /\ wrong[t] \in SUBSET Stamp
    BY DEF StoreInv, StoreTypes
<1>2. {s \in wrong[t] : now' - s.t < PinWindow} \subseteq Within(wrong[t], PinWindow)
    BY <1>1, Bounds, WithinShrinks
<1> QED
    BY <1>1, <1>2 DEF PinInv

LEMMA StoreStutters ==
    ASSUME StoreInv, now \in Nat, now' = now \/ now' = now + 1, UNCHANGED <<storeVars, pinVars>>
    PROVE  StoreInv'
<1>1. PinInv'
    BY PinShrinks
<1> QED
    BY <1>1 DEF StoreInv, StoreTypes, IssueInv, ViewsCounted, CapHolds, Present, storeVars, pinVars

\* Fewer files, or other states of the same, keep to the cap.
LEMMA CapKept ==
    ASSUME StoreInv, Present(files') \subseteq Present(files)
    PROVE  CapHolds'
<1>1. IsFiniteSet(Present(files)) /\ Cardinality(Present(files)) \in Nat
  <2>1. Present(files) \subseteq Tokens
      BY DEF Present
  <2> QED
      BY <2>1, Bounds, FS_Subset, FS_CardinalityType
<1>2. /\ Cardinality(Present(files')) <= Cardinality(Present(files))
      /\ Cardinality(Present(files')) \in Nat
    BY <1>1, FS_Subset, FS_CardinalityType
<1>3. Cardinality(Present(files)) <= Cap
    BY DEF StoreInv, CapHolds
<1>4. Cardinality(Present(files')) <= Cap
    BY <1>1, <1>2, <1>3, Bounds
<1> QED
    BY <1>4 DEF CapHolds, Present

\* One more file where there was room for it.
LEMMA CapRoom ==
    ASSUME NEW fs, Cardinality(Present(fs)) < Cap, NEW t,
           Present(files') \subseteq Present(fs) \cup {t}
    PROVE  CapHolds'
<1>1. IsFiniteSet(Present(fs)) /\ Cardinality(Present(fs)) \in Nat
  <2>1. Present(fs) \subseteq Tokens
      BY DEF Present
  <2> QED
      BY <2>1, Bounds, FS_Subset, FS_CardinalityType
<1>2. /\ IsFiniteSet(Present(fs) \cup {t}) /\ Cardinality(Present(fs) \cup {t}) \in Nat
      /\ Cardinality(Present(fs) \cup {t}) <= Cardinality(Present(fs)) + 1
    BY <1>1, AddOne
<1>3. /\ Cardinality(Present(files')) <= Cardinality(Present(fs) \cup {t})
      /\ Cardinality(Present(files')) \in Nat
    BY <1>2, FS_Subset, FS_CardinalityType
<1>4. Cardinality(Present(files')) <= Cap
    BY <1>1, <1>2, <1>3, Bounds
<1> QED
    BY <1>4 DEF CapHolds, Present

\* The collector only takes files.
LEMMA CollectedGives ==
    ASSUME StoreTypes
    PROVE  /\ Collected \in [Tokens -> File]
           /\ \A t \in Tokens : \/ Collected[t] = files[t]
                                \/ Collected[t] = NoFile /\ Expired(files[t])
           /\ Present(Collected) \subseteq Present(files)
<1>1. NoFile \in File /\ NoFile.state = "absent"
    BY DEF NoFile, File
<1>2. Collected \in [Tokens -> File]
    BY <1>1 DEF Collected, StoreTypes
<1>3. \A t \in Tokens : \/ Collected[t] = files[t]
                        \/ Collected[t] = NoFile /\ Expired(files[t])
  <2> TAKE t \in Tokens
  <2>1. CASE Expired(files[t])
    <3>1. Collected[t] = NoFile
        BY <2>1 DEF Collected
    <3> QED
        BY <2>1, <3>1
  <2>2. CASE ~Expired(files[t])
    <3>1. Collected[t] = files[t]
        BY <2>2 DEF Collected
    <3> QED
        BY <3>1
  <2> QED
      BY <2>1, <2>2
<1> QED
    BY <1>1, <1>2, <1>3 DEF Present

\* Files that are only taken, with the limiter untouched.
LEMMA TakingKeeps ==
    ASSUME StoreInv, files' \in [Tokens -> File], now' = now,
           \A t \in Tokens : files'[t] = files[t] \/ files'[t] = NoFile,
           UNCHANGED <<issued, shown, faults, pinVars>>, now \in Nat
    PROVE  StoreInv'
<1>1. NoFile.state = "absent"
    BY DEF NoFile
<1>2. StoreTypes' /\ IssueInv' /\ ViewsCounted'
    BY <1>1 DEF StoreInv, StoreTypes, IssueInv, ViewsCounted, pinVars
<1>3. Present(files') \subseteq Present(files)
    BY <1>1 DEF Present
<1>4. CapHolds'
    BY <1>3, CapKept
<1>5. PinInv'
    BY PinShrinks
<1> QED
    BY <1>2, <1>4, <1>5 DEF StoreInv

LEMMA PublishKeeps ==
    ASSUME StoreInv, NEW t \in Tokens, NEW pin \in BOOLEAN, NEW hours \in Lifetimes,
           Publish(t, pin, hours), now \in Nat, now' = now
    PROVE  StoreInv'
<1>1. StoreTypes /\ PinInv /\ IssueInv /\ ViewsCounted /\ CapHolds
    BY DEF StoreInv
<1> DEFINE f == [state |-> "ok", pin |-> pin, views |-> 0,
                 expires |-> IF hours = 0 THEN 0 ELSE now + hours]
<1>2. f \in File /\ f.state = "ok" /\ f.views = 0
    BY Bounds DEF File
<1>3. TornFile \in File /\ TornFile.state = "torn"
    BY DEF TornFile, NoFile, File
<1>4. t \notin issued /\ UNCHANGED <<shown, fails, wrong>>
    BY DEF Publish, pinVars
<1>5. CASE Cardinality(Present(Collected)) >= Cap
  <2>1. files' = Collected /\ UNCHANGED <<issued, shown, faults, pinVars>>
      BY <1>5 DEF Publish
  <2> QED
      BY <1>1, <2>1, CollectedGives, TakingKeeps
<1>6. CASE ~(Cardinality(Present(Collected)) >= Cap)
  <2>1. Writes(t, Collected, f) /\ issued' = issued \cup {t}
      BY <1>6 DEF Publish
  <2>2. /\ Collected \in [Tokens -> File] /\ Present(Collected) \subseteq Present(files)
        /\ \A u \in Tokens : Collected[u] = files[u] \/ Collected[u] = NoFile
      BY <1>1, CollectedGives
  <2> HIDE DEF f
  <2>3. /\ files' \in {Collected, [Collected EXCEPT ![t] = f], [Collected EXCEPT ![t] = TornFile]}
        /\ faults' \in [Tokens -> 0 .. MaxFaults] /\ \A u \in Tokens : faults'[u] >= faults[u]
        /\ \A u \in Tokens : u # t => faults'[u] = faults[u]
      BY <1>1, <2>1, Bounds DEF Writes, StoreTypes
  <2>4. /\ files' \in [Tokens -> File]
        /\ \A u \in Tokens : u # t => files'[u] = files[u] \/ files'[u] = NoFile
        /\ files'[t] \in {Collected[t], f, TornFile}
      BY <1>2, <1>3, <2>2, <2>3
  <2>5. StoreTypes'
      BY <1>1, <1>4, <2>1, <2>3, <2>4 DEF StoreTypes
  <2>6. PinInv'
      BY <1>4, PinShrinks DEF pinVars
  <2>7. NoFile.state = "absent"
      BY DEF NoFile
  <2>8. files[t].state = "absent" /\ shown[t] = 0
      BY <1>1, <1>4 DEF IssueInv
  <2>9. Collected[t].state = "absent"
      BY <2>2, <2>7, <2>8
  <2>10. IssueInv'
      BY <1>1, <1>4, <2>1, <2>4, <2>7 DEF IssueInv
  <2>11. ViewsCounted'
    <3> SUFFICES ASSUME NEW u \in Tokens, files'[u].state = "ok"
                 PROVE  files'[u].views <= shown'[u] /\ shown'[u] <= files'[u].views + faults'[u]
        BY DEF ViewsCounted
    <3>1. CASE u = t
      <4>1. files'[u] = f /\ shown'[u] = 0 /\ faults'[u] \in Nat
          BY <1>3, <1>4, <2>3, <2>4, <2>8, <2>9, <3>1, Bounds
      <4> QED
          BY <1>2, <4>1
    <3>2. CASE u # t
      <4>1. files'[u] = files[u] /\ shown'[u] = shown[u] /\ faults'[u] = faults[u]
          BY <1>4, <2>3, <2>4, <2>7, <3>2
      <4> QED
          BY <1>1, <4>1 DEF ViewsCounted
    <3> QED
        BY <3>1, <3>2
  <2>12. CapHolds'
    <3>1. Cardinality(Present(Collected)) < Cap
      <4>1. Present(Collected) \subseteq Tokens
          BY DEF Present
      <4>2. Cardinality(Present(Collected)) \in Nat
          BY <4>1, Bounds, FS_Subset, FS_CardinalityType
      <4> QED
          BY <1>6, <4>2, Bounds
    <3>2. Present(files') \subseteq Present(Collected) \cup {t}
        BY <2>2, <2>3 DEF Present
    <3> QED
        BY <3>1, <3>2, CapRoom
  <2> QED
      BY <2>5, <2>6, <2>10, <2>11, <2>12 DEF StoreInv
<1> QED
    BY <1>5, <1>6

\* The content goes out, and the count is written or is not.
LEMMA ShowKeeps ==
    ASSUME StoreInv, NEW t \in Tokens, Loads(t), Show(t),
           fails' \in [Spellings -> SUBSET Stamp], wrong' \in [Spellings -> SUBSET Stamp], PinInv'
    PROVE  StoreInv'
<1>1. StoreTypes /\ PinInv /\ IssueInv /\ ViewsCounted /\ CapHolds
    BY DEF StoreInv
<1> DEFINE f == [files[t] EXCEPT !.views = @ + 1]
<1>2. files[t].state = "ok" /\ t \in issued /\ files[t] \in File
    BY <1>1 DEF Loads, IssueInv, StoreTypes
<1>3. f \in File /\ f.state = "ok" /\ f.views = files[t].views + 1 /\ files[t].views \in Nat
    BY <1>2 DEF File
<1>4. TornFile \in File /\ TornFile.state = "torn"
    BY DEF TornFile, NoFile, File
<1>5. Writes(t, files, f) /\ shown' = [shown EXCEPT ![t] = @ + 1] /\ issued' = issued
    BY DEF Show
<1> HIDE DEF f
<1>6. /\ shown' \in [Tokens -> Nat] /\ shown'[t] = shown[t] + 1 /\ shown[t] \in Nat
      /\ \A u \in Tokens : u # t => shown'[u] = shown[u]
    BY <1>1, <1>5 DEF StoreTypes
<1>7. /\ \A u \in Tokens : u # t => files'[u] = files[u] /\ faults'[u] = faults[u]
      /\ files' \in [Tokens -> File] /\ faults' \in [Tokens -> 0 .. MaxFaults]
      /\ \/ files'[t] = f /\ faults'[t] = faults[t]
         \/ files'[t] \in {files[t], TornFile} /\ faults'[t] = faults[t] + 1
    BY <1>1, <1>3, <1>4, <1>5, Bounds DEF Writes, StoreTypes
<1>8. StoreTypes'
    BY <1>1, <1>5, <1>6, <1>7 DEF StoreTypes
<1>9. IssueInv'
    BY <1>1, <1>2, <1>5, <1>6, <1>7 DEF IssueInv
<1>10. ViewsCounted'
  <2> SUFFICES ASSUME NEW u \in Tokens, files'[u].state = "ok"
               PROVE  files'[u].views <= shown'[u] /\ shown'[u] <= files'[u].views + faults'[u]
      BY DEF ViewsCounted
  <2>1. CASE u # t
      BY <1>1, <1>6, <1>7, <2>1 DEF ViewsCounted
  <2>2. CASE u = t
    <3>1. files[t].views <= shown[t] /\ shown[t] <= files[t].views + faults[t] /\ faults[t] \in Nat
        BY <1>1, <1>2, Bounds DEF ViewsCounted, StoreTypes
    <3> QED
        BY <1>3, <1>4, <1>6, <1>7, <2>2, <3>1
  <2> QED
      BY <2>1, <2>2
<1>11. CapHolds'
  <2>1. Present(files') \subseteq Present(files)
      BY <1>2, <1>7 DEF Present
  <2> QED
      BY <2>1, CapKept
<1> QED
    BY <1>8, <1>9, <1>10, <1>11 DEF StoreInv
-----------------------------------------------------------------------------
(* The PIN limiter.                                                        *)
LEMMA BoundedGives ==
    ASSUME NEW table \in [Spellings -> SUBSET Stamp], NEW new \in Bounded(table)
    PROVE  /\ new \in [Spellings -> SUBSET Stamp]
           /\ \A t \in Spellings : \/ new[t] = table[t] \/ new[t] = {}
<1> DEFINE active == [t \in Spellings |-> IF Within(table[t], PinWindow) = {} THEN {} ELSE table[t]]
           size == Cardinality(Known(active))
<1>1. active \in [Spellings -> SUBSET Stamp] /\ \A t \in Spellings : active[t] = table[t] \/ active[t] = {}
    OBVIOUS
<1>2. new = table \/ new = active \/ (~(size <= PinMaxKeys) /\ new \in DropIdlest(active, size - PinMaxKeys))
    BY DEF Bounded
<1> HIDE DEF active
<1>3. CASE ~(size <= PinMaxKeys) /\ new \in DropIdlest(active, size - PinMaxKeys)
  <2>0. Cardinality(Known(active)) \in Nat
      BY <1>1, Bounds, KnownIsFinite
  <2>1. size - PinMaxKeys \in Nat
      BY <1>3, <2>0, Bounds
  <2>2. new \in [Spellings -> SUBSET Stamp] /\ \A t \in Spellings : new[t] = active[t] \/ new[t] = {}
      BY <1>1, <1>3, <2>1, Bounds, DropGives
  <2> QED
      BY <1>1, <2>2
<1> QED
    BY <1>1, <1>2, <1>3

\* A wrong PIN is counted, and the count stays within its limit.
LEMMA WrongPinKeeps ==
    ASSUME StoreInv, NEW t \in Spellings, NEW id \in 1 .. MaxRequests, WrongPin(id, t),
           Cardinality(PinFresh(t)) < MaxFailures, UNCHANGED storeVars,
           now \in 0 .. MaxTime, now' = now
    PROVE  StoreInv'
<1>1. StoreTypes /\ PinInv /\ IssueInv /\ ViewsCounted /\ CapHolds
    BY DEF StoreInv
<1> DEFINE fresh == PinFresh(t)
           stamp == [id |-> id, t |-> now]
           first == [fails EXCEPT ![t] = fresh \cup {stamp}]
<1>2. stamp \in Stamp
    BY DEF Stamp
<1>3. /\ fresh \subseteq fails[t] /\ IsFiniteSet(fresh) /\ Cardinality(fresh) \in Nat
      /\ Within(wrong[t], PinWindow) \subseteq fresh
  <2>1. IsFiniteSet(fails[t]) /\ Within(wrong[t], PinWindow) \subseteq fails[t]
      BY <1>1 DEF PinInv
  <2>2. Within(wrong[t], PinWindow) \subseteq fresh
      BY <2>1 DEF PinFresh, Within
  <2> QED
      BY <2>1, <2>2, WithinBounds DEF PinFresh
<1>4. first \in [Spellings -> SUBSET Stamp]
    BY <1>1, <1>2, <1>3 DEF StoreTypes
<1>5. /\ fails' \in Bounded(first)
      /\ wrong' = [s \in Spellings |-> IF fails'[s] = {} THEN {}
                                    ELSE IF s = t THEN wrong[s] \cup {stamp} ELSE wrong[s]]
    BY DEF WrongPin
<1>6. first[t] = fresh \cup {stamp} /\ \A s \in Spellings : s # t => first[s] = fails[s]
    BY <1>1 DEF StoreTypes
<1>7. IsFiniteSet(fresh \cup {stamp}) /\ Cardinality(fresh \cup {stamp}) <= MaxFailures
    BY <1>3, Bounds, OneMore
<1> HIDE DEF first, fresh, stamp
<1>8. fails' \in [Spellings -> SUBSET Stamp] /\ \A s \in Spellings : fails'[s] = first[s] \/ fails'[s] = {}
    BY <1>4, <1>5, BoundedGives
<1>9. wrong' \in [Spellings -> SUBSET Stamp]
    BY <1>1, <1>2, <1>5 DEF StoreTypes
<1>10. PinInv'
  <2>1. ASSUME NEW s \in Spellings
        PROVE  /\ Within(wrong'[s], PinWindow) \subseteq fails'[s]
               /\ IsFiniteSet(fails'[s]) /\ Cardinality(fails'[s]) <= MaxFailures
    <3>1. CASE fails'[s] = {}
      <4>1. wrong'[s] = {}
          BY <1>5, <3>1
      <4> QED
          BY <3>1, <4>1, FS_EmptySet, Bounds DEF Within
    <3>2. CASE fails'[s] # {} /\ s # t
      <4>1. fails'[s] = fails[s] /\ wrong'[s] = wrong[s]
          BY <1>5, <1>6, <1>8, <3>2
      <4> QED
          BY <1>1, <4>1 DEF PinInv
    <3>3. CASE fails'[s] # {} /\ s = t
      <4>1. fails'[s] = fresh \cup {stamp} /\ wrong'[s] = wrong[t] \cup {stamp}
          BY <1>5, <1>6, <1>8, <3>3
      <4>2. Within(wrong[t] \cup {stamp}, PinWindow) \subseteq Within(wrong[t], PinWindow) \cup {stamp}
          BY DEF Within
      <4> QED
          BY <1>3, <1>7, <4>1, <4>2
    <3> QED
        BY <3>1, <3>2, <3>3
  <2> QED
      BY <2>1 DEF PinInv, Within
<1>11. StoreTypes' /\ IssueInv' /\ ViewsCounted' /\ CapHolds'
    BY <1>1, <1>8, <1>9 DEF StoreTypes, IssueInv, ViewsCounted, CapHolds, Present, storeVars
<1> QED
    BY <1>10, <1>11 DEF StoreInv

\* _view_shared_artifact of an artifact with a PIN.
LEMMA LockedKeeps ==
    ASSUME StoreInv, NEW t \in Spellings, NEW id \in 1 .. MaxRequests, NEW pin \in {"none", "right", "wrong"},
           ViewLocked(id, t, pin), now \in 0 .. MaxTime, now' = now
    PROVE  StoreInv'
<1>1. StoreTypes /\ PinInv /\ IssueInv /\ ViewsCounted /\ CapHolds
    BY DEF StoreInv
<1>2. /\ PinFresh(t) \subseteq fails[t] /\ IsFiniteSet(PinFresh(t)) /\ Cardinality(PinFresh(t)) \in Nat
      /\ Cardinality(PinFresh(t)) <= MaxFailures /\ Within(wrong[t], PinWindow) \subseteq PinFresh(t)
  <2>1. /\ IsFiniteSet(fails[t]) /\ Cardinality(fails[t]) <= MaxFailures
        /\ Within(wrong[t], PinWindow) \subseteq fails[t]
      BY <1>1 DEF PinInv
  <2>2. Within(wrong[t], PinWindow) \subseteq PinFresh(t)
      BY <2>1 DEF PinFresh, Within
  <2>3. /\ PinFresh(t) \subseteq fails[t] /\ IsFiniteSet(PinFresh(t))
        /\ Cardinality(PinFresh(t)) \in Nat /\ Cardinality(fails[t]) \in Nat
        /\ Cardinality(PinFresh(t)) <= Cardinality(fails[t])
      BY <2>1, WithinBounds DEF PinFresh
  <2> QED
      BY <2>1, <2>2, <2>3, Bounds
<1>3. CASE Cardinality(PinFresh(t)) >= MaxFailures \/ pin = "none"
  <2>1. fails' = [fails EXCEPT ![t] = PinFresh(t)] /\ wrong' = wrong /\ UNCHANGED storeVars
      BY <1>3 DEF ViewLocked
  <2>2. fails' \in [Spellings -> SUBSET Stamp]
      BY <1>1, <1>2, <2>1 DEF StoreTypes
  <2>3. \A s \in Spellings : fails'[s] = IF s = t THEN PinFresh(t) ELSE fails[s]
      BY <1>1, <2>1 DEF StoreTypes
  <2>4. PinInv'
    <3>1. ASSUME NEW s \in Spellings
          PROVE  /\ Within(wrong[s], PinWindow) \subseteq fails'[s]
                 /\ IsFiniteSet(fails'[s]) /\ Cardinality(fails'[s]) <= MaxFailures
        BY <1>1, <1>2, <2>3 DEF PinInv
    <3> QED
        BY <2>1, <3>1 DEF PinInv, Within
  <2> QED
      BY <1>1, <2>1, <2>2, <2>4 DEF StoreInv, StoreTypes, IssueInv, ViewsCounted, CapHolds, Present,
         storeVars
<1>4. CASE Cardinality(PinFresh(t)) < MaxFailures /\ pin = "wrong"
  <2>1. WrongPin(id, t) /\ UNCHANGED storeVars
      BY <1>2, <1>4, Bounds DEF ViewLocked
  <2> QED
      BY <1>4, <2>1, WrongPinKeeps
<1>5. CASE Cardinality(PinFresh(t)) < MaxFailures /\ pin = "right"
  <2>1. /\ fails' = [fails EXCEPT ![t] = {}] /\ wrong' = [wrong EXCEPT ![t] = {}]
        /\ Show(FileOf[t]) /\ Loads(FileOf[t]) /\ FileOf[t] \in Tokens
      BY <1>2, <1>5, Bounds DEF ViewLocked
  <2>2. fails' \in [Spellings -> SUBSET Stamp] /\ wrong' \in [Spellings -> SUBSET Stamp]
      BY <1>1, <2>1 DEF StoreTypes
  <2>3. /\ fails'[t] = {} /\ wrong'[t] = {}
        /\ \A s \in Spellings : s # t => fails'[s] = fails[s] /\ wrong'[s] = wrong[s]
      BY <1>1, <2>1 DEF StoreTypes
  <2>4. PinInv'
    <3>1. ASSUME NEW s \in Spellings
          PROVE  /\ Within(wrong'[s], PinWindow) \subseteq fails'[s]
                 /\ IsFiniteSet(fails'[s]) /\ Cardinality(fails'[s]) <= MaxFailures
      <4>1. CASE s = t
        <5>1. fails'[s] = {} /\ wrong'[s] = {}
            BY <2>3, <4>1
        <5> QED
            BY <5>1, FS_EmptySet, Bounds DEF Within
      <4>2. CASE s # t
          BY <1>1, <2>3, <4>2 DEF PinInv
      <4> QED
          BY <4>1, <4>2
    <3> QED
        BY <3>1 DEF PinInv, Within
  <2> QED
      BY <2>1, <2>2, <2>4, ShowKeeps
<1> QED
    BY <1>2, <1>3, <1>4, <1>5, Bounds

-----------------------------------------------------------------------------
(* The routes and the restart.                                             *)
LEMMA ShareKeeps ==
    ASSUME IInv, NEW f \in flight, Share(f)
    PROVE  StoreInv'
<1>1. StoreInv /\ StoreTypes /\ now \in 0 .. MaxTime /\ now \in Nat /\ f \in Flight /\ PinInv
    BY Bounds DEF IInv, GateInv, GateTypes, StoreInv
<1>2. f.id \in 1 .. MaxRequests /\ now' = now
    BY <1>1 DEF Flight, Share, Answers, gateVars
<1>3. ASSUME NEW t \in Tokens, ViewGone(t) PROVE StoreInv'
  <2>1. NoFile \in File
      BY DEF NoFile, File
  <2>2. /\ files' \in [Tokens -> File] /\ UNCHANGED <<issued, shown, faults, pinVars>>
        /\ \A u \in Tokens : files'[u] = files[u] \/ files'[u] = NoFile
      BY <1>1, <1>3, <2>1 DEF ViewGone, StoreTypes
  <2> QED
      BY <1>1, <1>2, <2>2, TakingKeeps
<1>4. ASSUME NEW t \in Tokens, ViewOpen(t) PROVE StoreInv'
  <2>1. Loads(t) /\ Show(t) /\ UNCHANGED pinVars
      BY <1>4 DEF ViewOpen
  <2>2. PinInv'
      BY <1>1, <1>2, <2>1, PinShrinks
  <2>3. fails' \in [Spellings -> SUBSET Stamp] /\ wrong' \in [Spellings -> SUBSET Stamp]
      BY <1>1, <2>1 DEF StoreTypes, pinVars
  <2> QED
      BY <1>1, <2>1, <2>2, <2>3, ShowKeeps
<1>5. \A s \in Spellings : FileOf[s] \in Tokens
    BY Bounds
<1> QED
    BY <1>1, <1>2, <1>3, <1>4, <1>5, LockedKeeps DEF Share

LEMMA ManageKeeps ==
    ASSUME IInv, NEW f \in flight, Manage(f)
    PROVE  StoreInv'
<1>1. StoreInv /\ StoreTypes /\ now \in Nat
    BY Bounds DEF IInv, GateInv, GateTypes, StoreInv
<1>2. now' = now
    BY DEF Manage, Answers
<1>3. CASE List
    BY <1>1, <1>2, <1>3, CollectedGives, TakingKeeps DEF List
<1>4. ASSUME NEW t \in Tokens, Delete(t) PROVE StoreInv'
  <2>1. NoFile \in File
      BY DEF NoFile, File
  <2>2. /\ files' \in [Tokens -> File] /\ UNCHANGED <<issued, shown, faults, pinVars>>
        /\ \A u \in Tokens : files'[u] = files[u] \/ files'[u] = NoFile
      BY <1>1, <1>4, <2>1 DEF Delete, StoreTypes
  <2> QED
      BY <1>1, <1>2, <2>2, TakingKeeps
<1> QED
    BY <1>1, <1>2, <1>3, <1>4, PublishKeeps DEF Manage

LEMMA RestartKeeps ==
    ASSUME IInv, Restart
    PROVE  StoreInv'
<1>1. StoreTypes /\ IssueInv /\ ViewsCounted /\ CapHolds
    BY DEF IInv, StoreInv
<1>2. fails' = [t \in Spellings |-> {}] /\ wrong' = [t \in Spellings |-> {}]
    BY DEF Restart
<1>3. PinInv'
  <2> SUFFICES ASSUME NEW t \in Spellings
               PROVE  {s \in wrong'[t] : now' - s.t < PinWindow} \subseteq fails'[t]
                      /\ IsFiniteSet(fails'[t]) /\ Cardinality(fails'[t]) <= MaxFailures
      BY DEF PinInv, Within
  <2> QED
      BY <1>2, FS_EmptySet, Bounds
<1>4. CASE UNCHANGED storeVars
    BY <1>1, <1>2, <1>3, <1>4 DEF StoreInv, StoreTypes, IssueInv, ViewsCounted, CapHolds, Present,
       storeVars
<1>5. ASSUME NEW t \in Tokens,
             \/ t \notin issued /\ Cardinality(Present(files)) < Cap
             \/ Loads(t),
             faults[t] < MaxFaults, files' = [files EXCEPT ![t] = TornFile],
             issued' = issued \cup {t}, faults' = [faults EXCEPT ![t] = @ + 1], shown' = shown
      PROVE  StoreInv'
  <2>1. TornFile \in File /\ TornFile.state = "torn"
      BY DEF TornFile, NoFile, File
  <2>2. /\ files' \in [Tokens -> File] /\ files'[t] = TornFile
        /\ \A u \in Tokens : u # t => files'[u] = files[u] /\ faults'[u] = faults[u]
        /\ faults' \in [Tokens -> 0 .. MaxFaults]
      BY <1>1, <1>5, <2>1, Bounds DEF StoreTypes
  <2>3. StoreTypes'
      BY <1>1, <1>2, <1>5, <2>2 DEF StoreTypes
  <2>4. IssueInv'
      BY <1>1, <1>5, <2>2 DEF IssueInv
  <2>5. ViewsCounted'
      BY <1>1, <1>5, <2>1, <2>2 DEF ViewsCounted
  <2>6. CapHolds'
    <3>1. CASE t \notin issued /\ Cardinality(Present(files)) < Cap
      <4>1. Present(files') \subseteq Present(files) \cup {t}
          BY <2>2 DEF Present
      <4> QED
          BY <3>1, <4>1, CapRoom
    <3>2. CASE Loads(t)
      <4>1. Present(files') \subseteq Present(files)
          BY <2>2, <3>2 DEF Present, Loads
      <4> QED
          BY <4>1, CapKept DEF IInv
    <3> QED
        BY <1>5, <3>1, <3>2
  <2> QED
      BY <1>3, <2>3, <2>4, <2>5, <2>6 DEF StoreInv
<1> QED
    BY <1>4, <1>5 DEF Restart

LEMMA InitHolds == Init => IInv
<1> SUFFICES ASSUME Init PROVE IInv
    OBVIOUS
<1>1. GateTypes
    BY Bounds DEF Init, GateInit, GateTypes, NoHits
<1>2. HitsInv
  <2> SUFFICES ASSUME NEW b \in Buckets, NEW i \in Ips
               PROVE  /\ hits[b][i] \subseteq admitted[b][i]
                      /\ Within(admitted[b][i], Window) \subseteq hits[b][i]
                      /\ IsFiniteSet(hits[b][i]) /\ Cardinality(hits[b][i]) <= Limit[b]
      BY DEF HitsInv
  <2>1. hits[b][i] = {} /\ admitted[b][i] = {} /\ Limit[b] \in Nat
      BY Bounds DEF Init, GateInit, NoHits
  <2> QED
      BY <2>1, FS_EmptySet DEF Within
<1>3. KeysBounded
  <2> SUFFICES ASSUME NEW b \in Buckets PROVE Cardinality(Known(hits[b])) <= MaxKeys
      BY DEF KeysBounded
  <2>1. Known(hits[b]) = {}
      BY DEF Init, GateInit, NoHits, Known
  <2> QED
      BY <2>1, FS_EmptySet, Bounds
<1>4. GateOrder
    BY DEF Init, GateInit, GateOrder
<1>5. StoreTypes
  <2>1. NoFile \in File /\ [NoFile EXCEPT !.state = "ok", !.pin = TRUE] \in File
      BY DEF NoFile, File
  <2>2. shown \in [Tokens -> Nat] /\ faults \in [Tokens -> 0 .. MaxFaults]
      BY Bounds DEF Init
  <2>3. files \in [Tokens -> File]
      BY <2>1 DEF Init
  <2> QED
      BY <2>2, <2>3 DEF Init, StoreTypes, Present
<1>6. PinInv
  <2> SUFFICES ASSUME NEW t \in Spellings
               PROVE  /\ Within(wrong[t], PinWindow) \subseteq fails[t]
                      /\ IsFiniteSet(fails[t]) /\ Cardinality(fails[t]) <= MaxFailures
      BY DEF PinInv
  <2>1. fails[t] = {} /\ wrong[t] = {}
      BY DEF Init
  <2> QED
      BY <2>1, FS_EmptySet, Bounds DEF Within
<1>7. IssueInv /\ CapHolds
    BY DEF Init, IssueInv, CapHolds, Present
<1>8. ViewsCounted
  <2> SUFFICES ASSUME NEW t \in Tokens
               PROVE  files[t].views <= shown[t] /\ shown[t] <= files[t].views + faults[t]
      BY DEF ViewsCounted
  <2>1. files[t] \in {NoFile, [NoFile EXCEPT !.state = "ok", !.pin = TRUE]}
      BY DEF Init
  <2>2. files[t].views = 0
    <3>1. NoFile.views = 0 /\ [NoFile EXCEPT !.state = "ok", !.pin = TRUE].views = 0
        BY DEF NoFile
    <3> QED
        BY <2>1, <3>1, Zenon
  <2>3. shown[t] = 0 /\ faults[t] = 0
      BY DEF Init
  <2> QED
      BY <2>2, <2>3
<1> QED
    BY <1>1, <1>2, <1>3, <1>4, <1>5, <1>6, <1>7, <1>8 DEF IInv, GateInv, StoreInv

-----------------------------------------------------------------------------
(* Theorems.                                                               *)
LEMMA NextKeeps == IInv /\ [Next]_vars => IInv'
<1> SUFFICES ASSUME IInv, [Next]_vars PROVE IInv'
    OBVIOUS
<1>1. GateInv /\ StoreInv /\ now \in Nat
    BY Bounds DEF IInv, GateInv, GateTypes
<1>2. CASE GateStep /\ UNCHANGED <<storeVars, pinVars>>
  <2>1. now' = now \/ now' = now + 1
    <3>1. CASE ArriveAny
      <4>1. ASSUME NEW i, NEW p, NEW ws, NEW origin, NEW bearer, NEW over,
                   Arrive(i, p, ws, origin, bearer, over)
            PROVE  now' = now
          BY <4>1, Zenon DEF Arrive
      <4> QED
          BY <3>1, <4>1 DEF ArriveAny
    <3> QED
        BY <1>2, <3>1 DEF GateStep, Tick, LastChunk, BodyTooLarge
  <2> QED
      BY <1>1, <1>2, <2>1, GateStepKeeps, StoreStutters DEF IInv
<1>3. ASSUME NEW f \in flight, Share(f) \/ Manage(f) PROVE IInv'
  <2>1. \E P : Answers(f, P)
      BY <1>3 DEF Share, Manage
  <2> QED
      BY <1>1, <1>3, <2>1, GateKeeps, ShareKeeps, ManageKeeps DEF IInv
<1>4. ASSUME NEW f \in flight, Other(f) PROVE IInv'
  <2>1. (\E P : Answers(f, P)) /\ UNCHANGED <<storeVars, pinVars>> /\ now' = now
      BY <1>4 DEF Other, Answers
  <2> QED
      BY <1>1, <2>1, GateKeeps, StoreStutters DEF IInv
<1>5. CASE Restart
    BY <1>1, <1>5, GateKeeps, RestartKeeps DEF IInv, Restart
<1>6. CASE UNCHANGED vars
    BY <1>1, <1>6, GateKeeps, StoreStutters DEF IInv, vars, gateVars
<1> QED
    BY <1>2, <1>3, <1>4, <1>5, <1>6 DEF Next

\* The inductive invariant: the limiters' tables hold exactly the stamps that
\* count, and the store's files those that were issued (RateLimiter.allowed,
\* AttemptLimiter, ArtifactService).
THEOREM ShareInvariant == Spec => []IInv
    BY InitHolds, NextKeeps, PTL DEF Spec

\* The windows, the tables' sizes and the middlewares' order hold for any
\* limits, addresses and evictions (RateLimiter.allowed, create_app).
THEOREM ShareGateHolds == Spec => []GateHolds
<1>1. IInv => WindowLimit
  <2> SUFFICES ASSUME IInv, NEW b \in Buckets, NEW i \in Ips
               PROVE  Cardinality(Within(admitted[b][i], Window)) <= Limit[b]
      BY DEF WindowLimit
  <2>1. /\ Within(admitted[b][i], Window) \subseteq hits[b][i]
        /\ IsFiniteSet(hits[b][i]) /\ Cardinality(hits[b][i]) <= Limit[b]
      BY DEF IInv, GateInv, HitsInv
  <2>2. /\ Cardinality(Within(admitted[b][i], Window)) <= Cardinality(hits[b][i])
        /\ Cardinality(Within(admitted[b][i], Window)) \in Nat /\ Cardinality(hits[b][i]) \in Nat
      BY <2>1, FS_Subset, FS_CardinalityType
  <2>3. Limit[b] \in Nat
      BY Bounds
  <2> QED
      BY <2>1, <2>2, <2>3
<1>2. IInv => KeysBounded /\ GateOrder
    BY DEF IInv, GateInv
<1> QED
    BY ShareInvariant, <1>1, <1>2, PTL DEF GateHolds

\* Whoever is refused has used up his limit with requests that were let through
\* (RateLimiter.allowed).
THEOREM ShareRefusedOnlyWhenFull == Spec => RefusedOnlyWhenFull
<1>1. IInv /\ [Next]_vars =>
        [\A q \in sent' : q.code \in {"429", "4429"} /\ n' # n =>
            LET b == Bucket(q.path)
            IN Cardinality(Within(admitted[b][q.ip], Window)) >= Limit[b] ]_gateVars
  <2> SUFFICES ASSUME IInv, [Next]_vars, n' # n, NEW q \in sent', q.code \in {"429", "4429"}
               PROVE  Cardinality(Within(admitted[Bucket(q.path)][q.ip], Window)) >= Limit[Bucket(q.path)]
      OBVIOUS
  <2>1. ArriveAny
      BY DEF Next, GateStep, Tick, LastChunk, BodyTooLarge, Share, Manage, Other, Answers, Restart,
         GateRestart, vars, gateVars
  <2>2. GateInv
      BY DEF IInv
  <2> QED
      BY <2>1, <2>2, ArriveKeeps DEF ArriveAny
<1> QED
    BY ShareInvariant, <1>1, PTL DEF Spec, RefusedOnlyWhenFull

\* Types, the limit on wrong PINs, the view counts and the cap hold for any
\* tokens, faults and restarts (AttemptLimiter, ArtifactService).
THEOREM ShareStoreHolds == Spec => []StoreHolds
<1>1. IInv => TypeOK
    BY DEF IInv, GateInv, StoreInv, StoreTypes, TypeOK
<1>2. IInv => AttemptsBounded
  <2> SUFFICES ASSUME IInv, NEW t \in Spellings
               PROVE  Cardinality(Within(wrong[t], PinWindow)) <= MaxFailures
      BY DEF AttemptsBounded
  <2>1. /\ Within(wrong[t], PinWindow) \subseteq fails[t]
        /\ IsFiniteSet(fails[t]) /\ Cardinality(fails[t]) <= MaxFailures
      BY DEF IInv, StoreInv, PinInv
  <2>2. /\ Cardinality(Within(wrong[t], PinWindow)) <= Cardinality(fails[t])
        /\ Cardinality(Within(wrong[t], PinWindow)) \in Nat /\ Cardinality(fails[t]) \in Nat
      BY <2>1, FS_Subset, FS_CardinalityType
  <2> QED
      BY <2>1, <2>2, Bounds
<1>3. IInv => ViewsCounted /\ CapHolds
    BY DEF IInv, StoreInv
<1> QED
    BY ShareInvariant, <1>1, <1>2, <1>3, PTL DEF StoreHolds

-----------------------------------------------------------------------------
(* What a step does to one artifact.                                       *)

\* A file is as it should be, or a cause is on record.
LastsAt(t) ==
    /\ files[t].state = "ok" /\ files'[t].state # "ok" =>
          \/ Expired(files[t])
          \/ faults'[t] # faults[t]
          \/ \E f \in flight : Answers(f, {"artifacts"}) /\ Delete(t)
    /\ t \in issued /\ files[t].state # "ok" => files'[t].state # "ok"

LEMMA WritesGive ==
    ASSUME StoreTypes, NEW u \in Tokens, NEW store \in [Tokens -> File], NEW f \in File,
           Writes(u, store, f)
    PROVE  /\ \A t \in Tokens : t # u => files'[t] = store[t]
           /\ \/ files'[u] = f
              \/ faults'[u] # faults[u] /\ (files'[u] = store[u] \/ files'[u].state = "torn")
<1>1. TornFile.state = "torn"
    BY DEF TornFile, NoFile
<1>2. CASE files' = [store EXCEPT ![u] = f]
    BY <1>2
<1>3. CASE files' \in {store, [store EXCEPT ![u] = TornFile]} /\ faults' = [faults EXCEPT ![u] = @ + 1]
  <2>1. faults'[u] # faults[u]
      BY <1>3, Bounds DEF StoreTypes
  <2> QED
      BY <1>1, <1>3, <2>1
<1> QED
    BY <1>2, <1>3 DEF Writes

LEMMA ShowLasts ==
    ASSUME StoreTypes, NEW u \in Tokens, Loads(u), Show(u), NEW t \in Tokens
    PROVE  LastsAt(t)
<1> DEFINE f == [files[u] EXCEPT !.views = @ + 1]
<1>1. files[u].state = "ok" /\ files[u] \in File /\ Writes(u, files, f)
    BY DEF Loads, Show, StoreTypes
<1>2. f \in File /\ f.state = "ok"
    BY <1>1 DEF File
<1> HIDE DEF f
<1>3. /\ t # u => files'[t] = files[t]
      /\ \/ files'[u] = f
         \/ faults'[u] # faults[u] /\ (files'[u] = files[u] \/ files'[u].state = "torn")
    BY <1>1, <1>2, WritesGive DEF StoreTypes
<1> QED
    BY <1>1, <1>2, <1>3 DEF LastsAt

LEMMA PublishLasts ==
    ASSUME StoreTypes, NEW u \in Tokens, NEW pin \in BOOLEAN, NEW hours \in Lifetimes,
           Publish(u, pin, hours), now \in Nat, IssueInv, NEW t \in Tokens
    PROVE  LastsAt(t)
<1> DEFINE f == [state |-> "ok", pin |-> pin, views |-> 0,
                 expires |-> IF hours = 0 THEN 0 ELSE now + hours]
<1>1. f \in File
    BY Bounds DEF File
<1>2. u \notin issued /\ (files' = Collected \/ Writes(u, Collected, f))
    BY DEF Publish
<1> HIDE DEF f
<1>0. NoFile.state = "absent"
    BY DEF NoFile
<1>3. /\ Collected \in [Tokens -> File]
      /\ Collected[t] = files[t] \/ (Collected[t] = NoFile /\ Expired(files[t]))
    BY CollectedGives
<1>4. t # u => files'[t] = Collected[t]
    BY <1>1, <1>2, <1>3, WritesGive
<1>5. CASE t = u
    BY <1>2, <1>5 DEF IssueInv, LastsAt
<1>6. CASE t # u
    BY <1>0, <1>3, <1>4, <1>6 DEF LastsAt
<1> QED
    BY <1>5, <1>6

LEMMA StepLasts ==
    ASSUME IInv, [Next]_vars, NEW t \in Tokens
    PROVE  LastsAt(t)
<1>1. StoreTypes /\ IssueInv /\ now \in Nat /\ NoFile.state = "absent" /\ TornFile.state = "torn"
    BY Bounds DEF IInv, GateInv, GateTypes, StoreInv, NoFile, TornFile
<1>2. UNCHANGED storeVars => LastsAt(t)
    BY DEF LastsAt, storeVars
<1>3. ASSUME NEW f \in flight, Share(f) PROVE LastsAt(t)
  <2>1. ASSUME NEW u \in Tokens, ViewGone(u) PROVE LastsAt(t)
      BY <1>1, <2>1 DEF ViewGone, LastsAt, StoreTypes
  <2>2. ASSUME NEW u \in Tokens, ViewOpen(u) PROVE LastsAt(t)
      BY <1>1, <2>2, ShowLasts DEF ViewOpen
  <2>3. ASSUME NEW s \in Spellings, NEW pin \in {"none", "right", "wrong"}, ViewLocked(f.id, s, pin)
        PROVE  LastsAt(t)
    <3>1. FileOf[s] \in Tokens /\ (UNCHANGED storeVars \/ (Loads(FileOf[s]) /\ Show(FileOf[s])))
        BY <2>3, Bounds DEF ViewLocked, WrongPin
    <3> QED
        BY <1>1, <1>2, <3>1, ShowLasts
  <2>4. \A s \in Spellings : FileOf[s] \in Tokens
      BY Bounds
  <2> QED
      BY <1>3, <2>1, <2>2, <2>3, <2>4 DEF Share
<1>4. ASSUME NEW f \in flight, Manage(f) PROVE LastsAt(t)
  <2>1. CASE List
    <3>1. files'[t] = Collected[t]
        BY <2>1 DEF List
    <3> QED
        BY <1>1, <3>1, CollectedGives DEF LastsAt
  <2>2. ASSUME NEW u \in Tokens, Delete(u) PROVE LastsAt(t)
    <3>1. Answers(f, {"artifacts"})
        BY <1>4 DEF Manage
    <3>2. CASE u = t
      <4>1. files'[t] = NoFile
          BY <1>1, <2>2, <3>2 DEF Delete, StoreTypes
      <4> QED
          BY <1>1, <2>2, <3>1, <3>2, <4>1 DEF LastsAt
    <3>3. CASE u # t
      <4>1. files'[t] = files[t]
          BY <1>1, <2>2, <3>3 DEF Delete, StoreTypes
      <4> QED
          BY <4>1 DEF LastsAt
    <3> QED
        BY <3>2, <3>3
  <2>3. ASSUME NEW u \in Tokens, NEW pin \in BOOLEAN, NEW hours \in Lifetimes, Publish(u, pin, hours)
        PROVE  LastsAt(t)
      BY <1>1, <2>3, PublishLasts
  <2> QED
      BY <1>4, <2>1, <2>2, <2>3 DEF Manage
<1>5. CASE Restart
  <2>1. ASSUME NEW u \in Tokens, u \notin issued \/ Loads(u), faults' = [faults EXCEPT ![u] = @ + 1],
               files' = [files EXCEPT ![u] = TornFile]
        PROVE  LastsAt(t)
    <3>1. faults'[u] # faults[u]
        BY <1>1, <2>1, Bounds DEF StoreTypes
    <3> QED
        BY <1>1, <2>1, <3>1 DEF LastsAt, StoreTypes
  <2> QED
      BY <1>2, <1>5, <2>1 DEF Restart
<1>6. (\E f \in flight : Other(f)) \/ UNCHANGED vars => UNCHANGED storeVars
    BY DEF Other, vars
<1> QED
    BY <1>2, <1>3, <1>4, <1>5, <1>6 DEF Next

\* No artifact is lost without a cause or comes back, whatever is published,
\* viewed, deleted, collected and restarted (ArtifactService).
THEOREM ShareArtifactsLast == Spec => ArtifactsLast
<1>1. IInv /\ [Next]_vars => \A t \in Tokens : LastsAt(t)
    BY StepLasts
<1>2. IInv /\ [Next]_vars =>
        [\A t \in Tokens : files[t].state = "ok" /\ files'[t].state # "ok" =>
            \/ Expired(files[t])
            \/ faults'[t] # faults[t]
            \/ \E f \in flight : Answers(f, {"artifacts"}) /\ Delete(t) ]_vars
    BY <1>1 DEF LastsAt
<1>3. IInv /\ [Next]_vars =>
        [\A t \in Tokens : t \in issued /\ files[t].state # "ok" => files'[t].state # "ok"]_vars
    BY <1>1 DEF LastsAt
<1> QED
    BY ShareInvariant, <1>2, <1>3, PTL DEF Spec, ArtifactsLast, LossNeedsCause, GoneForGood
=============================================================================
