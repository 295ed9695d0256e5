---------------------------- MODULE RequestGate ----------------------------
(***************************************************************************)
(* What every request meets before a route: RateLimitMiddleware of         *)
(* main.py with the RateLimiter of core/security.py, BearerTokenMiddleware *)
(* of core/auth.py and HttpBodyLimitMiddleware of core/middleware.py, in   *)
(* the order create_app nests them.                                        *)
(*                                                                         *)
(* The limiters live in memory and are updated without an await, so one    *)
(* step is one arrival.  A body then comes in chunks, between which other  *)
(* requests arrive, time passes and the server may restart.                *)
(***************************************************************************)
EXTENDS Naturals, FiniteSets

CONSTANTS
    Ips,          \* client addresses
    Paths,        \* the kinds of path in use
    Limit,        \* requests of an address in a window, by bucket
    Window,       \* RateLimiter.window_seconds
    MaxKeys,      \* RateLimiter.MAX_KEYS
    EvictSlice,   \* addresses evicted at once, 1000 in the code
    TokenSet,     \* is settings.ACCESS_TOKEN configured
    MaxRequests,  \* bound: requests
    MaxTime       \* bound: the clock

AllPaths == {"share", "health", "artifacts", "fs", "terminal", "llm", "upload", "proxy"}
Buckets  == {"default", "terminal", "llm", "upload", "proxy"}

ASSUME GateAssumption ==
    /\ IsFiniteSet(Ips)
    /\ Paths \subseteq AllPaths
    /\ Limit \in [Buckets -> Nat \ {0}]
    /\ Window \in Nat \ {0}
    /\ MaxKeys \in Nat /\ EvictSlice \in Nat \ {0}
    /\ TokenSet \in BOOLEAN
    /\ MaxRequests \in Nat /\ MaxTime \in Nat

VARIABLES
    now,       \* time.monotonic()
    n,         \* requests so far
    hits,      \* RateLimiter._hits of each bucket and address
    flight,    \* requests let through and not answered yet
    sent,      \* the refusal the last step sent
    admitted   \* stamps of the requests let through, until the address is forgotten

gateVars == <<now, n, hits, flight, sent, admitted>>

\* A stamp in a limiter's table: two requests of one instant are two stamps.
Stamp   == [id : 1 .. MaxRequests, t : 0 .. MaxTime]
Flight  == [id : 1 .. MaxRequests, path : Paths, bearer : BOOLEAN, phase : {"body", "route"}]
Refusal == [path : Paths, ip : Ips, bearer : BOOLEAN,
            code : {"429", "4429", "4403", "401", "4401", "413"}]

NoHits == [b \in Buckets |-> [i \in Ips |-> {}]]
GateInit ==
    /\ now = 0 /\ n = 0
    /\ hits = NoHits /\ admitted = NoHits
    /\ flight = {} /\ sent = {}

Bucket(path) == IF path \in {"terminal", "llm", "upload", "proxy"} THEN path ELSE "default"
Public(path) == path \in {"share", "health"}

\* The stamps of S that are still inside the window.
Within(S, window) == {s \in S : now - s.t < window}
Known(table) == {k \in DOMAIN table : table[k] # {}}
\* A table after the given number of its least active keys was dropped.
DropIdlest(table, count) ==
    { [k \in DOMAIN table |-> IF k \in gone THEN {} ELSE table[k]] :
      gone \in { g \in SUBSET Known(table) :
                 /\ Cardinality(g) = count
                 /\ \A i \in g, j \in Known(table) \ g :
                       \E s \in table[j] : \A r \in table[i] : r.t <= s.t } }

\* The end of RateLimiter.allowed: too many addresses lose the idlest slice.
Evicted(table) ==
    LET size == Cardinality(Known(table)) IN
    IF size <= MaxKeys THEN {table}
    ELSE DropIdlest(table, IF EvictSlice < size THEN EvictSlice ELSE size)

\* Variant of Allowed: a refused attempt leaves a stamp.
AllowedStampsAll(b, i, ok) ==
    LET fresh == Within(hits[b][i], Window) \cup {[id |-> n + 1, t |-> now]}
    IN /\ ok = (Cardinality(fresh) <= Limit[b])
       /\ hits' = [hits EXCEPT ![b][i] = fresh]
       /\ admitted' = IF ok THEN [admitted EXCEPT ![b][i] = fresh] ELSE admitted

\* RateLimiter.allowed for a bucket and an address, of which ok is the answer.
Allowed(b, i, ok) ==
    LET fresh == Within(hits[b][i], Window)
        stamp == [id |-> n + 1, t |-> now]
    IN IF Cardinality(fresh) >= Limit[b]
       THEN /\ ok = FALSE
            /\ hits' = [hits EXCEPT ![b][i] = fresh]
            /\ UNCHANGED admitted
       ELSE /\ ok = TRUE
            /\ \E table \in Evicted([hits[b] EXCEPT ![i] = fresh \cup {stamp}]) :
                  /\ hits' = [hits EXCEPT ![b] = table]
                  /\ admitted' = [admitted EXCEPT ![b] =
                        [k \in Ips |-> IF table[k] = {} THEN {}
                                       ELSE IF k = i THEN @[k] \cup {stamp} ELSE @[k]]]

\* Variant of Verdict: the body limit outside the authentication.
VerdictBodyFirst(path, ws, origin, bearer, over) ==
    IF ~ws /\ over THEN "413"
    ELSE IF ws /\ ~origin THEN "4403"
    ELSE IF TokenSet /\ ~Public(path) /\ ~bearer THEN (IF ws THEN "4401" ELSE "401")
    ELSE ""

\* What the two middlewares behind the limiter answer; "" lets the request in.
Verdict(path, ws, origin, bearer, over) ==
    IF ws /\ ~origin THEN "4403"
    ELSE IF TokenSet /\ ~Public(path) /\ ~bearer THEN (IF ws THEN "4401" ELSE "401")
    ELSE IF ~ws /\ over THEN "413"
    ELSE ""

Arrive(i, path, ws, origin, bearer, over) ==
    /\ n < MaxRequests
    /\ n' = n + 1
    /\ \E ok \in BOOLEAN :
          LET code == IF ~ok THEN (IF ws THEN "4429" ELSE "429")
                      ELSE Verdict(path, ws, origin, bearer, over)
          IN /\ Allowed(Bucket(path), i, ok)
             /\ IF code = ""
                THEN /\ flight' = flight \cup
                           {[id |-> n + 1, path |-> path, bearer |-> bearer,
                             phase |-> IF ws THEN "route" ELSE "body"]}
                     /\ sent' = {}
                ELSE /\ sent' = {[ip |-> i, path |-> path, bearer |-> bearer, code |-> code]}
                     /\ UNCHANGED flight
    /\ UNCHANGED now

\* limited_receive: the chunk that crosses MAX_HTTP_BODY_BYTES ends the request
\* before the application sees it.
BodyTooLarge(f) ==
    /\ f.phase = "body"
    /\ flight' = flight \ {f}
    /\ \E i \in Ips : sent' = {[ip |-> i, path |-> f.path, bearer |-> f.bearer, code |-> "413"]}
    /\ UNCHANGED <<now, n, hits, admitted>>

LastChunk(f) ==
    /\ f.phase = "body"
    /\ flight' = (flight \ {f}) \cup {[f EXCEPT !.phase = "route"]}
    /\ sent' = {}
    /\ UNCHANGED <<now, n, hits, admitted>>

Tick ==
    /\ now < MaxTime
    /\ now' = now + 1 /\ sent' = {}
    /\ UNCHANGED <<n, hits, flight, admitted>>

\* The limiters start empty, and what was in flight is lost.
GateRestart ==
    /\ hits' = NoHits /\ admitted' = NoHits
    /\ flight' = {} /\ sent' = {}
    /\ UNCHANGED <<now, n>>

\* The request reaches its route and is answered.
Answers(f, paths) ==
    /\ f.phase = "route" /\ f.path \in paths
    /\ flight' = flight \ {f} /\ sent' = {}
    /\ UNCHANGED <<now, n, hits, admitted>>

ArriveAny ==
    \E i \in Ips, p \in Paths, ws, origin, bearer, over \in BOOLEAN :
        /\ ws => p \in {"terminal", "llm"} /\ ~over
        /\ ~ws => origin
        /\ Public(p) => ~bearer
        /\ Arrive(i, p, ws, origin, bearer, over)

GateStep ==
    \/ Tick
    \/ ArriveAny
    \/ \E f \in flight : LastChunk(f) \/ BodyTooLarge(f)

(***************************************************************************)
(* Properties.                                                             *)
(***************************************************************************)
GateTypes ==
    /\ now \in 0 .. MaxTime /\ n \in 0 .. MaxRequests
    /\ hits \in [Buckets -> [Ips -> SUBSET Stamp]]
    /\ admitted \in [Buckets -> [Ips -> SUBSET Stamp]]
    /\ flight \subseteq Flight
    /\ sent \subseteq Refusal

\* In no stretch of Window does a bucket let more than Limit requests of an
\* address through, also while rejections, restarts and the eviction of other
\* addresses shuffle the table (RateLimiter.allowed).  An address the table
\* has forgotten starts anew.
WindowLimit == \A b \in Buckets, i \in Ips :
    Cardinality(Within(admitted[b][i], Window)) <= Limit[b]

\* The tables stay within MAX_KEYS addresses (RateLimiter.allowed).
KeysBounded == \A b \in Buckets : Cardinality(Known(hits[b])) <= MaxKeys

\* The middlewares answer in their order: who is told that a body is too large
\* was authorised, and nobody else has the application read a body of his
\* (create_app's comment on the order).
GateOrder == \A q \in flight \cup {s \in sent : s.code = "413"} :
    TokenSet /\ ~Public(q.path) => q.bearer

\* A refusal never feeds on itself: who is refused has used up his whole limit
\* with requests that were let through, so that he gets in again one window
\* after those however often he tries meanwhile (RateLimiter.allowed).
RefusedOnlyWhenFull == [][
    \A q \in sent' : q.code \in {"429", "4429"} /\ n' # n =>
        LET b == Bucket(q.path)
        IN Cardinality(Within(admitted[b][q.ip], Window)) >= Limit[b] ]_gateVars
\* What the gate promises at any moment.
GateHolds == WindowLimit /\ KeysBounded /\ GateOrder
=============================================================================
