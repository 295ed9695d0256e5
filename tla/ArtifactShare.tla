--------------------------- MODULE ArtifactShare ---------------------------
(***************************************************************************)
(* Published artifacts: ArtifactService of services/artifact_service.py,   *)
(* the /share route of main.py with its PIN limiter (AttemptLimiter of     *)
(* core/security.py) and the /artifacts routes, behind the RequestGate.    *)
(*                                                                         *)
(* A route runs without an await once its body is there, so a request is   *)
(* served in one step.  What a step can still lose is the file it writes:  *)
(* _write_private_json truncates first, and a full disk or a crash then    *)
(* leaves a file no reader can parse.                                      *)
(*                                                                         *)
(* _get_artifact_path drops what is no letter, digit, - or _ from the token *)
(* of a URL and cuts it at 128 characters: one file has many spellings.    *)
(* The PIN limiter is keyed by the spelling.                               *)
(***************************************************************************)
EXTENDS RequestGate

CONSTANTS
    Tokens,       \* share tokens, each issued once
    Spellings,    \* what a link may say for a token
    FileOf,       \* the token whose file a spelling opens
    Cap,          \* settings.ARTIFACT_MAX_COUNT
    Lifetimes,    \* hours an artifact is published for; 0 is for ever
    MaxFailures,  \* AttemptLimiter.max_failures
    PinWindow,    \* AttemptLimiter.window_seconds
    PinMaxKeys,   \* AttemptLimiter.MAX_KEYS
    MaxFaults     \* bound: writes of one file that fail

ASSUME ShareAssumption ==
    /\ IsFiniteSet(Tokens)
    /\ IsFiniteSet(Spellings) /\ Tokens \subseteq Spellings
    /\ FileOf \in [Spellings -> Tokens] /\ \A t \in Tokens : FileOf[t] = t
    /\ Cap \in Nat \ {0}
    /\ Lifetimes \subseteq Nat
    /\ MaxFailures \in Nat \ {0} /\ PinWindow \in Nat \ {0}
    /\ PinMaxKeys \in Nat \ {0} /\ MaxFaults \in Nat

VARIABLES
    files,   \* the artifact file of each token
    fails,   \* AttemptLimiter._failures: the stamps of wrong PINs
    issued,  \* tokens that were ever written
    shown,   \* times the content of each artifact was served
    faults,  \* writes of its file that failed
    wrong    \* wrong PINs compared since the limiter last forgot the spelling

storeVars == <<files, issued, shown, faults>>
pinVars   == <<fails, wrong>>
vars == <<gateVars, storeVars, pinVars>>

File == [state : {"absent", "torn", "ok"}, pin : BOOLEAN, expires : Nat, views : Nat]
NoFile   == [state |-> "absent", pin |-> FALSE, expires |-> 0, views |-> 0]
TornFile == [NoFile EXCEPT !.state = "torn"]

Present(fs) == {t \in Tokens : fs[t].state # "absent"}
\* Past expires_at, as _load_artifact and list_artifacts see it; _gc_expired
\* keeps a file one instant longer, which the clock does not tell apart.
Expired(f)  == f.state = "ok" /\ f.expires # 0 /\ now > f.expires
\* Variant: a collector that takes "no expiry" for an expiry in the past.
CollectedNoExpiry == [t \in Tokens |-> IF now > files[t].expires THEN NoFile ELSE files[t]]

Collected   == [t \in Tokens |-> IF Expired(files[t]) THEN NoFile ELSE files[t]]
\* _load_artifact finds an artifact.
Loads(t)    == files[t].state = "ok" /\ ~Expired(files[t])

\* The process starts on the files an earlier one left.
Init ==
    /\ GateInit
    /\ files \in [Tokens -> {NoFile, [NoFile EXCEPT !.state = "ok", !.pin = TRUE]}]
    /\ Cardinality(Present(files)) <= Cap
    /\ issued = Present(files)
    /\ shown = [t \in Tokens |-> 0] /\ faults = [t \in Tokens |-> 0]
    /\ fails = [s \in Spellings |-> {}] /\ wrong = [s \in Spellings |-> {}]

\* _write_private_json puts f at t into the store; or it cannot open the file;
\* or the disk is full, or the process dies, after it truncated the file.
Writes(t, store, f) ==
    \/ files' = [store EXCEPT ![t] = f] /\ UNCHANGED faults
    \/ /\ faults[t] < MaxFaults
       /\ files' \in {store, [store EXCEPT ![t] = TornFile]}
       /\ faults' = [faults EXCEPT ![t] = @ + 1]

Publish(t, pin, hours) ==
    /\ t \notin issued
    /\ IF Cardinality(Present(Collected)) >= Cap
       THEN files' = Collected /\ UNCHANGED <<issued, faults>>
       ELSE /\ Writes(t, Collected, [state |-> "ok", pin |-> pin, views |-> 0,
                                     expires |-> IF hours = 0 THEN 0 ELSE now + hours])
            /\ issued' = issued \cup {t}
    /\ UNCHANGED <<shown, pinVars>>

List ==
    /\ files' = Collected
    /\ UNCHANGED <<issued, shown, faults, pinVars>>

Delete(t) ==
    /\ files' = [files EXCEPT ![t] = NoFile]
    /\ UNCHANGED <<issued, shown, faults, pinVars>>

\* _prune, then _enforce_bounds: too many keys lose the lapsed ones, then the
\* idlest ones.
PinFresh(s) == Within(fails[s], PinWindow)
Bounded(table) ==
    LET active == [s \in Spellings |-> IF Within(table[s], PinWindow) = {} THEN {} ELSE table[s]]
        size == Cardinality(Known(active))
    IN IF Cardinality(Known(table)) <= PinMaxKeys THEN {table}
       ELSE IF size <= PinMaxKeys THEN {active}
       ELSE DropIdlest(active, size - PinMaxKeys)

\* record_failure for the request with this id.
WrongPin(id, s) ==
    LET stamp == [id |-> id, t |-> now] IN
    /\ fails' \in Bounded([fails EXCEPT ![s] = PinFresh(s) \cup {stamp}])
    /\ wrong' = [r \in Spellings |-> IF fails'[r] = {} THEN {}
                                     ELSE IF r = s THEN wrong[r] \cup {stamp} ELSE wrong[r]]

\* record_view rewrites the whole file for the count; a write that fails is
\* passed over and the content goes out all the same.
Show(t) ==
    /\ Writes(t, files, [files[t] EXCEPT !.views = @ + 1])
    /\ shown' = [shown EXCEPT ![t] = @ + 1]
    /\ UNCHANGED issued

ViewGone(t) ==
    /\ ~Loads(t)
    /\ files' = IF Expired(files[t]) THEN [files EXCEPT ![t] = NoFile] ELSE files
    /\ UNCHANGED <<issued, shown, faults, pinVars>>

ViewOpen(t) == Loads(t) /\ ~files[t].pin /\ Show(t) /\ UNCHANGED pinVars

\* Variant: one attempt too many.
ViewLockedOffByOne(id, s, pin) ==
    /\ Loads(FileOf[s]) /\ files[FileOf[s]].pin
    /\ Cardinality(PinFresh(s)) <= MaxFailures /\ pin = "wrong"
    /\ WrongPin(id, s) /\ UNCHANGED storeVars

\* _view_shared_artifact of an artifact with a PIN.
ViewLocked(id, s, pin) ==
    /\ Loads(FileOf[s]) /\ files[FileOf[s]].pin
    /\ IF Cardinality(PinFresh(s)) >= MaxFailures \/ pin = "none"
       THEN fails' = [fails EXCEPT ![s] = PinFresh(s)] /\ UNCHANGED <<wrong, storeVars>>
       ELSE IF pin = "wrong" THEN WrongPin(id, s) /\ UNCHANGED storeVars
       ELSE /\ fails' = [fails EXCEPT ![s] = {}]
            /\ wrong' = [wrong EXCEPT ![s] = {}]
            /\ Show(FileOf[s])

\* The process dies and starts again: the limiters are new and the files are
\* what the disk has.  A write it was in the middle of tears its file.
Restart ==
    /\ GateRestart
    /\ fails' = [s \in Spellings |-> {}] /\ wrong' = [s \in Spellings |-> {}]
    /\ \/ UNCHANGED storeVars
       \/ \E f \in flight, t \in Tokens :
             /\ f.phase = "route"
             /\ \/ f.path = "artifacts" /\ t \notin issued /\ Cardinality(Present(files)) < Cap
                \/ f.path = "share" /\ Loads(t)
             /\ faults[t] < MaxFaults
             /\ files' = [files EXCEPT ![t] = TornFile]
             /\ issued' = issued \cup {t}
             /\ faults' = [faults EXCEPT ![t] = @ + 1]
             /\ UNCHANGED shown

Share(f) ==
    /\ Answers(f, {"share"})
    /\ \E s \in Spellings :
          \/ ViewGone(FileOf[s])
          \/ ViewOpen(FileOf[s])
          \/ \E pin \in {"none", "right", "wrong"} : ViewLocked(f.id, s, pin)

Manage(f) ==
    /\ Answers(f, {"artifacts"})
    /\ \/ List
       \/ \E t \in Tokens :
             \/ Delete(t)
             \/ \E pin \in BOOLEAN, hours \in Lifetimes : Publish(t, pin, hours)

\* The routes that touch no artifact.
Other(f) == Answers(f, AllPaths \ {"share", "artifacts"}) /\ UNCHANGED <<storeVars, pinVars>>

Next ==
    \/ GateStep /\ UNCHANGED <<storeVars, pinVars>>
    \/ \E f \in flight : Share(f) \/ Manage(f) \/ Other(f)
    \/ Restart

Spec == Init /\ [][Next]_vars

(***************************************************************************)
(* Properties.                                                             *)
(***************************************************************************)
TypeOK ==
    /\ GateTypes
    /\ files \in [Tokens -> File] /\ issued \subseteq Tokens
    /\ shown \in [Tokens -> Nat] /\ faults \in [Tokens -> 0 .. MaxFaults]
    /\ fails \in [Spellings -> SUBSET Stamp] /\ wrong \in [Spellings -> SUBSET Stamp]

\* Under one spelling of a link no more than max_failures wrong PINs are compared
\* within PinWindow, whichever addresses they come from and whatever other links
\* are tried, short of a success, a restart or an eviction in between
\* (AttemptLimiter, _view_shared_artifact).
AttemptsBounded == \A s \in Spellings :
    Cardinality(Within(wrong[s], PinWindow)) <= MaxFailures

\* The view count an owner sees is the number of times the content was served,
\* but for the writes that failed (record_view).
ViewsCounted == \A t \in Tokens : files[t].state = "ok" =>
    /\ files[t].views <= shown[t]
    /\ shown[t] <= files[t].views + faults[t]

\* No more files than the cap, torn ones included, whatever crashes in between
\* (publish_artifact).
CapHolds == Cardinality(Present(files)) <= Cap

\* A readable artifact ends only by its expiry, its owner's delete or a write of
\* its own file that failed: no view, list or publication of another one, and
\* no restart, takes it (_gc_expired, list_artifacts, record_view).
LossNeedsCause == [][\A t \in Tokens : files[t].state = "ok" /\ files'[t].state # "ok" =>
    \/ Expired(files[t])
    \/ faults'[t] # faults[t]
    \/ \E f \in flight : Answers(f, {"artifacts"}) /\ Delete(t) ]_vars

\* An artifact that is gone stays gone: rewriting its file for a view never
\* brings it back (record_view, delete_artifact, the unlink of _load_artifact).
GoneForGood == [][\A t \in Tokens :
    t \in issued /\ files[t].state # "ok" => files'[t].state # "ok"]_vars
\* What the store promises at any moment, and what no step may do to it.
StoreHolds == TypeOK /\ AttemptsBounded /\ ViewsCounted /\ CapHolds
ArtifactsLast == LossNeedsCause /\ GoneForGood
=============================================================================
