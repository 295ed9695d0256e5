----------------------------- MODULE AtomicUploads -----------------------------
(***************************************************************************)
(* What an upload of several files promises, without chunks, temporary     *)
(* files or limits: its names are looked at once, and its files then       *)
(* appear one by one, whole and in order.  It may end early, and whoever   *)
(* else changes the directory cannot come by a file of it before the first *)
(* of them is there.                                                       *)
(***************************************************************************)
EXTENDS Naturals, Sequences

CONSTANTS Paths, Uploads

VARIABLES
    taken,      \* the paths where there is something
    shown,      \* where each upload's files are
    phase,      \* how far each upload is
    batch,      \* the names of its files
    over,       \* may it replace what is there
    placed      \* the names it has put its files at

uploads == <<phase, batch, over, placed>>
vars == <<shown, uploads>>

Beginning(u, k) == {batch[u][j] : j \in DOMAIN batch[u] \cap (1 .. k)}
Move(u, from, to) == phase[u] = from /\ phase' = [phase EXCEPT ![u] = to]

Init ==
    /\ shown = [u \in Uploads |-> {}] /\ phase = [u \in Uploads |-> "idle"]
    /\ batch = [u \in Uploads |-> <<>>] /\ over = [u \in Uploads |-> FALSE]
    /\ placed = [u \in Uploads |-> {}]

Refuse(u) == Move(u, "idle", "refused") /\ UNCHANGED <<shown, batch, over, placed>>

\* No two files have one name, and unless they may replace it nothing is there.
Request(u) ==
    LET names == batch'[u] IN
    /\ Move(u, "idle", "open")
    /\ names \in Seq(Paths) /\ names # <<>>
    /\ \A j, k \in DOMAIN names : j # k => names[j] # names[k]
    /\ over'[u] \/ \A k \in DOMAIN names : names[k] \notin taken
    /\ batch' = [batch EXCEPT ![u] = names] /\ over' = [over EXCEPT ![u] = over'[u]]
    /\ UNCHANGED <<shown, placed>>

\* File k of the batch takes its place after the k - 1 before it.
Place(u) == \E k \in DOMAIN batch[u] :
    /\ phase[u] = "open" /\ placed[u] = Beginning(u, k - 1)
    /\ placed' = [placed EXCEPT ![u] = @ \cup {batch[u][k]}]
    /\ shown' = [v \in Uploads |-> IF v = u THEN shown[v] \cup {batch[u][k]}
                                   ELSE shown[v] \ {batch[u][k]}]
    /\ UNCHANGED <<phase, batch, over>>

Succeed(u) ==
    /\ Move(u, "open", "ok") /\ placed[u] = Beginning(u, Len(batch[u]))
    /\ UNCHANGED <<shown, batch, over, placed>>
Fail(u) == Move(u, "open", "failed") /\ UNCHANGED <<shown, batch, over, placed>>

\* The server dies.
Die ==
    /\ phase' = [u \in Uploads |-> IF phase[u] = "open" THEN "lost" ELSE phase[u]]
    /\ UNCHANGED <<shown, batch, over, placed>>

\* Somebody else deletes, overwrites or copies.
Elsewhere ==
    /\ DOMAIN shown' = Uploads
    /\ \A u \in Uploads : shown'[u] \subseteq shown[u] \/ placed[u] # {}
    /\ UNCHANGED uploads

Next ==
    \/ Elsewhere \/ Die
    \/ \E u \in Uploads : Refuse(u) \/ Request(u) \/ Place(u) \/ Succeed(u) \/ Fail(u)

Spec == Init /\ [][Next]_vars
=============================================================================
