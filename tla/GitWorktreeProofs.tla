--------------------------- MODULE GitWorktreeProofs ---------------------------
(***************************************************************************)
(* The files of a project and git on them, for any number of names,        *)
(* uploads, requests and failures: uploads land whole and in order, no git *)
(* operation touches what it was not asked about, and its answers are      *)
(* true.                                                                   *)
(***************************************************************************)
EXTENDS GitWorktree, FiniteSetTheorems, SequenceTheorems, TLAPS

-----------------------------------------------------------------------------
(* What an upload has done so far.                                         *)

UploadRecords ==
    [pc : {"idle", "reading", "closing"} \cup Ended, names : Seq(Paths), i : Nat,
     over : BOOLEAN, size : Nat, total : Nat,
     placed : SUBSET Paths, failed : BOOLEAN]

\* It has placed the first k files of its batch.
HasPlaced(r, k) == r.placed = {r.names[j] : j \in DOMAIN r.names \cap (1 .. k)}

\* File i is in place from its replace on, which is also when it is closed
\* without a failure.
UploadOK(r) ==
    /\ r \in UploadRecords
    /\ Len(r.names) <= MaxFiles /\ r.i <= Len(r.names) + 1 /\ r.total <= MaxTotal + 1
    /\ r.pc \in {"idle", "refused"} => r.names = <<>> /\ r.placed = {}
    /\ r.pc = "idle" => ~r.over
    /\ r.pc \in {"reading", "closing"} => r.i \in 1 .. Len(r.names)
    /\ r.pc = "reading" => ~r.failed
    /\ r.pc \in {"reading", "closing"} /\ ~r.failed => r.total <= MaxTotal
    /\ r.pc \in {"reading", "failed"} \/ (r.pc = "closing" /\ r.failed) => HasPlaced(r, r.i - 1)
    /\ r.pc = "closing" /\ ~r.failed => HasPlaced(r, r.i)
    /\ r.pc = "ok" => r.i = Len(r.names) + 1 /\ HasPlaced(r, Len(r.names))
    /\ r.pc = "lost" => HasPlaced(r, r.i - 1) \/ HasPlaced(r, r.i)

UploadInv == up \in [Uploads -> UploadRecords] /\ \A u \in Uploads : UploadOK(up[u])

TempsInv ==
    /\ temps \subseteq [up : Uploads, name : Paths]
    /\ \A t \in temps : up[t.up].pc \in {"reading", "closing", "lost"}
    /\ \A s, t \in temps : s.up = t.up => s = t

\* Half a file is nowhere, neither in the tree nor known to git, which tracks
\* no directory.
Whole   == Node \ {FileOf("part")}
Tracked == Whole \ {Folder}
TreeInv == tree \in [Paths -> Whole] /\ dir \in BOOLEAN
RepoInv ==
    /\ TreeInv
    /\ index \in [Paths -> Tracked \cup {Unmerged}]
    /\ head \in [Paths -> Tracked]

FilesInv == RepoInv /\ UploadInv /\ TempsInv

-----------------------------------------------------------------------------
(* What a git request is about.                                            *)

JobRecords ==
    [op : Op \cup {None}, pc : {"idle", "ready", "running", "done", "lost"},
     cmd : Command \cup {None}, asked : SUBSET Paths, args : SUBSET Paths, all : BOOLEAN,
     untracked : SUBSET Paths, clean : BOOLEAN, broken : BOOLEAN, errors : BOOLEAN, ok : BOOLEAN]

Active(r) == r.pc \in {"ready", "running"}

\* The commands of each operation.
Fits(r) ==
    \/ r.op = "stage" /\ r.cmd = "add"
    \/ r.op = "unstage" /\ r.cmd \in {"restore --staged", "reset"}
    \/ r.op = "commit" /\ (r.cmd = "commit" \/ (r.all /\ r.cmd = "add"))
    \/ r.op = "status" /\ r.cmd \in {"rev-parse", "status", "log"}
    \/ r.op = "discard" /\ r.cmd \in {"rev-parse", "status", "log", "restore", "checkout"}
    \/ r.op = "pull" /\ r.cmd = "pull"

JobOK(r) ==
    /\ r \in JobRecords
    /\ r.args \subseteq r.asked
    /\ r.pc = "idle" => r.op = None
    /\ Active(r) => Fits(r)
    /\ r.op = "discard" /\ Active(r) => r.args # {}
    /\ r.op # "discard" \/ (Active(r) /\ r.cmd \notin {"restore", "checkout"}) => r.args = r.asked
    /\ r.op \in {"commit", "status", "pull"} => r.asked = {}
    /\ r.op = "discard" => r.asked # {}

JobInv == job \in [Jobs -> JobRecords] /\ \A j \in Jobs : JobOK(job[j])

\* A node as git sees it: Work(p) is Seen(tree[p]).
Seen(n) == IF n.kind \in {"absent", "dir"} THEN Absent ELSE n

\* What a request knows of a path that nobody else has touched since, when n
\* is there, the index has i and HEAD has h.
Knows(r, p, n, i, h) ==
    /\ r.op = "stage" /\ r.pc = "done" /\ r.ok /\ (r.asked = {} \/ p \in r.asked) => i = Seen(n)
    /\ r.op = "unstage" /\ r.pc = "done" /\ r.ok /\ (r.asked = {} \/ p \in r.asked) => i = h
    /\ r.op = "discard" /\ Active(r) /\ r.cmd = "log" =>
          IF p \in r.untracked THEN i = Absent
          ELSE r.broken \/ i # Absent \/ Seen(n) = Absent
    /\ r.op = "discard" /\ Active(r) /\ r.cmd \in {"restore", "checkout"} /\ p \in r.args =>
          r.broken \/ i # Absent \/ Seen(n) = Absent
    /\ r.op = "discard" /\ p \in r.asked \ r.args => n.kind = "link" \/ i = Seen(n)
    /\ r.op = "discard" /\ r.pc = "done" /\ r.ok /\ p \in r.asked =>
          n.kind = "link" \/ i = Seen(n) \/ (r.broken /\ Matches[p] # {p})
    /\ r.op = "commit" /\ r.all /\ Active(r) /\ r.cmd = "commit" /\ ~r.errors => i = Seen(n)
    /\ r.op = "commit" /\ r.all /\ r.pc = "done" /\ r.ok /\ ~r.errors => i = Seen(n) /\ h = Seen(n)
    /\ r.op = "status" /\ r.clean /\ ~r.broken => i = Unmerged \/ i = Seen(n)

KnowsInv == \A j \in Jobs : \A p \in Paths \ touched[j] :
    Knows(job[j], p, tree[p], index[p], head[p])

TouchedInv == touched \in [Jobs -> SUBSET Paths] /\ faults \in Nat

LockInv == lock \in Jobs \cup {Nobody, Stale} /\ LockExplained

\* An upload that has put no file in place has its content nowhere.
OwnInv == \A u \in Uploads :
    up[u].placed # {} \/ \A p \in Paths : FileOf(u) \notin {tree[p], index[p], head[p]}

IInv == FilesInv /\ JobInv /\ TouchedInv /\ LockInv /\ KnowsInv /\ OwnInv

-----------------------------------------------------------------------------
(* What is at a path.                                                      *)

LEMMA Nodes ==
    /\ Absent \in Tracked /\ Folder \in Whole /\ Tracked \subseteq Whole /\ Whole \subseteq Node
    /\ \A c \in {"old", "new", "torn"} \cup Uploads : FileOf(c) \in Tracked
    /\ Absent # Folder /\ Unmerged \notin Node
    /\ \A n \in Whole : /\ n.kind = "absent" <=> n = Absent
                        /\ n.kind = "dir" <=> n = Folder
                        /\ n.kind = "link" => n.to \in Paths \cup {Outside}
<1>1. \A c \in {"old", "new", "torn"} \cup Uploads : FileOf(c) \in Node /\ FileOf(c) # FileOf("part")
    BY NamesAssumption DEF FileOf, Node, Content
<1>2. \A c : FileOf(c) # Folder /\ FileOf(c) # Absent
    BY DEF FileOf, Folder, Absent
<1>3. Absent \in Node /\ Folder \in Node /\ Absent # Folder
    BY DEF Node, Absent, Folder
<1>4. Unmerged \notin Node
    BY DEF Unmerged, Node, Absent, Folder, FileOf, LinkTo
<1>5. \A n \in Node : /\ n.kind = "absent" <=> n = Absent
                      /\ n.kind = "dir" <=> n = Folder
                      /\ n.kind = "link" => n.to \in Paths \cup {Outside}
    BY DEF Absent, Folder, FileOf, LinkTo, Node
<1> QED
    BY <1>1, <1>2, <1>3, <1>4, <1>5 DEF Whole, Tracked

\* A link leads to a path or out of the project.
LEMMA ResolveIsPath ==
    ASSUME TreeInv, NEW p \in Paths
    PROVE  /\ Inside(p) => Resolve(p) \in Paths
           /\ tree[p].kind # "link" => Inside(p) /\ Resolve(p) = p
<1>1. tree[p] \in Whole
    BY DEF TreeInv
<1> QED
    BY <1>1, Nodes, NamesAssumption DEF Inside, Resolve

LEMMA PutKeeps ==
    ASSUME TreeInv, NEW p \in Paths, NEW n \in Whole, Put(p, n)
    PROVE  tree' \in [Paths -> Whole]
    BY DEF TreeInv, Put

-----------------------------------------------------------------------------
(* Edits.                                                                  *)
LEMMA EditKeeps ==
    ASSUME TreeInv, FilesEdit
    PROVE  TreeInv' /\ up' = up /\ temps' \in {temps, {}}
<1>1. ASSUME NEW p \in Paths, Inside(p), WriteText(p)
      PROVE  TreeInv' /\ up' = up /\ temps' = temps
  <2>1. PICK c \in {"new", "torn"} : Put(Resolve(p), FileOf(c))
      BY <1>1 DEF WriteText
  <2>2. tree' \in [Paths -> Whole]
      BY <1>1, <2>1, ResolveIsPath, PutKeeps, Nodes
  <2> QED
      BY <1>1, <2>2 DEF WriteText, TreeInv
<1>2. ASSUME NEW p \in Paths, DeleteItem(p)
      PROVE  TreeInv' /\ up' = up /\ temps' = temps
  <2>1. tree' \in [Paths -> Whole]
      BY <1>2, ResolveIsPath, PutKeeps, Nodes DEF DeleteItem
  <2> QED
      BY <1>2, <2>1 DEF DeleteItem, TreeInv
<1>3. ASSUME NEW p \in Paths, NEW isDir \in BOOLEAN, CreateItem(p, isDir)
      PROVE  TreeInv' /\ up' = up /\ temps' = temps
  <2>1. tree' \in [Paths -> Whole]
    <3>1. CASE Exists(p)
        BY <1>3, <3>1 DEF CreateItem, TreeInv
    <3>2. CASE ~Exists(p)
        BY <1>3, <3>2, ResolveIsPath, PutKeeps, Nodes DEF CreateItem
    <3> QED
        BY <3>1, <3>2
  <2> QED
      BY <1>3, <2>1 DEF CreateItem, TreeInv
<1>4. CASE DeleteDirectory
    BY <1>4, Nodes DEF DeleteDirectory, TreeInv
<1> QED
    BY <1>1, <1>2, <1>3, <1>4 DEF FilesEdit, WriteFile, EditFile, IsKind

-----------------------------------------------------------------------------
(* Uploads.                                                                *)
LEMMA Limits == MaxFiles \in Nat /\ MaxChunks \in Nat /\ MaxTotal \in Nat
    BY FilesAssumption

LEMMA BatchIsSeq ==
    ASSUME NEW names \in Batches
    PROVE  names \in Seq(Paths) /\ DOMAIN names = 1 .. Len(names)
<1>1. PICK k \in 0 .. MaxFiles + 1 : names \in [1 .. k -> Paths]
    BY DEF Batches
<1>2. k \in Nat
    BY <1>1, Limits
<1> QED
    BY <1>1, <1>2

\* An upload and its temporary file take a step together.
LEMMA UploadMoves ==
    ASSUME UploadInv, TempsInv, NEW u \in Uploads, NEW r, UploadOK(r),
           up' = [up EXCEPT ![u] = r],
           temps' \subseteq temps \cup [up : {u}, name : Paths],
           \A s, t \in temps' : s.up = u /\ t.up = u => s = t,
           (\E t \in temps' : t.up = u) => r.pc \in {"reading", "closing", "lost"}
    PROVE  UploadInv' /\ TempsInv'
<1>1. r \in UploadRecords /\ up' \in [Uploads -> UploadRecords]
      /\ \A v \in Uploads : up'[v] = IF v = u THEN r ELSE up[v]
    BY DEF UploadInv, UploadOK
<1>2. UploadInv'
    BY <1>1 DEF UploadInv
<1>3. temps' \subseteq [up : Uploads, name : Paths]
    BY DEF TempsInv
<1>4. \A t \in temps' : t.up # u => t \in temps
    OBVIOUS
<1>5. \A t \in temps' : up'[t.up].pc \in {"reading", "closing", "lost"}
    BY <1>1, <1>3, <1>4 DEF TempsInv
<1>6. \A s, t \in temps' : s.up = t.up => s = t
    BY <1>4 DEF TempsInv
<1> QED
    BY <1>2, <1>3, <1>5, <1>6 DEF TempsInv

\* The next file of a batch is begun, or it is over.
LEMMA OpenKeeps ==
    ASSUME UploadInv, TempsInv, NEW u \in Uploads, NEW r \in UploadRecords, NEW old \in SUBSET temps,
           ~r.failed, Len(r.names) <= MaxFiles, r.i \in 1 .. Len(r.names) + 1, r.total <= MaxTotal,
           HasPlaced(r, r.i - 1),
           \A t \in old : t.up # u, OpenNext(u, r, old)
    PROVE  /\ UploadInv' /\ TempsInv'
           /\ \E q \in UploadRecords :
                /\ up' = [up EXCEPT ![u] = q]
                /\ q.names = r.names /\ q.over = r.over /\ q.placed = r.placed
                /\ PhaseOf(q) = IF r.i > Len(r.names) THEN "ok" ELSE "open"
<1>0. Len(r.names) \in Nat /\ DOMAIN r.names = 1 .. Len(r.names) /\ r.names \in Seq(Paths)
      /\ r.i \in Nat /\ r.total \in Nat
    BY LenProperties DEF UploadRecords
<1>1. CASE r.i > Len(r.names)
  <2> DEFINE q == [r EXCEPT !.pc = "ok"]
  <2>1. q \in UploadRecords /\ q.pc = "ok" /\ q.placed = r.placed
        /\ q.names = r.names /\ q.i = r.i /\ q.total = r.total /\ q.over = r.over
      BY DEF UploadRecords, Ended
  <2>2. up' = [up EXCEPT ![u] = q] /\ temps' = old
      BY <1>1 DEF OpenNext
  <2> HIDE DEF q
  <2>3. HasPlaced(q, Len(q.names)) /\ q.i = Len(q.names) + 1
      BY <1>0, <1>1, <2>1 DEF HasPlaced
  <2>4. UploadOK(q)
      BY <1>0, <2>1, <2>3, Limits DEF UploadOK
  <2>5. UploadInv' /\ TempsInv'
      BY <2>2, <2>4, UploadMoves
  <2> QED
      BY <1>0, <1>1, <2>1, <2>2, <2>5 DEF PhaseOf
<1>2. CASE r.i <= Len(r.names) /\ dir
  <2> DEFINE q == [r EXCEPT !.pc = "reading", !.size = 0]
             n == [up |-> u, name |-> r.names[r.i]]
  <2>1. q \in UploadRecords /\ q.pc = "reading" /\ q.placed = r.placed /\ q.failed = r.failed
        /\ q.names = r.names /\ q.i = r.i /\ q.total = r.total /\ q.over = r.over
      BY DEF UploadRecords
  <2>2. up' = [up EXCEPT ![u] = q] /\ temps' = old \cup {n}
      BY <1>0, <1>2 DEF OpenNext
  <2>3. n \in [up : {u}, name : Paths]
      BY <1>0, <1>2, ElementOfSeq
  <2> HIDE DEF q, n
  <2>4. UploadOK(q)
      BY <1>0, <1>2, <2>1, Limits DEF UploadOK, HasPlaced
  <2>t. temps' \subseteq temps \cup [up : {u}, name : Paths]
        /\ \A s \in temps' : s.up = u => s = n
      BY <2>2, <2>3
  <2>5. UploadInv' /\ TempsInv'
      BY <2>1, <2>2, <2>4, <2>t, UploadMoves
  <2>6. PhaseOf(q) = "open" /\ ~(r.i > Len(r.names))
      BY <1>0, <1>2, <2>1 DEF PhaseOf
  <2> QED
      BY <2>1, <2>2, <2>5, <2>6
<1>3. CASE r.i <= Len(r.names) /\ ~dir
  <2> DEFINE q == [r EXCEPT !.pc = "closing", !.failed = TRUE]
  <2>1. q \in UploadRecords /\ q.pc = "closing" /\ q.placed = r.placed /\ q.failed = TRUE
        /\ q.names = r.names /\ q.i = r.i /\ q.total = r.total /\ q.over = r.over
      BY DEF UploadRecords
  <2>2. up' = [up EXCEPT ![u] = q] /\ temps' = old
      BY <1>0, <1>3 DEF OpenNext
  <2> HIDE DEF q
  <2>4. UploadOK(q)
      BY <1>0, <1>3, <2>1, Limits DEF UploadOK, HasPlaced
  <2>5. UploadInv' /\ TempsInv'
      BY <2>2, <2>4, UploadMoves
  <2>6. PhaseOf(q) = "open" /\ ~(r.i > Len(r.names))
      BY <1>0, <1>3, <2>1 DEF PhaseOf
  <2> QED
      BY <2>1, <2>2, <2>5, <2>6
<1> QED
    BY <1>0, <1>1, <1>2, <1>3 DEF UploadRecords

\* An upload goes on as AtomicUploads says.
Goes ==
    /\ \A u \in Uploads : up[u].placed \subseteq up'[u].placed
    /\ [Atomic!Next]_(Atomic!vars)

LEMMA OneMoves ==
    ASSUME NEW u \in Uploads, \A v \in Uploads : v # u => up'[v] = up[v]
    PROVE  /\ Phase' = [Phase EXCEPT ![u] = PhaseOf(up'[u])] /\ Batch' = [Batch EXCEPT ![u] = up'[u].names]
           /\ Over' = [Over EXCEPT ![u] = up'[u].over] /\ Placed' = [Placed EXCEPT ![u] = up'[u].placed]
<1>1. Phase' = [Phase EXCEPT ![u] = PhaseOf(up'[u])]
    BY DEF Phase, PhaseOf
<1>2. Batch' = [Batch EXCEPT ![u] = up'[u].names]
    BY DEF Batch
<1>3. Over' = [Over EXCEPT ![u] = up'[u].over]
    BY DEF Over
<1>4. Placed' = [Placed EXCEPT ![u] = up'[u].placed]
    BY DEF Placed
<1> QED
    BY <1>1, <1>2, <1>3, <1>4

LEMMA SeenAs ==
    ASSUME UploadInv, NEW u \in Uploads, NEW q, up' = [up EXCEPT ![u] = q]
    PROVE  /\ Phase' = [Phase EXCEPT ![u] = PhaseOf(q)] /\ Batch' = [Batch EXCEPT ![u] = q.names]
           /\ Over' = [Over EXCEPT ![u] = q.over] /\ Placed' = [Placed EXCEPT ![u] = q.placed]
           /\ Phase[u] = PhaseOf(up[u]) /\ Batch[u] = up[u].names
           /\ Over[u] = up[u].over /\ Placed[u] = up[u].placed
           /\ up'[u] = q /\ \A v \in Uploads : v # u => up'[v] = up[v]
           /\ tree' = tree => Shown' = Shown
<1>1. up'[u] = q /\ \A v \in Uploads : v # u => up'[v] = up[v]
    BY DEF UploadInv
<1>2. /\ Phase' = [Phase EXCEPT ![u] = PhaseOf(up'[u])] /\ Batch' = [Batch EXCEPT ![u] = up'[u].names]
      /\ Over' = [Over EXCEPT ![u] = up'[u].over] /\ Placed' = [Placed EXCEPT ![u] = up'[u].placed]
    BY <1>1, OneMoves
<1>3. /\ Phase[u] = PhaseOf(up[u]) /\ Batch[u] = up[u].names
      /\ Over[u] = up[u].over /\ Placed[u] = up[u].placed
    BY DEF Phase, Batch, Over, Placed
<1>4. tree' = tree => Shown' = Shown
    BY DEF Shown
<1> QED
    BY <1>1, <1>2, <1>3, <1>4

\* What AtomicUploads does not see of an upload.
LEMMA Unseen ==
    ASSUME UploadInv, NEW u \in Uploads, NEW q, up' = [up EXCEPT ![u] = q], tree' = tree,
           PhaseOf(q) = PhaseOf(up[u]), q.names = up[u].names, q.over = up[u].over,
           q.placed = up[u].placed
    PROVE  Goes
<1>0. /\ Phase' = [Phase EXCEPT ![u] = PhaseOf(q)] /\ Batch' = [Batch EXCEPT ![u] = q.names]
      /\ Over' = [Over EXCEPT ![u] = q.over] /\ Placed' = [Placed EXCEPT ![u] = q.placed]
      /\ Phase[u] = PhaseOf(up[u]) /\ Batch[u] = up[u].names
      /\ Over[u] = up[u].over /\ Placed[u] = up[u].placed
      /\ up'[u] = q /\ \A v \in Uploads : v # u => up'[v] = up[v]
      /\ tree' = tree => Shown' = Shown
    BY SeenAs
<1>1. UNCHANGED <<Shown, Phase, Batch, Over, Placed>>
    BY <1>0 DEF Phase, Batch, Over, Placed
<1>2. \A v \in Uploads : up[v].placed \subseteq up'[v].placed
    BY <1>0
<1> QED
    BY <1>1, <1>2 DEF Goes, Atomic!vars, Atomic!uploads

\* An upload that is refused, succeeds or fails.
LEMMA PhaseOnly ==
    ASSUME UploadInv, NEW u \in Uploads, NEW q, up' = [up EXCEPT ![u] = q], tree' = tree,
           q.names = up[u].names, q.over = up[u].over, q.placed = up[u].placed,
           \/ up[u].pc = "idle" /\ q.pc = "refused"
           \/ up[u].pc \in {"reading", "closing"} /\ q.pc = "failed"
           \/ /\ up[u].pc \in {"reading", "closing"} /\ q.pc = "ok"
              /\ HasPlaced(up[u], Len(up[u].names))
    PROVE  Goes
<1>0. /\ Phase' = [Phase EXCEPT ![u] = PhaseOf(q)] /\ Batch' = [Batch EXCEPT ![u] = q.names]
      /\ Over' = [Over EXCEPT ![u] = q.over] /\ Placed' = [Placed EXCEPT ![u] = q.placed]
      /\ Phase[u] = PhaseOf(up[u]) /\ Batch[u] = up[u].names
      /\ Over[u] = up[u].over /\ Placed[u] = up[u].placed
      /\ up'[u] = q /\ \A v \in Uploads : v # u => up'[v] = up[v]
      /\ tree' = tree => Shown' = Shown
    BY SeenAs
<1>1. /\ UNCHANGED <<Shown, Batch, Over, Placed>>
      /\ \A v \in Uploads : up[v].placed \subseteq up'[v].placed
    BY <1>0 DEF Batch, Over, Placed
<1>2. Phase' = [Phase EXCEPT ![u] = PhaseOf(q)] /\ Phase[u] = PhaseOf(up[u])
    BY <1>0
<1>3. CASE up[u].pc = "idle" /\ q.pc = "refused"
  <2>1. Atomic!Refuse(u)
      BY <1>1, <1>2, <1>3 DEF Atomic!Refuse, Atomic!Move, PhaseOf
  <2> QED
      BY <1>1, <2>1 DEF Goes, Atomic!Next
<1>4. CASE up[u].pc \in {"reading", "closing"} /\ q.pc = "failed"
  <2>1. Atomic!Fail(u)
      BY <1>1, <1>2, <1>4 DEF Atomic!Fail, Atomic!Move, PhaseOf
  <2> QED
      BY <1>1, <2>1 DEF Goes, Atomic!Next
<1>5. CASE /\ up[u].pc \in {"reading", "closing"} /\ q.pc = "ok"
           /\ HasPlaced(up[u], Len(up[u].names))
  <2>1. Placed[u] = Atomic!Beginning(u, Len(Batch[u]))
      BY <1>5 DEF HasPlaced, Atomic!Beginning, Placed, Batch
  <2>2. Atomic!Succeed(u)
      BY <1>1, <1>2, <1>5, <2>1 DEF Atomic!Succeed, Atomic!Move, PhaseOf
  <2> QED
      BY <1>1, <2>2 DEF Goes, Atomic!Next
<1> QED
    BY <1>3, <1>4, <1>5

LEMMA StartKeeps ==
    ASSUME UploadInv, TempsInv, NEW u \in Uploads, NEW names \in Batches, NEW over \in BOOLEAN,
           UploadStart(u, names, over)
    PROVE  UploadInv' /\ TempsInv' /\ Goes /\ UNCHANGED <<tree, dir>>
<1> DEFINE used == {names[k] : k \in DOMAIN names}
           r == [NoUpload EXCEPT !.names = names, !.i = 1, !.over = over]
<1>0. /\ up[u] \in UploadRecords /\ UploadOK(up[u]) /\ up[u].pc = "idle" /\ UNCHANGED <<tree, dir>>
      /\ \A t \in temps : t.up # u
    BY DEF UploadStart, UploadInv, TempsInv
<1>1. CASE up' = [up EXCEPT ![u].pc = "refused"] /\ UNCHANGED temps
  <2> DEFINE q == [up[u] EXCEPT !.pc = "refused"]
  <2>1. q \in UploadRecords /\ q.pc = "refused" /\ q.placed = up[u].placed /\ q.failed = up[u].failed
        /\ q.names = up[u].names /\ q.i = up[u].i /\ q.total = up[u].total /\ q.over = up[u].over
      BY <1>0 DEF UploadRecords, Ended
  <2>2. up' = [up EXCEPT ![u] = q]
      BY <1>1 DEF UploadInv
  <2> HIDE DEF q
  <2>3. UploadOK(q)
      BY <1>0, <2>1 DEF UploadOK
  <2>4. UploadInv' /\ TempsInv'
      BY <1>0, <1>1, <2>2, <2>3, UploadMoves
  <2>5. Goes
      BY <1>0, <2>1, <2>2, PhaseOnly
  <2> QED
      BY <1>0, <2>4, <2>5
<1>2. CASE /\ ~(names = <<>> \/ Len(names) > MaxFiles \/ Cardinality(used) < Len(names))
           /\ over \/ ~\E p \in used : Exists(p)
           /\ OpenNext(u, r, temps)
  <2>1. names \in Seq(Paths) /\ DOMAIN names = 1 .. Len(names) /\ Len(names) \in Nat
      BY BatchIsSeq, LenProperties
  <2>2. /\ r \in UploadRecords /\ r.names = names /\ r.i = 1 /\ r.over = over
        /\ r.total = 0 /\ r.placed = {} /\ ~r.failed
      BY <2>1 DEF UploadRecords, NoUpload
  <2>3. over \/ \A k \in DOMAIN names : names[k] \notin Taken
      BY <1>2 DEF Taken
  <2>4. OpenNext(u, r, temps)
      BY <1>2
  <2>5. Len(names) <= MaxFiles /\ names # <<>> /\ Len(names) >= 1
      BY <1>2, <2>1, Limits, EmptySeq
  <2>d. \A j, k \in DOMAIN names : j # k => names[j] # names[k]
    <3> DEFINE n == Len(names)
    <3>1. names \in Surjection(1 .. n, used)
        BY <2>1 DEF Surjection
    <3>0. n \in Int /\ 1 \in Int /\ ~(1 > n) /\ n - 1 + 1 = n
        BY <2>1, <2>5
    <3> HIDE DEF n
    <3>2. IsFiniteSet(1 .. n) /\ Cardinality(1 .. n) = n
        BY <3>0, FS_Interval
    <3>3. Cardinality(used) \in Nat /\ Cardinality(used) <= n
        BY <3>1, <3>2, FS_Surjection, FS_CardinalityType
    <3>4. Cardinality(used) = n
        BY <1>2, <2>1, <3>3 DEF n
    <3>5. names \in Injection(1 .. n, used)
        BY <3>1, <3>2, <3>4, FS_Surjection
    <3> QED
        BY <2>1, <3>5 DEF Injection, IsInjective, n
  <2> HIDE DEF r, used
  <2>6. HasPlaced(r, r.i - 1)
      BY <2>2 DEF HasPlaced
  <2>7. /\ UploadInv' /\ TempsInv'
        /\ \E q \in UploadRecords :
              /\ up' = [up EXCEPT ![u] = q]
              /\ q.names = names /\ q.over = over /\ q.placed = {} /\ PhaseOf(q) = "open"
      BY <1>0, <2>1, <2>2, <2>4, <2>5, <2>6, OpenKeeps, Limits
  <2>8. PICK q \in UploadRecords :
              /\ up' = [up EXCEPT ![u] = q]
              /\ q.names = names /\ q.over = over /\ q.placed = {} /\ PhaseOf(q) = "open"
      BY <2>7
  <2>9. up[u].placed = {} /\ ~up[u].over
      BY <1>0 DEF UploadOK
  <2>10. /\ Phase' = [Phase EXCEPT ![u] = "open"] /\ Batch' = [Batch EXCEPT ![u] = names]
         /\ Over' = [Over EXCEPT ![u] = over] /\ UNCHANGED <<Shown, Placed>>
         /\ Phase[u] = "idle" /\ Batch'[u] = names /\ Over'[u] = over
         /\ \A v \in Uploads : up[v].placed \subseteq up'[v].placed
    <3>0. /\ Phase' = [Phase EXCEPT ![u] = PhaseOf(q)] /\ Batch' = [Batch EXCEPT ![u] = q.names]
          /\ Over' = [Over EXCEPT ![u] = q.over] /\ Placed' = [Placed EXCEPT ![u] = q.placed]
          /\ Phase[u] = PhaseOf(up[u]) /\ Batch[u] = up[u].names
          /\ Over[u] = up[u].over /\ Placed[u] = up[u].placed
          /\ up'[u] = q /\ \A v \in Uploads : v # u => up'[v] = up[v]
          /\ tree' = tree => Shown' = Shown
        BY <2>8, SeenAs
    <3>1. /\ Phase' = [Phase EXCEPT ![u] = "open"] /\ Batch' = [Batch EXCEPT ![u] = names]
          /\ Over' = [Over EXCEPT ![u] = over] /\ Placed' = [Placed EXCEPT ![u] = {}]
          /\ Shown' = Shown /\ Phase[u] = PhaseOf(up[u]) /\ Placed[u] = up[u].placed
          /\ up'[u] = q /\ \A v \in Uploads : v # u => up'[v] = up[v]
        BY <1>0, <2>8, <3>0
    <3>2. Placed' = Placed
        BY <2>9, <3>1 DEF Placed
    <3>3. Batch'[u] = names /\ Over'[u] = over
        BY <2>8, <3>1 DEF Batch, Over
    <3> QED
        BY <1>0, <2>9, <3>1, <3>2, <3>3 DEF PhaseOf
  <2>11. Atomic!Request(u)
      BY <2>1, <2>3, <2>5, <2>d, <2>10 DEF Atomic!Request, Atomic!Move
  <2> QED
      BY <1>0, <2>7, <2>10, <2>11 DEF Goes, Atomic!Next
<1> QED
    BY <1>1, <1>2 DEF UploadStart

LEMMA ReadKeeps ==
    ASSUME UploadInv, TempsInv, NEW u \in Uploads, ReadChunk(u)
    PROVE  UploadInv' /\ TempsInv' /\ Goes /\ UNCHANGED <<tree, dir>>
<1>0. up[u] \in UploadRecords /\ UploadOK(up[u]) /\ up[u].pc = "reading" /\ UNCHANGED <<tree, dir, temps>>
    BY DEF ReadChunk, UploadInv
<1>1. PICK full \in BOOLEAN :
          LET over == up[u].size + 1 > MaxChunks \/ up[u].total + 1 > MaxTotal
          IN up' = [up EXCEPT ![u].size = @ + 1, ![u].total = @ + 1,
                              ![u].pc = IF over \/ full THEN "closing" ELSE @,
                              ![u].failed = over \/ full]
    BY DEF ReadChunk
<1> DEFINE stop == up[u].size + 1 > MaxChunks \/ up[u].total + 1 > MaxTotal \/ full
           q == [up[u] EXCEPT !.size = @ + 1, !.total = @ + 1,
                              !.pc = IF stop THEN "closing" ELSE @, !.failed = stop]
<1>2. up' = [up EXCEPT ![u] = q]
    BY <1>1 DEF UploadInv
<1>3. up[u].size \in Nat /\ up[u].total \in Nat /\ stop \in BOOLEAN
    BY <1>0 DEF UploadRecords
<1>4. ~stop => up[u].total + 1 <= MaxTotal
    BY <1>3, Limits
<1> HIDE DEF stop
<1>5. /\ q \in UploadRecords /\ q.names = up[u].names /\ q.i = up[u].i /\ q.over = up[u].over
      /\ q.placed = up[u].placed /\ q.total = up[u].total + 1
      /\ q.pc = (IF stop THEN "closing" ELSE "reading") /\ q.failed = stop
  <2> DEFINE s1 == up[u].size + 1
             t1 == up[u].total + 1
  <2>1. CASE stop = TRUE
    <3> DEFINE c == [up[u] EXCEPT !.size = s1, !.total = t1, !.pc = "closing", !.failed = TRUE]
    <3>1. q = c
        BY <1>0, <2>1 DEF UploadRecords
    <3>2. s1 \in Nat /\ t1 \in Nat
        BY <1>3
    <3> HIDE DEF q, s1, t1
    <3>3. c \in UploadRecords
        BY <1>0, <3>2 DEF UploadRecords
    <3>4. /\ c.names = up[u].names /\ c.i = up[u].i /\ c.over = up[u].over
          /\ c.placed = up[u].placed /\ c.total = t1 /\ c.pc = "closing" /\ c.failed = TRUE
        BY <1>0 DEF UploadRecords
    <3> HIDE DEF c
    <3> QED
        BY <2>1, <3>1, <3>3, <3>4 DEF t1
  <2>2. CASE stop = FALSE
    <3> DEFINE c == [up[u] EXCEPT !.size = s1, !.total = t1, !.failed = FALSE]
    <3>1. q = c
        BY <1>0, <2>2 DEF UploadRecords
    <3>2. s1 \in Nat /\ t1 \in Nat
        BY <1>3
    <3> HIDE DEF q, s1, t1
    <3>3. c \in UploadRecords
        BY <1>0, <3>2 DEF UploadRecords
    <3>4. /\ c.names = up[u].names /\ c.i = up[u].i /\ c.over = up[u].over
          /\ c.placed = up[u].placed /\ c.total = t1 /\ c.pc = "reading" /\ c.failed = FALSE
        BY <1>0 DEF UploadRecords
    <3> HIDE DEF c
    <3> QED
        BY <2>2, <3>1, <3>3, <3>4 DEF t1
  <2> QED
      BY <1>3, <2>1, <2>2
<1> HIDE DEF q
<1>6. UploadOK(q)
  <2>0. up[u].total <= MaxTotal /\ HasPlaced(up[u], up[u].i - 1) /\ up[u].i \in 1 .. Len(up[u].names)
        /\ Len(up[u].names) <= MaxFiles /\ up[u].i <= Len(up[u].names) + 1
      BY <1>0 DEF UploadOK
  <2>h. HasPlaced(q, q.i - 1)
      BY <2>0, <1>5 DEF HasPlaced
  <2>1. CASE stop
    <3>1. q.pc = "closing" /\ q.failed = TRUE /\ q.total <= MaxTotal + 1
        BY <1>3, <1>5, <2>0, <2>1, Limits
    <3> QED
        BY <1>5, <2>0, <2>h, <3>1 DEF UploadOK
  <2>2. CASE ~stop
    <3>1. q.pc = "reading" /\ q.failed = FALSE /\ q.total <= MaxTotal
        BY <1>3, <1>4, <1>5, <2>2
    <3>2. q.total <= MaxTotal + 1
        BY <1>3, <1>5, <3>1, Limits
    <3> QED
        BY <1>5, <2>0, <2>h, <3>1, <3>2 DEF UploadOK
  <2> QED
      BY <2>1, <2>2
<1>7. UploadInv' /\ TempsInv'
  <2>1. q.pc \in {"reading", "closing", "lost"}
      BY <1>5
  <2>2. \A s, t \in temps' : s.up = u /\ t.up = u => s = t
      BY <1>0 DEF TempsInv
  <2> QED
      BY <1>0, <1>2, <1>6, <2>1, <2>2, UploadMoves
<1>8. Goes
    BY <1>0, <1>2, <1>5, Unseen DEF PhaseOf
<1> QED
    BY <1>0, <1>7, <1>8

LEMMA ReplaceKeeps ==
    ASSUME UploadInv, TempsInv, TreeInv, NEW u \in Uploads, Replace(u)
    PROVE  UploadInv' /\ TempsInv' /\ TreeInv' /\ Goes
<1> DEFINE i == up[u].i
           p == up[u].names[i]
<1>0. /\ up[u] \in UploadRecords /\ UploadOK(up[u]) /\ up[u].pc = "reading" /\ dir' = dir
      /\ i \in DOMAIN up[u].names /\ i \in 1 .. Len(up[u].names) /\ p \in Paths
      /\ DOMAIN up[u].names = 1 .. Len(up[u].names) /\ Len(up[u].names) \in Nat
  <2>1. up[u] \in UploadRecords /\ UploadOK(up[u]) /\ up[u].pc = "reading" /\ dir' = dir
      BY DEF Replace, UploadInv
  <2>2. up[u].names \in Seq(Paths) /\ i \in 1 .. Len(up[u].names)
      BY <2>1 DEF UploadRecords, UploadOK
  <2> QED
      BY <2>1, <2>2, LenProperties, ElementOfSeq
<1>1. CASE up' = [up EXCEPT ![u].pc = "closing", ![u].failed = TRUE] /\ UNCHANGED <<tree, temps>>
  <2> DEFINE q == [up[u] EXCEPT !.pc = "closing", !.failed = TRUE]
  <2>1. /\ q \in UploadRecords /\ q.names = up[u].names /\ q.i = i /\ q.over = up[u].over
        /\ q.placed = up[u].placed /\ q.total = up[u].total
        /\ q.pc = "closing" /\ q.failed = TRUE
      BY <1>0 DEF UploadRecords
  <2>2. up' = [up EXCEPT ![u] = q]
      BY <1>1 DEF UploadInv
  <2> HIDE DEF q
  <2>3. UploadOK(q)
      BY <1>0, <2>1 DEF UploadOK, HasPlaced
  <2>4. \A s, t \in temps' : s.up = u /\ t.up = u => s = t
      BY <1>1 DEF TempsInv
  <2>5. UploadInv' /\ TempsInv'
      BY <1>1, <2>1, <2>2, <2>3, <2>4, UploadMoves
  <2>6. Goes
      BY <1>0, <1>1, <2>1, <2>2, Unseen DEF PhaseOf
  <2> QED
      BY <1>0, <1>1, <2>5, <2>6 DEF TreeInv
<1>2. CASE /\ Put(p, FileOf(u)) /\ temps' = temps \ TempOf(u)
           /\ up' = [up EXCEPT ![u].pc = "closing", ![u].placed = @ \cup {p}]
  <2> DEFINE q == [up[u] EXCEPT !.pc = "closing", !.placed = @ \cup {p}]
  <2>1. /\ q \in UploadRecords /\ q.names = up[u].names /\ q.i = i /\ q.over = up[u].over
        /\ q.placed = up[u].placed \cup {p} /\ q.total = up[u].total
        /\ q.pc = "closing" /\ q.failed = up[u].failed
      BY <1>0 DEF UploadRecords
  <2>2. up' = [up EXCEPT ![u] = q]
      BY <1>2 DEF UploadInv
  <2>3. HasPlaced(up[u], i - 1)
      BY <1>0 DEF UploadOK
  <2> HIDE DEF q
  <2>4. HasPlaced(q, q.i)
    <3>1. DOMAIN q.names \cap (1 .. i) = (DOMAIN q.names \cap (1 .. i - 1)) \cup {i}
        BY <1>0, <2>1
    <3> QED
        BY <2>1, <2>3, <3>1 DEF HasPlaced
  <2>5. UploadOK(q)
      BY <1>0, <2>1, <2>4 DEF UploadOK
  <2>6. UploadInv' /\ TempsInv'
      BY <1>2, <2>1, <2>2, <2>5, UploadMoves DEF TempOf
  <2>7. Goes
    <3>1. /\ Phase' = [Phase EXCEPT ![u] = PhaseOf(q)] /\ Batch' = [Batch EXCEPT ![u] = q.names]
          /\ Over' = [Over EXCEPT ![u] = q.over] /\ Placed' = [Placed EXCEPT ![u] = q.placed]
          /\ Phase[u] = PhaseOf(up[u]) /\ Batch[u] = up[u].names
          /\ Over[u] = up[u].over /\ Placed[u] = up[u].placed
          /\ up'[u] = q /\ \A v \in Uploads : v # u => up'[v] = up[v]
        BY <2>2, SeenAs
    <3>2. PhaseOf(q) = "open" /\ PhaseOf(up[u]) = "open"
        BY <1>0, <2>1 DEF PhaseOf
    <3>3. UNCHANGED <<Phase, Batch, Over>>
        BY <2>1, <3>1, <3>2 DEF Phase, Batch, Over
    <3>4. Placed' = [Placed EXCEPT ![u] = @ \cup {p}]
        BY <2>1, <3>1
    <3>5. Shown' = [v \in Uploads |-> IF v = u THEN Shown[v] \cup {p} ELSE Shown[v] \ {p}]
      <4>1. \A x \in Paths : tree'[x] = IF x = p THEN FileOf(u) ELSE tree[x]
          BY <1>0, <1>2 DEF Put, TreeInv
      <4>2. \A v \in Uploads : FileOf(v) = FileOf(u) <=> v = u
          BY DEF FileOf
      <4> QED
          BY <1>0, <4>1, <4>2 DEF Shown
    <3>6. i \in DOMAIN Batch[u] /\ p = Batch[u][i]
        BY <1>0, <3>1
    <3>7. Placed[u] = Atomic!Beginning(u, i - 1)
        BY <2>3, <3>1 DEF HasPlaced, Atomic!Beginning
    <3>8. Atomic!Place(u)
        BY <3>1, <3>2, <3>3, <3>4, <3>5, <3>6, <3>7 DEF Atomic!Place
    <3> QED
        BY <2>1, <3>1, <3>8 DEF Goes, Atomic!Next
  <2>8. TreeInv'
      BY <1>0, <1>2, PutKeeps, Nodes DEF TreeInv
  <2> QED
      BY <2>6, <2>7, <2>8
<1> QED
    BY <1>1, <1>2 DEF Replace

LEMMA ClosedKeeps ==
    ASSUME UploadInv, TempsInv, NEW u \in Uploads, Closed(u)
    PROVE  UploadInv' /\ TempsInv' /\ Goes /\ UNCHANGED <<tree, dir>>
<1>0. /\ up[u] \in UploadRecords /\ UploadOK(up[u]) /\ up[u].pc = "closing" /\ UNCHANGED <<tree, dir>>
      /\ up[u].i \in 1 .. Len(up[u].names) /\ Len(up[u].names) \in Nat
    BY LenProperties DEF Closed, UploadInv, UploadOK, UploadRecords
<1>1. CASE up[u].failed
  <2> DEFINE q == [up[u] EXCEPT !.pc = "failed"]
  <2>1. /\ q \in UploadRecords /\ q.names = up[u].names /\ q.i = up[u].i /\ q.over = up[u].over
        /\ q.placed = up[u].placed /\ q.total = up[u].total
        /\ q.pc = "failed" /\ q.failed = up[u].failed
      BY <1>0 DEF UploadRecords, Ended
  <2>2. up' = [up EXCEPT ![u] = q] /\ temps' = temps \ TempOf(u)
      BY <1>1 DEF Closed, UploadInv
  <2> HIDE DEF q
  <2>3. UploadOK(q)
      BY <1>0, <1>1, <2>1 DEF UploadOK, HasPlaced
  <2>4. UploadInv' /\ TempsInv'
      BY <2>2, <2>3, UploadMoves DEF TempOf
  <2>5. Goes
      BY <1>0, <2>1, <2>2, PhaseOnly
  <2> QED
      BY <1>0, <2>4, <2>5
<1>2. CASE ~up[u].failed
  <2> DEFINE r == [up[u] EXCEPT !.i = @ + 1]
             old == temps \ TempOf(u)
  <2>1. /\ r \in UploadRecords /\ r.names = up[u].names /\ r.i = up[u].i + 1 /\ r.over = up[u].over
        /\ r.placed = up[u].placed /\ r.total = up[u].total
        /\ r.failed = up[u].failed
      BY <1>0 DEF UploadRecords
  <2>2. OpenNext(u, r, old)
      BY <1>2 DEF Closed
  <2>3. old \in SUBSET temps /\ \A t \in old : t.up # u
      BY DEF TempOf
  <2> HIDE DEF r, old
  <2>4. r.i - 1 = up[u].i /\ r.i \in 1 .. Len(r.names) + 1
      BY <1>0, <2>1
  <2>5. /\ HasPlaced(r, r.i - 1) /\ ~r.failed /\ Len(r.names) <= MaxFiles /\ r.total <= MaxTotal
      BY <1>0, <1>2, <2>1, <2>4 DEF UploadOK, HasPlaced
  <2>6. /\ UploadInv' /\ TempsInv'
        /\ \E q \in UploadRecords :
              /\ up' = [up EXCEPT ![u] = q]
              /\ q.names = r.names /\ q.over = r.over /\ q.placed = r.placed
              /\ PhaseOf(q) = IF r.i > Len(r.names) THEN "ok" ELSE "open"
      BY <2>1, <2>2, <2>3, <2>4, <2>5, OpenKeeps
  <2>7. PICK q \in UploadRecords :
              /\ up' = [up EXCEPT ![u] = q]
              /\ q.names = r.names /\ q.over = r.over /\ q.placed = r.placed
              /\ PhaseOf(q) = IF r.i > Len(r.names) THEN "ok" ELSE "open"
      BY <2>6
  <2>8. CASE r.i > Len(r.names)
    <3>1. q.pc = "ok"
        BY <2>7, <2>8 DEF PhaseOf
    <3>2. up[u].i = Len(up[u].names)
        BY <1>0, <2>1, <2>8
    <3>3. HasPlaced(up[u], Len(up[u].names))
        BY <1>0, <1>2, <3>2 DEF UploadOK
    <3>4. Goes
        BY <1>0, <2>1, <2>7, <3>1, <3>3, PhaseOnly
    <3> QED
        BY <1>0, <2>6, <3>4
  <2>9. CASE ~(r.i > Len(r.names))
    <3>1. PhaseOf(q) = PhaseOf(up[u])
        BY <1>0, <2>7, <2>9 DEF PhaseOf
    <3>2. Goes
        BY <1>0, <2>1, <2>7, <3>1, Unseen
    <3> QED
        BY <1>0, <2>6, <3>2
  <2> QED
      BY <2>8, <2>9
<1> QED
    BY <1>1, <1>2

LEMMA CrashKeeps ==
    ASSUME UploadInv, TempsInv, FilesCrash
    PROVE  /\ UploadInv' /\ TempsInv' /\ Goes /\ UNCHANGED <<tree, dir>>
           /\ \A u \in Uploads : PhaseOf(up[u]) = "open" => up'[u].pc = "lost"
<1>0. UNCHANGED <<tree, dir, temps>>
    BY DEF FilesCrash
<1>1. ASSUME NEW u \in Uploads
      PROVE  /\ up'[u] \in UploadRecords /\ UploadOK(up'[u])
             /\ up'[u].names = up[u].names /\ up'[u].over = up[u].over
             /\ up'[u].placed = up[u].placed
             /\ up'[u].pc = IF up[u].pc \in {"reading", "closing"} THEN "lost" ELSE up[u].pc
  <2>0. up[u] \in UploadRecords /\ UploadOK(up[u])
      BY DEF UploadInv
  <2>1. CASE up[u].pc \in {"reading", "closing"}
    <3> DEFINE q == [up[u] EXCEPT !.pc = "lost"]
    <3>1. /\ q \in UploadRecords /\ q.names = up[u].names /\ q.i = up[u].i /\ q.over = up[u].over
          /\ q.placed = up[u].placed /\ q.total = up[u].total
          /\ q.pc = "lost" /\ q.failed = up[u].failed
        BY <2>0 DEF UploadRecords, Ended
    <3>2. up'[u] = q
        BY <2>1 DEF FilesCrash
    <3> HIDE DEF q
    <3>3. UploadOK(q)
        BY <2>0, <2>1, <3>1 DEF UploadOK, HasPlaced
    <3> QED
        BY <2>1, <3>1, <3>2, <3>3
  <2>2. CASE up[u].pc \notin {"reading", "closing"}
      BY <2>0, <2>2 DEF FilesCrash
  <2> QED
      BY <2>1, <2>2
<1>2. up' \in [Uploads -> UploadRecords]
  <2>1. DOMAIN up' = Uploads /\ up' = [u \in Uploads |-> up'[u]]
      BY DEF FilesCrash
  <2> QED
      BY <1>1, <2>1
<1>3. UploadInv'
    BY <1>1, <1>2 DEF UploadInv
<1>4. TempsInv'
    BY <1>0, <1>1 DEF TempsInv
<1>5. Goes
  <2>1. /\ \A u \in Uploads : /\ up'[u].names = up[u].names /\ up'[u].over = up[u].over
                             /\ up'[u].placed = up[u].placed
        /\ UNCHANGED tree
      BY <1>0, <1>1
  <2>2. UNCHANGED <<Shown, Batch, Over, Placed>>
      BY <2>1 DEF Shown, Batch, Over, Placed
  <2>3. Phase' = [u \in Uploads |-> IF Phase[u] = "open" THEN "lost" ELSE Phase[u]]
    <3>1. \A u \in Uploads : PhaseOf(up'[u]) = IF PhaseOf(up[u]) = "open" THEN "lost" ELSE PhaseOf(up[u])
        BY <1>1 DEF PhaseOf, UploadInv, UploadRecords, Ended
    <3> QED
        BY <3>1 DEF Phase
  <2>4. Atomic!Die
      BY <2>2, <2>3 DEF Atomic!Die
  <2> QED
      BY <2>1, <2>4 DEF Goes, Atomic!Next
<1>6. \A u \in Uploads : PhaseOf(up[u]) = "open" => up'[u].pc = "lost"
    BY <1>1 DEF PhaseOf, UploadInv, UploadRecords, Ended
<1> QED
    BY <1>0, <1>3, <1>4, <1>5, <1>6

\* An upload the server took with it when it died is over.
LEMMA LostStays ==
    ASSUME UploadInv, NEW v \in Uploads, up[v].pc = "lost",
           \/ FilesEdit \/ UploadRequest \/ UploadStep \/ FilesCrash
    PROVE  up'[v].pc = "lost"
<1>1. \A u \in Uploads : \A r, old : u # v /\ OpenNext(u, r, old) => up'[v] = up[v]
    BY DEF OpenNext, UploadInv
<1>2. CASE FilesEdit
    BY <1>2 DEF FilesEdit, WriteFile, EditFile, WriteText, CreateItem, DeleteItem, DeleteDirectory
<1>3. ASSUME NEW u \in Uploads, NEW names, NEW over, UploadStart(u, names, over)
      PROVE  up'[v] = up[v]
  <2>1. u # v
      BY <1>3 DEF UploadStart
  <2> QED
      BY <1>1, <1>3, <2>1 DEF UploadStart, UploadInv
<1>4. ASSUME NEW u \in Uploads, ReadChunk(u) \/ Replace(u) \/ Closed(u)
      PROVE  up'[v] = up[v]
  <2>1. u # v
      BY <1>4 DEF ReadChunk, Replace, Closed
  <2>2. CASE ReadChunk(u)
    <3>1. \E r : up' = [up EXCEPT ![u] = r]
        BY <2>2 DEF ReadChunk
    <3> QED
        BY <2>1, <3>1 DEF UploadInv
  <2>3. CASE Replace(u)
    <3>1. \E r : up' = [up EXCEPT ![u] = r]
        BY <2>3 DEF Replace
    <3> QED
        BY <2>1, <3>1 DEF UploadInv
  <2>4. CASE Closed(u)
    <3>1. \/ \E r : up' = [up EXCEPT ![u] = r]
          \/ \E r, old : OpenNext(u, r, old)
        BY <2>4 DEF Closed
    <3> QED
        BY <1>1, <2>1, <3>1 DEF UploadInv
  <2> QED
      BY <1>4, <2>2, <2>3, <2>4
<1>5. CASE FilesCrash
    BY <1>5 DEF FilesCrash
<1> QED
    BY <1>2, <1>3, <1>4, <1>5 DEF UploadRequest, UploadStep

\* Every step on the files, whoever takes it.
LEMMA FilesKeep ==
    ASSUME TreeInv, UploadInv, TempsInv,
           \/ FilesEdit \/ UploadRequest \/ UploadStep \/ FilesCrash
    PROVE  TreeInv' /\ UploadInv' /\ TempsInv' /\ (up' = up \/ Goes)
<1>1. CASE FilesEdit
    BY <1>1, EditKeeps DEF UploadInv, TempsInv
<1>2. CASE UploadRequest
    BY <1>2, StartKeeps DEF UploadRequest, TreeInv
<1>3. ASSUME NEW u \in Uploads, ReadChunk(u) \/ Replace(u) \/ Closed(u)
      PROVE  TreeInv' /\ UploadInv' /\ TempsInv' /\ Goes
    BY <1>3, ReadKeeps, ReplaceKeeps, ClosedKeeps DEF TreeInv
<1>4. CASE FilesCrash
    BY <1>4, CrashKeeps DEF TreeInv
<1> QED
    BY <1>1, <1>2, <1>3, <1>4 DEF UploadStep

-----------------------------------------------------------------------------
(* What that says of uploads.                                              *)
LEMMA Lands == FilesInv => UploadsLand
<1> SUFFICES ASSUME FilesInv
             PROVE  UploadsLand
    OBVIOUS
<1>1. FilesTypes
  <2>1. tree \in [Paths -> Node] /\ dir \in BOOLEAN
      BY Nodes DEF FilesInv, RepoInv, TreeInv
  <2>2. temps \subseteq [up : Uploads, name : Paths]
      BY DEF FilesInv, TempsInv
  <2>3. ASSUME NEW u \in Uploads
        PROVE  /\ up[u].pc \in {"idle", "reading", "closing"} \cup Ended
               /\ up[u].i \in 0 .. Len(up[u].names) + 1 /\ Len(up[u].names) <= MaxFiles
               /\ up[u].total <= MaxTotal + 1
    <3>1. up[u] \in UploadRecords /\ UploadOK(up[u])
        BY DEF FilesInv, UploadInv
    <3>2. up[u].pc \in {"idle", "reading", "closing"} \cup Ended /\ up[u].i \in Nat
          /\ Len(up[u].names) \in Nat
        BY <3>1, LenProperties DEF UploadRecords
    <3> QED
        BY <3>1, <3>2 DEF UploadOK
  <2> QED
      BY <2>1, <2>2, <2>3 DEF FilesTypes
<1>2. WholeUploads
    BY DEF WholeUploads, FilesInv, RepoInv, TreeInv, Whole
<1>3. TempsRemoved
  <2>1. ASSUME NEW u \in Uploads
        PROVE  Cardinality(TempOf(u)) <= 1
    <3>1. \A s, t \in TempOf(u) : s = t
        BY DEF FilesInv, TempsInv, TempOf
    <3>2. CASE TempOf(u) = {}
        BY <3>2, FS_EmptySet
    <3>3. CASE TempOf(u) # {}
      <4>1. PICK t : TempOf(u) = {t}
          BY <3>1, <3>3
      <4> QED
          BY <4>1, FS_Singleton
    <3> QED
        BY <3>2, <3>3
  <2> QED
      BY <2>1 DEF TempsRemoved, FilesInv, TempsInv
<1>4. PlacedPrefix
  <2>1. ASSUME NEW u \in Uploads, up[u].names # <<>>
        PROVE  \E k \in {up[u].i - 1, up[u].i} :
                  /\ HasPlaced(up[u], k)
                  /\ up[u].pc = "ok" => k = Len(up[u].names)
                  /\ up[u].pc \in {"reading", "failed"} => k = up[u].i - 1
    <3>1. /\ up[u] \in UploadRecords /\ UploadOK(up[u]) /\ up[u].i \in Nat
          /\ up[u].pc \notin {"idle", "refused"} /\ Len(up[u].names) \in Nat
        BY <2>1, LenProperties DEF FilesInv, UploadInv, UploadOK, UploadRecords
    <3>2. CASE up[u].pc = "ok"
        BY <3>1, <3>2 DEF UploadOK
    <3>3. CASE up[u].pc \in {"reading", "failed"}
        BY <3>1, <3>3 DEF UploadOK
    <3>4. CASE up[u].pc \in {"closing", "lost"}
        BY <3>1, <3>4 DEF UploadOK
    <3> QED
        BY <3>1, <3>2, <3>3, <3>4 DEF UploadRecords, Ended
  <2> QED
      BY <2>1 DEF PlacedPrefix, HasPlaced
<1> QED
    BY <1>1, <1>2, <1>3, <1>4 DEF UploadsLand

-----------------------------------------------------------------------------
(* What git does to the tree, the index and HEAD.                          *)

LEMMA WorkIsTracked ==
    ASSUME TreeInv, NEW p \in Paths
    PROVE  Work(p) \in Tracked
<1>1. tree[p] \in Whole
    BY DEF TreeInv
<1> QED
    BY <1>1, Nodes DEF Work, Tracked

\* What a command reaches: paths, and those it is given among them.
LEMMA ReachedIs ==
    ASSUME NEW S \in SUBSET Paths
    PROVE  /\ Reached(S) \subseteq Paths /\ (S = {} => Reached(S) = Paths) /\ S \subseteq Reached(S)
           /\ \A p \in Reached(S) : S = {} \/ \E q \in S : p \in Matches[q]
    BY GitAssumption DEF Reached

\* A command leaves a repository, changes only what it reaches, and HEAD moves
\* only to what the index has.
LEMMA EffectKeeps ==
    ASSUME RepoInv, NEW S \in SUBSET Paths, NEW cmd \in Command, CanRun(cmd, S), Effect(cmd, S),
           dir' = dir
    PROVE  /\ RepoInv'
           /\ \A p \in Paths : head'[p] \in {head[p], index'[p]}
           /\ cmd # "pull" => \A p \in Paths \ Reached(S) : tree'[p] = tree[p] /\ index'[p] = index[p]
           /\ cmd \notin {"pull", "restore", "checkout"} => tree' = tree
           /\ cmd \notin {"pull", "add", "restore --staged", "reset"} => index' = index
<1>0. /\ tree \in [Paths -> Whole] /\ dir \in BOOLEAN /\ head \in [Paths -> Tracked]
      /\ index \in [Paths -> Tracked \cup {Unmerged}] /\ Unmerged \notin Node
      /\ Tracked \subseteq Whole
    BY Nodes DEF RepoInv, TreeInv
<1>1. CASE cmd = "add"
  <2>1. /\ index' = [p \in Paths |-> IF p \in Reached(S) THEN Work(p) ELSE index[p]]
        /\ UNCHANGED <<tree, head>>
      BY <1>1 DEF Effect
  <2>2. index' \in [Paths -> Tracked \cup {Unmerged}]
      BY <1>0, <2>1, WorkIsTracked DEF RepoInv
  <2> QED
      BY <1>0, <1>1, <2>1, <2>2 DEF RepoInv, TreeInv
<1>2. CASE cmd = "commit"
  <2>1. head' = index /\ UNCHANGED <<tree, index>>
      BY <1>2 DEF Effect
  <2>2. \A p \in Paths : index[p] # Unmerged
      BY <1>2 DEF CanRun
  <2>3. head' \in [Paths -> Tracked]
      BY <1>0, <2>1, <2>2
  <2> QED
      BY <1>0, <1>2, <2>1, <2>3 DEF RepoInv, TreeInv
<1>3. CASE cmd \in {"restore --staged", "reset"}
  <2>1. /\ index' = [p \in Paths |-> IF p \in Reached(S) THEN head[p] ELSE index[p]]
        /\ UNCHANGED <<tree, head>>
      BY <1>3 DEF Effect
  <2>2. index' \in [Paths -> Tracked \cup {Unmerged}]
      BY <1>0, <2>1
  <2> QED
      BY <1>0, <1>3, <2>1, <2>2 DEF RepoInv, TreeInv
<1>4. CASE cmd \in {"restore", "checkout"}
  <2>1. /\ tree' = [p \in Paths |-> IF p \in Reached(S) \cap Indexed THEN index[p] ELSE tree[p]]
        /\ UNCHANGED <<head, index>>
      BY <1>4 DEF Effect
  <2>2. \A p \in Reached(S) \cap Indexed : index[p] \notin {Absent, Unmerged}
      BY <1>4 DEF CanRun, Indexed
  <2>3. tree' \in [Paths -> Whole]
      BY <1>0, <2>1, <2>2
  <2> QED
      BY <1>0, <1>4, <2>1, <2>3 DEF RepoInv, TreeInv
<1>5. CASE cmd = "pull"
  <2>0. Pulls
      BY <1>5 DEF Effect
  <2>1. PICK p \in Paths :
            /\ index = head /\ index[p] = Work(p)
            /\ \/ /\ tree' = [tree EXCEPT ![p] = FileOf("new")]
                  /\ index' = [index EXCEPT ![p] = FileOf("new")] /\ head' = index'
               \/ /\ index[p] # Absent
                  /\ tree' = [tree EXCEPT ![p] = FileOf("torn")]
                  /\ index' = [index EXCEPT ![p] = Unmerged] /\ UNCHANGED head
      BY <2>0 DEF Pulls
  <2>2. FileOf("new") \in Tracked /\ FileOf("torn") \in Tracked
      BY Nodes
  <2>3. tree' \in [Paths -> Whole] /\ index' \in [Paths -> Tracked \cup {Unmerged}]
        /\ head' \in [Paths -> Tracked]
      BY <1>0, <2>1, <2>2
  <2>4. \A q \in Paths : head'[q] \in {head[q], index'[q]}
      BY <2>1
  <2> QED
      BY <1>0, <1>5, <2>3, <2>4 DEF RepoInv, TreeInv
<1>6. CASE cmd \in {"rev-parse", "status", "log"}
  <2>1. UNCHANGED <<tree, head, index>>
      BY <1>6 DEF Effect
  <2> QED
      BY <1>0, <1>6, <2>1 DEF RepoInv, TreeInv
<1> QED
    BY <1>1, <1>2, <1>3, <1>4, <1>5, <1>6 DEF Command

\* Discarding untracked paths removes what each of them leads to.
LEMMA DeletedKeeps ==
    ASSUME RepoInv, NEW D \in SUBSET Paths, tree' = Deleted(D), UNCHANGED <<dir, head, index>>
    PROVE  /\ RepoInv'
           /\ \A p \in Paths : tree'[p] \in {tree[p], Absent}
           /\ \A p \in Paths : tree'[p] # tree[p] => \E q \in D : Resolve(q) = p
           /\ \A p \in D : tree'[p].kind = "link" \/ Work(p)' = Absent
<1>0. tree \in [Paths -> Whole] /\ Absent \in Whole /\ TreeInv
    BY Nodes DEF RepoInv, TreeInv
<1>1. \A p \in Paths : tree'[p] = IF \E q \in D : Inside(q) /\ Resolve(q) = p THEN Absent ELSE tree[p]
    BY DEF Deleted
<1>2. tree' \in [Paths -> Whole]
    BY <1>0 DEF Deleted
<1>3. RepoInv'
    BY <1>2 DEF RepoInv, TreeInv
<1>4. ASSUME NEW p \in D
      PROVE  tree'[p].kind = "link" \/ Work(p)' = Absent
  <2>1. CASE tree'[p] = Absent
      BY <2>1 DEF Work, Absent
  <2>2. CASE tree'[p] # Absent
    <3>1. tree'[p] = tree[p] /\ ~(Inside(p) /\ Resolve(p) = p)
        BY <1>1, <2>2
    <3>2. tree[p].kind = "link"
        BY <1>0, <3>1, ResolveIsPath
    <3> QED
        BY <3>1, <3>2
  <2> QED
      BY <2>1, <2>2
<1> QED
    BY <1>1, <1>3, <1>4

-----------------------------------------------------------------------------
(* What GitService makes of an exit code.                                  *)

LEMMA ReadyIs ==
    ASSUME NEW r \in JobRecords, NEW cmd \in Command
    PROVE  /\ Ready(r, cmd) \in JobRecords
           /\ Ready(r, cmd).pc = "ready" /\ Ready(r, cmd).cmd = cmd
           /\ Ready(r, cmd).op = r.op /\ Ready(r, cmd).asked = r.asked /\ Ready(r, cmd).args = r.args
           /\ Ready(r, cmd).all = r.all /\ Ready(r, cmd).untracked = r.untracked
           /\ Ready(r, cmd).clean = r.clean /\ Ready(r, cmd).broken = r.broken
           /\ Ready(r, cmd).errors = r.errors /\ Ready(r, cmd).ok = r.ok
    BY DEF Ready, JobRecords

LEMMA AnswerIs ==
    ASSUME NEW r \in JobRecords, NEW ok \in BOOLEAN
    PROVE  /\ Answer(r, ok) \in JobRecords
           /\ Answer(r, ok).pc = "done" /\ Answer(r, ok).cmd = r.cmd
           /\ Answer(r, ok).op = r.op /\ Answer(r, ok).asked = r.asked /\ Answer(r, ok).args = r.args
           /\ Answer(r, ok).all = r.all /\ Answer(r, ok).untracked = r.untracked
           /\ Answer(r, ok).clean = r.clean /\ Answer(r, ok).broken = r.broken
           /\ Answer(r, ok).errors = r.errors /\ (Answer(r, ok).ok <=> ok)
    BY DEF Answer, JobRecords

LEMMA CommandOK ==
    ASSUME NEW r, JobOK(r), Active(r), NEW s \in JobRecords, NEW cmd \in Command,
           s.op = r.op, s.asked = r.asked, s.args = r.args, s.all = r.all,
           Fits(Ready(s, cmd)),
           r.op = "discard" /\ r.cmd \in {"restore", "checkout"} => cmd \in {"restore", "checkout"}
    PROVE  JobOK(Ready(s, cmd))
<1> DEFINE q == Ready(s, cmd)
<1>1. q \in JobRecords /\ q.pc = "ready" /\ q.cmd = cmd /\ q.op = r.op /\ q.asked = r.asked
      /\ q.args = r.args
    BY ReadyIs
<1>2. r \in JobRecords /\ r.args \subseteq r.asked /\ (r.op = "discard" => r.args # {})
      /\ (r.op # "discard" \/ r.cmd \notin {"restore", "checkout"} => r.args = r.asked)
      /\ (r.op \in {"commit", "status", "pull"} => r.asked = {}) /\ (r.op = "discard" => r.asked # {})
    BY DEF JobOK
<1> HIDE DEF q
<1>3. Fits(q)
    BY DEF q
<1>4. JobOK(q)
    BY <1>1, <1>2, <1>3 DEF JobOK
<1> QED
    BY <1>4 DEF q

LEMMA AnswerOK ==
    ASSUME NEW r, JobOK(r), Active(r), NEW ok \in BOOLEAN
    PROVE  JobOK(Answer(r, ok))
<1> DEFINE q == Answer(r, ok)
<1>0. r \in JobRecords
    BY DEF JobOK
<1>1. q \in JobRecords /\ q.pc = "done" /\ q.op = r.op /\ q.asked = r.asked /\ q.args = r.args
    BY <1>0, AnswerIs
<1>2. r.args \subseteq r.asked /\ (r.op # "discard" => r.args = r.asked)
      /\ (r.op \in {"commit", "status", "pull"} => r.asked = {}) /\ (r.op = "discard" => r.asked # {})
    BY DEF JobOK
<1> HIDE DEF q
<1>3. JobOK(q)
    BY <1>1, <1>2 DEF JobOK, Active
<1> QED
    BY <1>3 DEF q

\* The request q a command of r leaves behind: what it is about stays, and a
\* success is answered only after a command that had one.
LEMMA AfterIs ==
    ASSUME NEW r, JobOK(r), Active(r), ~(r.op = "discard" /\ r.cmd = "log"),
           NEW ok \in BOOLEAN, NEW U \in SUBSET Paths, NEW clean \in BOOLEAN,
           NEW q, q = After(r, ok, U, clean)
    PROVE  /\ JobOK(q) /\ q.pc \in {"ready", "done"}
           /\ q.op = r.op /\ q.asked = r.asked /\ q.args = r.args /\ q.all = r.all
           /\ q.broken = r.broken
           /\ q.untracked = (IF r.cmd = "status" THEN U ELSE r.untracked)
           /\ q.clean = (IF r.cmd = "status" THEN clean ELSE r.clean)
           /\ Active(q) /\ q.cmd = "log" => r.cmd = "status"
           /\ Active(q) /\ q.cmd \in {"restore", "checkout"} =>
                 (r.cmd = "rev-parse" /\ ~ok) \/ r.cmd = "restore"
           /\ Active(q) /\ q.cmd = "commit" /\ ~q.errors => r.cmd = "add" /\ ok
           /\ r.cmd # "add" => q.errors = r.errors
           /\ q.pc = "done" /\ q.ok /\ r.op # "status" => ok
           /\ q.pc = "done" /\ q.op = "discard" /\ q.ok => r.cmd \in {"restore", "checkout"}
           /\ q.pc = "done" /\ q.op = "commit" => r.cmd = "commit"
<1>0. r \in JobRecords /\ Fits(r)
    BY DEF JobOK
<1> DEFINE Same(x) == /\ x.op = r.op /\ x.asked = r.asked /\ x.args = r.args /\ x.all = r.all
                      /\ x.broken = r.broken
<1>1. CASE r.cmd = "rev-parse"
  <2>0. r.op \in {"status", "discard"}
      BY <1>0, <1>1 DEF Fits
  <2>1. CASE ok
    <3>a. q = Ready(r, "status")
        BY <1>1, <2>1 DEF After
    <3>b. q.pc = "ready" /\ q.cmd = "status" /\ Same(q) /\ q.untracked = r.untracked
          /\ q.clean = r.clean /\ q.errors = r.errors
        BY <1>0, <3>a DEF Ready, JobRecords
    <3>c. Fits(q)
        BY <1>1, <2>0, <2>1, <3>b DEF Fits
    <3>d. JobOK(q)
        BY <1>0, <1>1, <2>1, <3>a, <3>c, CommandOK DEF Command
    <3> QED
        BY <1>1, <2>0, <2>1, <3>b, <3>d DEF Active
  <2>2. CASE ~ok /\ r.op = "status"
    <3>a. q = Answer(r, FALSE)
        BY <1>1, <2>2 DEF After
    <3>b. q.pc = "done" /\ q.cmd = r.cmd /\ (q.ok <=> FALSE) /\ Same(q) /\ q.untracked = r.untracked
          /\ q.clean = r.clean /\ q.errors = r.errors
        BY <1>0, <3>a DEF Answer, JobRecords
    <3>d. JobOK(q)
        BY <3>a, AnswerOK
    <3> QED
        BY <1>1, <2>2, <3>b, <3>d DEF Active
  <2>3. CASE ~ok /\ r.op # "status"
    <3>a. q = Ready(r, "restore")
        BY <1>1, <2>3 DEF After
    <3>b. q.pc = "ready" /\ q.cmd = "restore" /\ Same(q) /\ q.untracked = r.untracked
          /\ q.clean = r.clean /\ q.errors = r.errors
        BY <1>0, <3>a DEF Ready, JobRecords
    <3>c. Fits(q)
        BY <1>1, <2>0, <2>3, <3>b DEF Fits
    <3>d. JobOK(q)
        BY <1>0, <1>1, <2>3, <3>a, <3>c, CommandOK DEF Command
    <3> QED
        BY <1>1, <2>0, <2>3, <3>b, <3>d DEF Active
  <2> QED
      BY <2>1, <2>2, <2>3
<1>2. CASE r.cmd = "status"
  <2>0. r.op \in {"status", "discard"}
      BY <1>0, <1>2 DEF Fits
  <2> DEFINE s == [r EXCEPT !.untracked = U, !.clean = clean]
  <2>1. s \in JobRecords
      BY <1>0 DEF JobRecords
  <2>2. Same(s) /\ s.errors = r.errors /\ s.untracked = U /\ s.clean = clean
      BY <1>0 DEF JobRecords
  <2>3. q = Ready(s, "log")
      BY <1>2 DEF After
  <2> HIDE DEF s
  <2>a. q = Ready(s, "log")
      BY <1>2, <2>3 DEF After
  <2>b. q.pc = "ready" /\ q.cmd = "log" /\ Same(q) /\ q.untracked = s.untracked
        /\ q.clean = s.clean /\ q.errors = s.errors
      BY <1>0, <2>1, <2>2, <2>a DEF Ready, JobRecords
  <2>c. Fits(q)
      BY <1>2, <2>0, <2>1, <2>2, <2>b DEF Fits
  <2>d. JobOK(q)
      BY <1>0, <1>2, <2>3, <2>1, <2>2, <2>a, <2>c, CommandOK DEF Command
  <2> QED
      BY <1>2, <2>0, <2>1, <2>2, <2>b, <2>d DEF Active
<1>3. CASE r.cmd = "log"
  <2>0. r.op = "status"
      BY <1>0, <1>3 DEF Fits
  <2>a. q = Answer(r, TRUE)
      BY <1>3 DEF After
  <2>b. q.pc = "done" /\ q.cmd = r.cmd /\ (q.ok <=> TRUE) /\ Same(q) /\ q.untracked = r.untracked
        /\ q.clean = r.clean /\ q.errors = r.errors
      BY <1>0, <2>a DEF Answer, JobRecords
  <2>d. JobOK(q)
      BY <2>a, AnswerOK
  <2> QED
      BY <1>3, <2>0, <2>b, <2>d DEF Active
<1>4. CASE r.cmd = "add" /\ r.op = "commit"
  <2> DEFINE s == [r EXCEPT !.errors = ~ok]
  <2>0. r.all
      BY <1>0, <1>4 DEF Fits
  <2>1. s \in JobRecords
      BY <1>0 DEF JobRecords
  <2>2. Same(s) /\ (s.errors <=> ~ok) /\ s.untracked = r.untracked /\ s.clean = r.clean
      BY <1>0 DEF JobRecords
  <2>3. q = Ready(s, "commit")
      BY <1>4 DEF After
  <2> HIDE DEF s
  <2>a. q = Ready(s, "commit")
      BY <1>4, <2>3 DEF After
  <2>b. q.pc = "ready" /\ q.cmd = "commit" /\ Same(q) /\ q.untracked = s.untracked
        /\ q.clean = s.clean /\ q.errors = s.errors
      BY <1>0, <2>1, <2>2, <2>a DEF Ready, JobRecords
  <2>c. Fits(q)
      BY <1>4, <2>0, <2>1, <2>2, <2>b DEF Fits
  <2>d. JobOK(q)
      BY <1>0, <1>4, <2>3, <2>1, <2>2, <2>a, <2>c, CommandOK DEF Command
  <2> QED
      BY <1>4, <2>0, <2>1, <2>2, <2>b, <2>d DEF Active
<1>5. CASE r.cmd = "restore --staged" /\ ~ok
  <2>a. q = Ready(r, "reset")
      BY <1>5 DEF After
  <2>b. q.pc = "ready" /\ q.cmd = "reset" /\ Same(q) /\ q.untracked = r.untracked
        /\ q.clean = r.clean /\ q.errors = r.errors
      BY <1>0, <2>a DEF Ready, JobRecords
  <2>c. Fits(q)
      BY <1>0, <1>5, <2>b DEF Fits
  <2>d. JobOK(q)
      BY <1>0, <1>5, <2>a, <2>c, CommandOK DEF Command
  <2> QED
      BY <1>0, <1>5, <2>b, <2>d DEF Active
<1>6. CASE r.cmd = "restore" /\ ~ok
  <2>a. q = Ready(r, "checkout")
      BY <1>6 DEF After
  <2>b. q.pc = "ready" /\ q.cmd = "checkout" /\ Same(q) /\ q.untracked = r.untracked
        /\ q.clean = r.clean /\ q.errors = r.errors
      BY <1>0, <2>a DEF Ready, JobRecords
  <2>c. Fits(q)
      BY <1>0, <1>6, <2>b DEF Fits
  <2>d. JobOK(q)
      BY <1>0, <1>6, <2>a, <2>c, CommandOK DEF Command
  <2> QED
      BY <1>0, <1>6, <2>b, <2>d DEF Active
<1>7. CASE /\ r.cmd \notin {"rev-parse", "status", "log"} /\ ~(r.cmd = "add" /\ r.op = "commit")
           /\ ~(r.cmd \in {"restore --staged", "restore"} /\ ~ok)
  <2> DEFINE b == ok /\ (r.op = "discard" => ~r.errors)
  <2>1. q = Answer(r, b)
      BY <1>7 DEF After
  <2>2. r.op = "discard" => r.cmd \in {"restore", "checkout"}
      BY <1>0, <1>7 DEF Fits
  <2>3. r.op = "commit" => r.cmd = "commit"
      BY <1>0, <1>7 DEF Fits
  <2>4. b \in BOOLEAN /\ (b => ok)
      OBVIOUS
  <2> HIDE DEF b
  <2>a. q = Answer(r, b)
      BY <1>7, <2>1 DEF After
  <2>b. q.pc = "done" /\ q.cmd = r.cmd /\ (q.ok <=> b) /\ Same(q) /\ q.untracked = r.untracked
        /\ q.clean = r.clean /\ q.errors = r.errors
      BY <1>0, <2>4, <2>a DEF Answer, JobRecords
  <2>d. JobOK(q)
      BY <2>a, <2>4, AnswerOK
  <2> QED
      BY <1>7, <2>2, <2>3, <2>4, <2>4, <2>b, <2>d DEF Active
<1> QED
    BY <1>1, <1>2, <1>3, <1>4, <1>5, <1>6, <1>7

-----------------------------------------------------------------------------
(* What a request knows after a command of its own.                        *)

LEMMA Flags ==
    /\ \A cmd, S : CanRun(cmd, S) \in BOOLEAN
    /\ Untracked \in SUBSET Paths /\ (Listed = {}) \in BOOLEAN
    /\ \A p \in Paths : Work(p) = Seen(tree[p])
    BY DEF CanRun, EachHits, Untracked, Work, Seen

\* A discard's own commands leave what it is done with as it is in the index,
\* and a path that is not there where it is not in the index; a status changes
\* nothing.
LEMMA OwnRun ==
    ASSUME RepoInv, NEW r, JobOK(r), Active(r),
           \/ CanRun(r.cmd, r.args) /\ Effect(r.cmd, r.args)
           \/ UNCHANGED <<tree, head, index>>,
           NEW p \in Paths
    PROVE  /\ r.op = "status" => UNCHANGED <<tree, head, index>>
           /\ r.op = "discard" =>
                 /\ index' = index
                 /\ tree'[p] = tree[p] \/ (index[p] # Absent /\ index[p] = Seen(tree'[p]))
                 /\ /\ r.cmd \in {"restore", "checkout"} /\ p \in r.args /\ index[p] # Absent
                    /\ CanRun(r.cmd, r.args) /\ Effect(r.cmd, r.args)
                    => index[p] = Seen(tree'[p])
<1>0. r \in JobRecords /\ Fits(r) /\ r.args \in SUBSET Paths
    BY DEF JobOK, JobRecords
<1>1. r.cmd \in {"rev-parse", "status", "log"} => UNCHANGED <<tree, head, index>>
    BY DEF Effect
<1>2. ASSUME r.cmd \in {"restore", "checkout"}, CanRun(r.cmd, r.args), Effect(r.cmd, r.args)
      PROVE  /\ index' = index
             /\ p \in Reached(r.args) \cap Indexed => index[p] # Absent /\ index[p] = Seen(tree'[p])
             /\ p \notin Reached(r.args) \cap Indexed => tree'[p] = tree[p]
  <2>1. /\ tree' = [x \in Paths |-> IF x \in Reached(r.args) \cap Indexed THEN index[x] ELSE tree[x]]
        /\ index' = index
      BY <1>2 DEF Effect
  <2>2. \A x \in Reached(r.args) : index[x] # Unmerged
      BY <1>2 DEF CanRun
  <2>3. index[p] \in Tracked \cup {Unmerged}
      BY DEF RepoInv
  <2>4. index[p] \in Tracked => Seen(index[p]) = index[p]
      BY Nodes DEF Seen, Tracked
  <2> QED
      BY <2>1, <2>2, <2>3, <2>4 DEF Indexed
<1>3. CASE r.op = "status"
    BY <1>0, <1>1, <1>3 DEF Fits
<1>4. CASE r.op = "discard" /\ r.cmd \in {"restore", "checkout"}
  <2>1. CASE UNCHANGED <<tree, head, index>> /\ ~(CanRun(r.cmd, r.args) /\ Effect(r.cmd, r.args))
      BY <1>4, <2>1
  <2>2. CASE CanRun(r.cmd, r.args) /\ Effect(r.cmd, r.args)
    <3>1. p \in r.args /\ index[p] # Absent => p \in Reached(r.args) \cap Indexed
        BY <1>0, ReachedIs DEF Indexed
    <3> QED
        BY <1>2, <1>4, <2>2, <3>1
  <2> QED
      BY <2>1, <2>2
<1>5. CASE r.op = "discard" /\ r.cmd \notin {"restore", "checkout"}
    BY <1>0, <1>1, <1>5 DEF Fits
<1>6. CASE r.op \notin {"status", "discard"}
    BY <1>6
<1> QED
    BY <1>3, <1>4, <1>5, <1>6

LEMMA OwnCommand ==
    ASSUME RepoInv, NEW r, JobOK(r), Active(r), ~(r.op = "discard" /\ r.cmd = "log"),
           NEW ok \in BOOLEAN, NEW U \in SUBSET Untracked, NEW clean \in BOOLEAN,
           r.cmd = "rev-parse" /\ ~r.broken => ok,
           r.cmd = "status" /\ ~r.broken => U = Untracked /\ (clean => Listed = {}),
           \/ CanRun(r.cmd, r.args) /\ Effect(r.cmd, r.args)
           \/ ~ok /\ UNCHANGED <<tree, head, index>>,
           NEW q, q = After(r, ok, U, clean),
           NEW p \in Paths, Knows(r, p, tree[p], index[p], head[p])
    PROVE  Knows(q, p, tree'[p], index'[p], head'[p])
<1>0. r \in JobRecords /\ Fits(r) /\ U \in SUBSET Paths /\ r.args \in SUBSET Paths
      /\ r.args \subseteq r.asked /\ (r.op # "discard" => r.args = r.asked)
      /\ (r.op \in {"commit", "status", "pull"} => r.asked = {})
      /\ (r.op = "discard" => r.args # {})
    BY Flags DEF JobOK, JobRecords
<1>p. (r.asked = {} \/ p \in r.asked) /\ r.op # "discard" => p \in Reached(r.args)
    BY <1>0, ReachedIs
<1>q. /\ JobOK(q) /\ q.pc \in {"ready", "done"}
      /\ q.op = r.op /\ q.asked = r.asked /\ q.args = r.args /\ q.all = r.all /\ q.broken = r.broken
      /\ q.untracked = (IF r.cmd = "status" THEN U ELSE r.untracked)
      /\ q.clean = (IF r.cmd = "status" THEN clean ELSE r.clean)
      /\ Active(q) /\ q.cmd = "log" => r.cmd = "status"
      /\ Active(q) /\ q.cmd \in {"restore", "checkout"} =>
            (r.cmd = "rev-parse" /\ ~ok) \/ r.cmd = "restore"
      /\ Active(q) /\ q.cmd = "commit" /\ ~q.errors => r.cmd = "add" /\ ok
      /\ r.cmd # "add" => q.errors = r.errors
      /\ q.pc = "done" /\ q.ok /\ r.op # "status" => ok
      /\ q.pc = "done" /\ q.op = "discard" /\ q.ok => r.cmd \in {"restore", "checkout"}
      /\ q.pc = "done" /\ q.op = "commit" => r.cmd = "commit"
    BY <1>0, AfterIs
<1>s. r.cmd \in {"rev-parse", "status", "log"} => UNCHANGED <<tree, head, index>>
    BY DEF Effect
<1>r. /\ r.op = "status" => UNCHANGED <<tree, head, index>>
      /\ r.op = "discard" =>
            /\ index' = index
            /\ tree'[p] = tree[p] \/ (index[p] # Absent /\ index[p] = Seen(tree'[p]))
            /\ /\ r.cmd \in {"restore", "checkout"} /\ p \in r.args /\ index[p] # Absent
               /\ CanRun(r.cmd, r.args) /\ Effect(r.cmd, r.args)
               => index[p] = Seen(tree'[p])
    BY OwnRun
<1>1. ASSUME q.op = "stage", q.pc = "done", q.ok, q.asked = {} \/ p \in q.asked
      PROVE  index'[p] = Seen(tree'[p])
  <2>1. ok /\ r.cmd = "add" /\ p \in Reached(r.args)
      BY <1>0, <1>p, <1>q, <1>1 DEF Fits
  <2>2. index'[p] = Work(p) /\ tree' = tree
      BY <2>1 DEF Effect
  <2> QED
      BY <2>2, Flags
<1>2. ASSUME q.op = "unstage", q.pc = "done", q.ok, q.asked = {} \/ p \in q.asked
      PROVE  index'[p] = head'[p]
  <2>1. ok /\ r.cmd \in {"restore --staged", "reset"} /\ p \in Reached(r.args)
      BY <1>0, <1>p, <1>q, <1>2 DEF Fits
  <2> QED
      BY <2>1 DEF Effect
<1>3. ASSUME q.op = "discard", Active(q), q.cmd = "log"
      PROVE  IF p \in q.untracked THEN index'[p] = Absent
             ELSE q.broken \/ index'[p] # Absent \/ Seen(tree'[p]) = Absent
  <2>1. r.cmd = "status" /\ q.untracked = U /\ q.broken = r.broken
      BY <1>q, <1>3
  <2>2. UNCHANGED <<tree, head, index>>
      BY <1>s, <2>1
  <2>3. q.broken \/ U = Untracked
      BY <2>1
  <2> QED
      BY <2>1, <2>2, <2>3, Flags DEF Untracked
<1>d. ASSUME q.op = "discard", Active(q), q.cmd \in {"restore", "checkout"}, p \in q.args
      PROVE  q.broken \/ index'[p] # Absent \/ Seen(tree'[p]) = Absent
  <2>1. CASE r.cmd = "rev-parse" /\ ~ok
      BY <1>q, <2>1
  <2>2. CASE r.cmd = "restore"
    <3>1. r.broken \/ index[p] # Absent \/ Seen(tree[p]) = Absent
        BY <1>q, <1>d, <2>2 DEF Knows
    <3> QED
        BY <1>q, <1>r, <1>d, <3>1
  <2> QED
      BY <1>q, <1>d, <2>1, <2>2
<1>4. ASSUME q.op = "discard", p \in q.asked \ q.args
      PROVE  tree'[p].kind = "link" \/ index'[p] = Seen(tree'[p])
  <2>1. tree[p].kind = "link" \/ index[p] = Seen(tree[p])
      BY <1>q, <1>4 DEF Knows
  <2> QED
      BY <1>q, <1>r, <1>4, <2>1
<1>5. ASSUME q.op = "discard", q.pc = "done", q.ok, p \in q.asked
      PROVE  tree'[p].kind = "link" \/ index'[p] = Seen(tree'[p]) \/ (q.broken /\ Matches[p] # {p})
  <2>1. CASE p \notin q.args
      BY <1>4, <1>5, <2>1
  <2>2. CASE p \in q.args
    <3>1. /\ r.cmd \in {"restore", "checkout"} /\ p \in r.args /\ ok
          /\ CanRun(r.cmd, r.args) /\ Effect(r.cmd, r.args)
        BY <1>q, <1>5, <2>2
    <3>2. CASE index[p] # Absent
        BY <1>q, <1>r, <1>5, <3>1, <3>2
    <3>3. CASE index[p] = Absent
      <4>1. index'[p] = Absent /\ tree'[p] = tree[p]
          BY <1>q, <1>r, <1>5, <3>3
      <4>2. r.broken \/ Seen(tree[p]) = Absent
          BY <1>q, <1>5, <3>1, <3>3 DEF Knows
      <4>3. Matches[p] \cap Indexed # {}
          BY <3>1 DEF CanRun, EachHits
      <4>4. Matches[p] # {p}
          BY <3>3, <4>3 DEF Indexed
      <4> QED
          BY <1>q, <4>1, <4>2, <4>4
    <3> QED
        BY <3>2, <3>3
  <2> QED
      BY <2>1, <2>2
<1>6. ASSUME q.op = "commit", q.all, Active(q), q.cmd = "commit", ~q.errors
      PROVE  index'[p] = Seen(tree'[p])
  <2>1. ok /\ r.cmd = "add" /\ p \in Reached(r.args)
      BY <1>0, <1>p, <1>q, <1>6
  <2>2. index'[p] = Work(p) /\ tree' = tree
      BY <2>1 DEF Effect
  <2> QED
      BY <2>2, Flags
<1>7. ASSUME q.op = "commit", q.all, q.pc = "done", q.ok, ~q.errors
      PROVE  index'[p] = Seen(tree'[p]) /\ head'[p] = Seen(tree'[p])
  <2>1. ok /\ r.cmd = "commit" /\ r.op = "commit" /\ r.all /\ ~r.errors
      BY <1>q, <1>7
  <2>2. head' = index /\ UNCHANGED <<tree, index>>
      BY <2>1 DEF Effect
  <2>3. index[p] = Seen(tree[p])
      BY <2>1 DEF Knows
  <2> QED
      BY <2>2, <2>3
<1>8. ASSUME q.op = "status", q.clean, ~q.broken
      PROVE  index'[p] = Unmerged \/ index'[p] = Seen(tree'[p])
  <2>1. r.cmd \in {"rev-parse", "status", "log"} /\ UNCHANGED <<tree, head, index>>
      BY <1>0, <1>q, <1>s, <1>8 DEF Fits
  <2>2. CASE r.cmd = "status"
    <3>1. Listed = {}
        BY <1>q, <1>8, <2>2
    <3> QED
        BY <2>1, <3>1, Flags DEF Listed
  <2>3. CASE r.cmd # "status"
      BY <1>q, <1>8, <2>1, <2>3 DEF Knows
  <2> QED
      BY <2>2, <2>3
<1> QED
    BY <1>1, <1>2, <1>3, <1>d, <1>4, <1>5, <1>6, <1>7, <1>8 DEF Knows

-----------------------------------------------------------------------------
(* The steps of a request.                                                 *)

LEMMA JobMoves ==
    ASSUME JobInv, NEW j \in Jobs, NEW r, JobOK(r), job' = [job EXCEPT ![j] = r]
    PROVE  JobInv' /\ job'[j] = r /\ \A k \in Jobs \ {j} : job'[k] = job[k]
    BY DEF JobInv, JobOK

\* The lock changes hands, is freed or left behind in a step of job j.
LEMMA LockMoves ==
    ASSUME LockInv, NEW j \in Jobs, \A k \in Jobs \ {j} : job'[k] = job[k], job[j].pc # "lost",
           \A v \in Uploads : up[v].pc = "lost" => up'[v].pc = "lost",
           faults \in Nat, faults' \in {faults, faults + 1},
           \/ lock' = lock /\ lock # j
           \/ lock' = j /\ job'[j].pc = "running" /\ job'[j].cmd \in Locking
           \/ lock' = Nobody
           \/ lock' = Stale /\ faults' = faults + 1
    PROVE  LockInv'
<1>0. /\ lock \in Jobs \cup {Nobody, Stale}
      /\ lock \in Jobs => job[lock].pc = "running" /\ job[lock].cmd \in Locking
      /\ lock = Stale => \/ faults > 0
                         \/ \E k \in Jobs : job[k].pc = "lost"
                         \/ \E u \in Uploads : up[u].pc = "lost"
      /\ Nobody # Stale /\ Nobody \notin Jobs /\ Stale \notin Jobs
    BY HoldersAssumption DEF LockInv, LockExplained, Nobody, Stale
<1>1. lock' \in Jobs \cup {Nobody, Stale}
    BY <1>0
<1>2. lock' \in Jobs => job'[lock'].pc = "running" /\ job'[lock'].cmd \in Locking
    BY <1>0
<1>3. lock' = Stale => \/ faults' > 0
                       \/ \E k \in Jobs : job'[k].pc = "lost"
                       \/ \E u \in Uploads : up'[u].pc = "lost"
  <2>1. (\E k \in Jobs : job[k].pc = "lost") => \E k \in Jobs : job'[k].pc = "lost"
      OBVIOUS
  <2> QED
      BY <1>0, <2>1
<1> QED
    BY <1>1, <1>2, <1>3 DEF LockInv, LockExplained

\* A step of job j keeps the repository, and job j knows what it says after it.
Keeps(j) ==
    /\ RepoInv' /\ JobInv' /\ LockInv' /\ faults' \in Nat
    /\ \A k \in Jobs \ {j} : job'[k] = job[k]
    /\ \A p \in Paths : head'[p] \in {head[p], index'[p]}
    /\ \A p \in Paths : Knows(job[j], p, tree[p], index[p], head[p])
                        => Knows(job'[j], p, tree'[p], index'[p], head'[p])

LEMMA RequestKeeps ==
    ASSUME RepoInv, JobInv, LockInv, faults \in Nat, NEW j \in Jobs, NEW op \in Op,
           NEW args \in SUBSET Paths, NEW all \in BOOLEAN, Request(j, op, args, all)
    PROVE  Keeps(j) /\ UNCHANGED <<tree, head, index>> /\ job[j].op = None
<1> DEFINE s == [NoJob EXCEPT !.op = op, !.asked = args, !.args = args, !.all = all]
           r == Ready(s, First(op, all))
<1>0. /\ job[j].pc = "idle" /\ JobOK(job[j]) /\ UNCHANGED <<tree, dir, up, head, index, lock, faults>>
      /\ op = "discard" => args # {}
      /\ op \in {"commit", "status", "pull"} => args = {}
      /\ all => op = "commit"
    BY DEF Request, JobInv, fileVars
<1>1. /\ s \in JobRecords /\ s.op = op /\ s.asked = args /\ s.args = args /\ s.all = all
      /\ s.untracked = {} /\ s.clean = FALSE
    BY DEF JobRecords, NoJob
<1>2. First(op, all) \in Command
    BY DEF First, Op, Command
<1>3. /\ r \in JobRecords /\ r.pc = "ready" /\ r.cmd = First(op, all) /\ r.op = op
      /\ r.asked = args /\ r.args = args /\ r.all = all /\ r.untracked = {} /\ r.clean = FALSE
    BY <1>1, <1>2, ReadyIs
<1>4. job' = [job EXCEPT ![j] = r]
    BY DEF Request
<1> HIDE DEF r, s
<1>5. Fits(r)
    BY <1>0, <1>3 DEF Fits, First, Op
<1>6. r.op = "discard" => r.cmd = "rev-parse"
    BY <1>3 DEF First
<1>7. JobOK(r)
    BY <1>0, <1>3, <1>5, <1>6 DEF JobOK
<1>8. JobInv' /\ job'[j] = r /\ \A k \in Jobs \ {j} : job'[k] = job[k]
    BY <1>4, <1>7, JobMoves
<1>9. LockInv'
  <2>1. lock # j
      BY <1>0 DEF LockInv, LockExplained
  <2> QED
      BY <1>0, <1>8, <2>1, LockMoves
<1>10. r.op = "commit" /\ r.all => r.cmd = "add"
    BY <1>3 DEF First
<1>11. \A p \in Paths : Knows(r, p, tree'[p], index'[p], head'[p])
    BY <1>3, <1>6, <1>10 DEF Knows
<1>12. RepoInv'
    BY <1>0 DEF RepoInv, TreeInv
<1> QED
    BY <1>0, <1>8, <1>9, <1>11, <1>12 DEF Keeps, JobOK

LEMMA LaunchKeeps ==
    ASSUME RepoInv, JobInv, LockInv, faults \in Nat, NEW j \in Jobs, Launch(j)
    PROVE  Keeps(j) /\ UNCHANGED <<tree, head, index>>
<1>0. /\ job[j].pc = "ready" /\ JobOK(job[j]) /\ job[j] \in JobRecords
      /\ UNCHANGED <<tree, dir, up, head, index, faults>>
    BY DEF Launch, JobInv, JobOK, fileVars
<1>1. lock # j
    BY <1>0 DEF LockInv, LockExplained
<1>2. RepoInv'
    BY <1>0 DEF RepoInv, TreeInv
<1>3. CASE job[j].cmd \in Writing /\ lock # Nobody
  <2> DEFINE q == After(job[j], FALSE, {}, FALSE)
  <2>1. job' = [job EXCEPT ![j] = q] /\ lock' = lock
      BY <1>3 DEF Launch, JobInv
  <2>2. ~(job[j].op = "discard" /\ job[j].cmd = "log") /\ Active(job[j])
      BY <1>0, <1>3 DEF Writing, Active
  <2>3. PICK r : r = job[j]
      OBVIOUS
  <2>4. PICK c : c = q
      OBVIOUS
  <2> HIDE DEF q
  <2>5. c = After(r, FALSE, {}, FALSE)
      BY <2>3, <2>4 DEF q
  <2>6. JobOK(c)
      BY <1>0, <2>2, <2>3, <2>5, AfterIs
  <2>7. JobInv' /\ job'[j] = c /\ \A k \in Jobs \ {j} : job'[k] = job[k]
      BY <2>1, <2>4, <2>6, JobMoves
  <2>8. LockInv'
      BY <1>0, <1>1, <2>1, <2>7, LockMoves
  <2>w. r.cmd \notin {"rev-parse", "status"}
      BY <1>3, <2>3 DEF Writing
  <2>9. \A p \in Paths : Knows(r, p, tree[p], index[p], head[p])
                         => Knows(c, p, tree'[p], index'[p], head'[p])
      BY <1>0, <2>2, <2>3, <2>5, <2>w, OwnCommand
  <2> QED
      BY <1>0, <1>2, <2>3, <2>7, <2>8, <2>9 DEF Keeps
<1>4. CASE ~(job[j].cmd \in Writing /\ lock # Nobody)
  <2> DEFINE q == [job[j] EXCEPT !.pc = "running"]
  <2>1. /\ job' = [job EXCEPT ![j] = q]
        /\ lock' = IF job[j].cmd \in Locking /\ lock = Nobody THEN j ELSE lock
      BY <1>4 DEF Launch, JobInv
  <2>2. /\ q \in JobRecords /\ q.pc = "running" /\ q.op = job[j].op /\ q.cmd = job[j].cmd
        /\ q.asked = job[j].asked /\ q.args = job[j].args /\ q.all = job[j].all
        /\ q.untracked = job[j].untracked /\ q.clean = job[j].clean /\ q.broken = job[j].broken
        /\ q.errors = job[j].errors /\ q.ok = job[j].ok
      BY <1>0 DEF JobRecords
  <2> HIDE DEF q
  <2>3. Fits(q)
      BY <1>0, <2>2 DEF JobOK, Active, Fits
  <2>4. JobOK(q)
      BY <1>0, <2>2, <2>3 DEF JobOK, Active
  <2>5. JobInv' /\ job'[j] = q /\ \A k \in Jobs \ {j} : job'[k] = job[k]
      BY <2>1, <2>4, JobMoves
  <2>6. LockInv'
      BY <1>0, <1>1, <2>1, <2>2, <2>5, LockMoves
  <2>7. \A p \in Paths : Knows(job[j], p, tree[p], index[p], head[p])
                         => Knows(q, p, tree'[p], index'[p], head'[p])
      BY <1>0, <2>2 DEF Knows, Active
  <2> QED
      BY <1>0, <1>2, <2>5, <2>6, <2>7 DEF Keeps
<1> QED
    BY <1>3, <1>4

\* A step of job j changes what a path it was asked about matches or leads to,
\* unless it is a pull.
Spares(j) == \A p \in Paths : job[j].op \in Op \ {"pull"} =>
    /\ tree'[p] # tree[p] =>
          /\ job[j].op = "discard"
          /\ \E q \in job[j].asked : p \in Matches[q] \/ Resolve(q) = p
    /\ index'[p] # index[p] =>
          /\ job[j].op \in {"stage", "unstage", "commit"}
          /\ job[j].asked = {} \/ \E q \in job[j].asked : p \in Matches[q]

LEMMA CommandSpares ==
    ASSUME RepoInv, dir' = dir, NEW j \in Jobs, JobOK(job[j]), Active(job[j]),
           CanRun(job[j].cmd, job[j].args), Effect(job[j].cmd, job[j].args)
    PROVE  Spares(j)
<1> DEFINE S == job[j].args
<1>0. /\ job[j] \in JobRecords /\ Fits(job[j]) /\ S \subseteq job[j].asked
      /\ job[j].op = "discard" => S # {}
      /\ job[j].op # "discard" => S = job[j].asked
    BY DEF JobOK
<1>1. job[j].cmd \in Command /\ S \in SUBSET Paths
    BY <1>0 DEF JobRecords, Fits, Command
<1>2. /\ job[j].cmd # "pull" => \A p \in Paths \ Reached(S) : tree'[p] = tree[p] /\ index'[p] = index[p]
      /\ job[j].cmd \notin {"pull", "restore", "checkout"} => tree' = tree
      /\ job[j].cmd \notin {"pull", "add", "restore --staged", "reset"} => index' = index
    BY <1>1, EffectKeeps
<1>3. /\ job[j].cmd = "pull" => job[j].op = "pull"
      /\ job[j].cmd \in {"restore", "checkout"} => job[j].op = "discard"
      /\ job[j].cmd \in {"add", "restore --staged", "reset"} => job[j].op \in {"stage", "unstage", "commit"}
    BY <1>0 DEF Fits
<1>4. \A p \in Reached(S) : S = {} \/ \E q \in S : p \in Matches[q]
    BY <1>1, ReachedIs
<1> HIDE DEF S
<1>5. ASSUME NEW p \in Paths, job[j].op # "pull", tree'[p] # tree[p]
      PROVE  job[j].op = "discard" /\ \E q \in job[j].asked : p \in Matches[q]
    BY <1>0, <1>2, <1>3, <1>4, <1>5
<1>6. ASSUME NEW p \in Paths, job[j].op # "pull", index'[p] # index[p]
      PROVE  /\ job[j].op \in {"stage", "unstage", "commit"}
             /\ job[j].asked = {} \/ \E q \in job[j].asked : p \in Matches[q]
  <2>1. job[j].cmd \in {"add", "restore --staged", "reset"} /\ p \in Reached(S)
      BY <1>2, <1>3, <1>6
  <2>2. S = job[j].asked
      BY <1>0, <1>3, <2>1
  <2> QED
      BY <1>3, <1>4, <2>1, <2>2
<1> QED
    BY <1>5, <1>6 DEF Spares

LEMMA DeletesKeeps ==
    ASSUME RepoInv, JobInv, LockInv, faults \in Nat, NEW j \in Jobs, Deletes(j)
    PROVE  Keeps(j) /\ Spares(j)
<1> DEFINE doomed == job[j].asked \cap job[j].untracked
           after == [job[j] EXCEPT !.args = @ \ doomed,
                                   !.errors = \E p \in doomed : ~Inside(p)]
           r == IF after.args = {} THEN Answer(after, ~after.errors) ELSE Ready(after, "restore")
<1>0. /\ job[j].pc = "running" /\ JobOK(job[j]) /\ job[j] \in JobRecords /\ Active(job[j])
      /\ job[j].op = "discard" /\ job[j].cmd = "log"
      /\ UNCHANGED <<dir, up, faults, lock, head, index>> /\ tree' = Deleted(doomed)
      /\ job' = [job EXCEPT ![j] = r]
    BY DEF Deletes, JobInv, JobOK, Active
<1>1. lock # j
    BY <1>0 DEF LockInv, LockExplained, Locking, Writing
<1>2. /\ doomed \in SUBSET Paths /\ job[j].args = job[j].asked
      /\ job[j].asked # {} /\ job[j].asked \subseteq Paths
    BY <1>0 DEF JobOK, JobRecords
<1>3. /\ after \in JobRecords /\ after.op = "discard" /\ after.asked = job[j].asked
      /\ after.args = job[j].asked \ doomed /\ after.broken = job[j].broken
    BY <1>0, <1>2 DEF JobRecords
<1> HIDE DEF after
<1>4. /\ r \in JobRecords /\ r.op = "discard" /\ r.asked = job[j].asked
      /\ r.args = job[j].asked \ doomed /\ r.broken = job[j].broken
      /\ \/ r.pc = "done" /\ r.args = {}
         \/ r.pc = "ready" /\ r.cmd = "restore" /\ r.args # {}
  <2>1. CASE after.args = {}
    <3>1. r = Answer(after, ~after.errors) /\ (~after.errors) \in BOOLEAN
        BY <2>1
    <3> HIDE DEF r
    <3> QED
        BY <1>3, <2>1, <3>1, AnswerIs
  <2>2. CASE after.args # {}
    <3>1. r = Ready(after, "restore") /\ "restore" \in Command
        BY <2>2 DEF Command
    <3> HIDE DEF r
    <3> QED
        BY <1>3, <2>2, <3>1, ReadyIs
  <2> QED
      BY <2>1, <2>2
<1> HIDE DEF r
<1>5. JobOK(r)
    BY <1>2, <1>4 DEF JobOK, Active, Fits
<1>6. JobInv' /\ job'[j] = r /\ \A k \in Jobs \ {j} : job'[k] = job[k]
    BY <1>0, <1>5, JobMoves
<1>7. /\ RepoInv'
      /\ \A p \in Paths : tree'[p] \in {tree[p], Absent}
      /\ \A p \in Paths : tree'[p] # tree[p] => \E q \in doomed : Resolve(q) = p
      /\ \A p \in doomed : tree'[p].kind = "link" \/ Seen(tree'[p]) = Absent
  <2>1. \A p \in Paths : Work(p)' = Seen(tree'[p])
      BY DEF Work, Seen
  <2> HIDE DEF doomed
  <2> QED
      BY <1>0, <1>2, <2>1, DeletedKeeps
<1>8. ASSUME NEW p \in Paths, Knows(job[j], p, tree[p], index[p], head[p])
      PROVE  Knows(r, p, tree'[p], index'[p], head'[p])
  <2>1. /\ p \in doomed => index'[p] = Absent
        /\ p \in job[j].asked \ doomed => job[j].broken \/ index'[p] # Absent \/ Seen(tree[p]) = Absent
      BY <1>0, <1>8 DEF Knows
  <2>2. p \in r.asked \ r.args => tree'[p].kind = "link" \/ index'[p] = Seen(tree'[p])
      BY <1>4, <1>7, <2>1
  <2>3. p \in r.args => r.broken \/ index'[p] # Absent \/ Seen(tree'[p]) = Absent
    <3>1. Seen(Absent) = Absent
        BY DEF Seen, Absent
    <3> QED
        BY <1>4, <1>7, <2>1, <3>1
  <2>4. r.op = "discard" /\ ~(Active(r) /\ r.cmd = "log") /\ (r.pc = "done" => r.args = {})
      BY <1>4 DEF Active
  <2> HIDE DEF doomed
  <2> QED
      BY <2>2, <2>3, <2>4 DEF Knows
<1>9. Spares(j)
    BY <1>0, <1>7 DEF Spares
<1>10. LockInv'
    BY <1>0, <1>1, <1>6, LockMoves
<1> QED
    BY <1>0, <1>6, <1>7, <1>8, <1>9, <1>10 DEF Keeps

\* What the command of job j leaves, whether it ran or not.
LEMMA RunKeeps ==
    ASSUME RepoInv, dir' = dir, NEW j \in Jobs, JobOK(job[j]), Active(job[j]),
           \/ CanRun(job[j].cmd, job[j].args) /\ Effect(job[j].cmd, job[j].args)
           \/ UNCHANGED <<tree, head, index>>
    PROVE  RepoInv' /\ (\A p \in Paths : head'[p] \in {head[p], index'[p]}) /\ Spares(j)
<1>1. job[j].cmd \in Command /\ job[j].args \in SUBSET Paths
    BY DEF JobOK, JobRecords, Fits, Command
<1>2. CASE CanRun(job[j].cmd, job[j].args) /\ Effect(job[j].cmd, job[j].args)
    BY <1>1, <1>2, EffectKeeps, CommandSpares
<1>3. CASE UNCHANGED <<tree, head, index>>
    BY <1>3 DEF RepoInv, TreeInv, Spares
<1> QED
    BY <1>2, <1>3

LEMMA EndsKeeps ==
    ASSUME RepoInv, JobInv, LockInv, faults \in Nat, NEW j \in Jobs, Ends(j)
    PROVE  Keeps(j) /\ Spares(j)
<1>0. /\ job[j].pc = "running" /\ JobOK(job[j]) /\ job[j] \in JobRecords /\ Active(job[j])
      /\ UNCHANGED <<dir, up, faults>> /\ lock' = (IF lock = j THEN Nobody ELSE lock)
      /\ ~(job[j].op = "discard" /\ job[j].cmd = "log")
    BY DEF Ends, Runs, JobInv, JobOK, Active
<1> DEFINE can == CanRun(job[j].cmd, job[j].args)
           q == After(job[j], can, Untracked, Listed = {})
<1>1. /\ IF can THEN Effect(job[j].cmd, job[j].args) ELSE UNCHANGED <<tree, head, index>>
      /\ job' = [job EXCEPT ![j] = q]
    BY DEF Ends, Runs, JobInv
<1>2. can \in BOOLEAN /\ (job[j].cmd = "rev-parse" => can)
    BY Flags DEF CanRun
<1>3. PICK r, c, ok, U, clean :
          r = job[j] /\ c = q /\ ok = can /\ U = Untracked /\ clean = (Listed = {})
    OBVIOUS
<1>4. c = After(r, ok, U, clean) /\ ok \in BOOLEAN /\ U \in SUBSET Untracked /\ U \in SUBSET Paths
      /\ clean \in BOOLEAN /\ (clean => Listed = {}) /\ (r.cmd = "rev-parse" => ok)
    BY <1>2, <1>3, Flags
<1>5. \/ CanRun(r.cmd, r.args) /\ Effect(r.cmd, r.args)
      \/ ~ok /\ UNCHANGED <<tree, head, index>>
    BY <1>1, <1>2, <1>3
<1> HIDE DEF q, can
<1>6. JobOK(r) /\ Active(r) /\ ~(r.op = "discard" /\ r.cmd = "log")
    BY <1>0, <1>3
<1>7. JobOK(c)
    BY <1>4, <1>6, AfterIs
<1>8. JobInv' /\ job'[j] = c /\ \A k \in Jobs \ {j} : job'[k] = job[k]
    BY <1>1, <1>3, <1>7, JobMoves
<1>9. ASSUME NEW p \in Paths, Knows(job[j], p, tree[p], index[p], head[p])
      PROVE  Knows(c, p, tree'[p], index'[p], head'[p])
  <2>1. Knows(r, p, tree[p], index[p], head[p])
      BY <1>3, <1>9
  <2>2. /\ r.cmd = "rev-parse" /\ ~r.broken => ok
        /\ r.cmd = "status" /\ ~r.broken => U = Untracked /\ (clean => Listed = {})
      BY <1>3, <1>4
  <2> QED
      BY <1>4, <1>5, <1>6, <2>1, <2>2, OwnCommand
<1>10. RepoInv' /\ (\A p \in Paths : head'[p] \in {head[p], index'[p]}) /\ Spares(j)
    BY <1>0, <1>3, <1>5, RunKeeps
<1>11. LockInv'
    BY <1>0, <1>8, LockMoves
<1> QED
    BY <1>0, <1>8, <1>9, <1>10, <1>11 DEF Keeps

LEMMA BreaksKeeps ==
    ASSUME RepoInv, JobInv, LockInv, faults \in Nat, NEW j \in Jobs, Breaks(j)
    PROVE  Keeps(j) /\ Spares(j)
<1> DEFINE dark == job[j].broken \/ job[j].cmd \in {"rev-parse", "status"}
           r == [job[j] EXCEPT !.broken = dark]
<1>b. dark \in BOOLEAN /\ job[j] \in JobRecords
    BY DEF JobInv, JobRecords
<1>2. /\ r \in JobRecords /\ r.pc = job[j].pc /\ r.op = job[j].op /\ r.cmd = job[j].cmd
      /\ r.asked = job[j].asked /\ r.args = job[j].args /\ r.all = job[j].all
      /\ r.untracked = job[j].untracked /\ r.clean = job[j].clean /\ r.broken = dark
      /\ r.errors = job[j].errors /\ r.ok = job[j].ok
    BY <1>b DEF JobRecords
<1>0. /\ job[j].pc = "running" /\ JobOK(job[j]) /\ job[j] \in JobRecords /\ Active(job[j])
      /\ UNCHANGED <<dir, up>> /\ faults' = faults + 1
      /\ ~(job[j].op = "discard" /\ job[j].cmd = "log")
      /\ lock' \in (IF lock = j THEN {Nobody, Stale} ELSE {lock})
      /\ \/ CanRun(job[j].cmd, job[j].args) /\ Effect(job[j].cmd, job[j].args)
         \/ UNCHANGED <<tree, head, index>>
    BY <1>2 DEF Breaks, Runs, fileVars, JobInv, JobOK, Active
<1>1. PICK U \in SUBSET Untracked : job' = [job EXCEPT ![j] = After(r, FALSE, U, U = {})]
    BY DEF Breaks, JobInv
<1>d. (job[j].broken => dark) /\ (job[j].cmd \in {"rev-parse", "status"} => dark)
    BY DEF dark
<1> HIDE DEF r
<1>3. Active(r) /\ Fits(r) /\ ~(r.op = "discard" /\ r.cmd = "log")
    BY <1>0, <1>2 DEF JobOK, Active, Fits
<1>4. JobOK(r)
    BY <1>0, <1>2, <1>3 DEF JobOK, Active
<1>5. PICK s, c, clean : s = r /\ c = After(r, FALSE, U, U = {}) /\ clean = (U = {})
    OBVIOUS
<1>6. /\ c = After(s, FALSE, U, clean) /\ clean \in BOOLEAN /\ U \in SUBSET Paths
      /\ JobOK(s) /\ Active(s) /\ ~(s.op = "discard" /\ s.cmd = "log")
      /\ s.cmd \in {"rev-parse", "status"} => s.broken
    BY <1>2, <1>3, <1>4, <1>5, <1>d, Flags
<1>7. JobOK(c)
    BY <1>6, AfterIs
<1>8. JobInv' /\ job'[j] = c /\ \A k \in Jobs \ {j} : job'[k] = job[k]
    BY <1>1, <1>5, <1>7, JobMoves
<1>9. LockInv'
    BY <1>0, <1>8, LockMoves
<1>10. \/ CanRun(s.cmd, s.args) /\ Effect(s.cmd, s.args)
       \/ UNCHANGED <<tree, head, index>>
    BY <1>0, <1>2, <1>5
<1>11. ASSUME NEW p \in Paths, Knows(job[j], p, tree[p], index[p], head[p])
       PROVE  Knows(c, p, tree'[p], index'[p], head'[p])
  <2>1. Knows(s, p, tree[p], index[p], head[p])
      BY <1>0, <1>2, <1>5, <1>11, <1>d DEF Knows, Active
  <2> QED
      BY <1>6, <1>10, <2>1, OwnCommand
<1>12. RepoInv' /\ (\A p \in Paths : head'[p] \in {head[p], index'[p]}) /\ Spares(j)
    BY <1>0, RunKeeps
<1> QED
    BY <1>0, <1>8, <1>9, <1>11, <1>12 DEF Keeps

\* A request that an exception ends is told nothing.
LEMMA KillRaisesKeeps ==
    ASSUME RepoInv, JobInv, LockInv, faults \in Nat, NEW j \in Jobs, KillRaises(j)
    PROVE  Keeps(j) /\ Spares(j)
<1> DEFINE r == job[j]
           q == Answer(r, FALSE)
<1>0. /\ r.pc = "running" /\ JobOK(r) /\ r \in JobRecords /\ Active(r)
      /\ UNCHANGED <<dir, up>> /\ faults' = faults + 1
      /\ lock' = (IF lock = j THEN Nobody ELSE lock)
      /\ \/ CanRun(r.cmd, r.args) /\ Effect(r.cmd, r.args)
         \/ UNCHANGED <<tree, head, index>>
      /\ job' = [job EXCEPT ![j] = q]
    BY DEF KillRaises, Runs, JobInv, JobOK, Active
<1>1. JobOK(q)
    BY <1>0, AnswerOK
<1>2. /\ q.pc = "done" /\ q.op = r.op /\ q.asked = r.asked /\ q.args = r.args
      /\ q.clean = r.clean /\ q.broken = r.broken /\ (q.ok <=> FALSE)
    BY <1>0, AnswerIs
<1> HIDE DEF q
<1>3. JobInv' /\ job'[j] = q /\ \A k \in Jobs \ {j} : job'[k] = job[k]
    BY <1>0, <1>1, JobMoves
<1>4. LockInv'
    BY <1>0, <1>3, LockMoves
<1>5. ASSUME NEW p \in Paths, Knows(r, p, tree[p], index[p], head[p])
      PROVE  Knows(q, p, tree'[p], index'[p], head'[p])
  <2> HIDE DEF r
  <2>1. /\ r.op = "status" => UNCHANGED <<tree, head, index>>
        /\ r.op = "discard" =>
              index' = index /\ (tree'[p] = tree[p] \/ index[p] = Seen(tree'[p]))
      BY <1>0, OwnRun
  <2>2. /\ r.op = "discard" /\ p \in r.asked \ r.args => tree[p].kind = "link" \/ index[p] = Seen(tree[p])
        /\ r.op = "status" /\ r.clean /\ ~r.broken => index[p] = Unmerged \/ index[p] = Seen(tree[p])
      BY <1>5 DEF Knows
  <2> QED
      BY <1>2, <2>1, <2>2 DEF Knows, Active
<1>6. RepoInv' /\ (\A p \in Paths : head'[p] \in {head[p], index'[p]}) /\ Spares(j)
    BY <1>0, RunKeeps
<1> QED
    BY <1>0, <1>3, <1>4, <1>5, <1>6 DEF Keeps

LEMMA ServerCrashKeeps ==
    ASSUME JobInv, LockInv, UploadInv, TempsInv, faults \in Nat, Crash
    PROVE  /\ JobInv' /\ LockInv' /\ faults' \in Nat /\ UNCHANGED <<tree, dir, head, index>>
           /\ \A j \in Jobs : \A p \in Paths : \A n, i, h :
                Knows(job[j], p, n, i, h) => Knows(job'[j], p, n, i, h)
<1>0. /\ UNCHANGED <<tree, dir, head, index, faults>>
      /\ lock' = (IF lock = Nobody THEN Nobody ELSE Stale)
      /\ (\E u \in Uploads : up'[u].pc = "lost") \/ (\E j \in Jobs : Active(job[j]))
    BY CrashKeeps DEF Crash, Active
<1>1. ASSUME NEW j \in Jobs
      PROVE  /\ job'[j] \in JobRecords /\ JobOK(job'[j])
             /\ Active(job[j]) => job'[j].pc = "lost"
             /\ \A p \in Paths : \A n, i, h : Knows(job[j], p, n, i, h) => Knows(job'[j], p, n, i, h)
  <2>0. job[j] \in JobRecords /\ JobOK(job[j])
      BY DEF JobInv
  <2>1. CASE Active(job[j])
    <3> DEFINE q == [job[j] EXCEPT !.pc = "lost"]
    <3>1. /\ q \in JobRecords /\ q.pc = "lost" /\ q.op = job[j].op /\ q.cmd = job[j].cmd
          /\ q.asked = job[j].asked /\ q.args = job[j].args /\ q.all = job[j].all
          /\ q.untracked = job[j].untracked /\ q.clean = job[j].clean /\ q.broken = job[j].broken
          /\ q.errors = job[j].errors /\ q.ok = job[j].ok
        BY <2>0 DEF JobRecords
    <3>2. job'[j] = q
        BY <2>1 DEF Crash, Active
    <3> HIDE DEF q
    <3>3. JobOK(q)
        BY <2>0, <3>1 DEF JobOK, Active
    <3>4. \A p \in Paths : \A n, i, h : Knows(job[j], p, n, i, h) => Knows(q, p, n, i, h)
        BY <3>1 DEF Knows, Active
    <3> QED
        BY <3>1, <3>2, <3>3, <3>4
  <2>2. CASE ~Active(job[j])
    <3>1. job'[j] = job[j]
        BY <2>2 DEF Crash, Active
    <3> QED
        BY <2>0, <2>2, <3>1
  <2> QED
      BY <2>1, <2>2
<1>2. JobInv'
  <2>1. job' = [j \in Jobs |-> job'[j]]
      BY DEF Crash
  <2> QED
      BY <1>1, <2>1 DEF JobInv
<1>3. LockInv'
  <2>1. (\E u \in Uploads : up'[u].pc = "lost") \/ (\E j \in Jobs : job'[j].pc = "lost")
      BY <1>0, <1>1
  <2> QED
      BY <1>0, <2>1, HoldersAssumption DEF LockInv, LockExplained, Nobody, Stale
<1> QED
    BY <1>0, <1>1, <1>2, <1>3

-----------------------------------------------------------------------------
(* Where the content of an upload comes from.                              *)

\* It comes to a path from the index or HEAD, and to these from the tree, and
\* otherwise only by the upload.
Comes == \A u \in Uploads : \A p \in Paths :
    FileOf(u) \in {tree'[p], index'[p], head'[p]} =>
        FileOf(u) \in {tree[p], index[p], head[p]} \/ up'[u].placed # {}

LEMMA Foreign ==
    ASSUME NEW u \in Uploads
    PROVE  FileOf(u) \notin {FileOf("old"), FileOf("new"), FileOf("torn"), Folder, Absent, Unmerged}
    BY NamesAssumption DEF FileOf, Folder, Absent, Unmerged

LEMMA PutForeign ==
    ASSUME TreeInv, NEW p \in Paths, NEW n \in {FileOf("new"), FileOf("torn"), Folder, Absent},
           Put(p, n), UNCHANGED <<head, index>>
    PROVE  Comes
<1>1. \A q \in Paths : tree'[q] = IF q = p THEN n ELSE tree[q]
    BY DEF TreeInv, Put
<1> QED
    BY <1>1, Foreign DEF Comes

LEMMA EditComes ==
    ASSUME TreeInv, FilesEdit, UNCHANGED <<head, index>>
    PROVE  Comes
<1>1. ASSUME NEW p \in Paths, Inside(p), WriteText(p)
      PROVE  Comes
  <2>1. PICK c \in {"new", "torn"} : Put(Resolve(p), FileOf(c))
      BY <1>1 DEF WriteText
  <2> QED
      BY <1>1, <2>1, ResolveIsPath, PutForeign
<1>2. ASSUME NEW p \in Paths, DeleteItem(p)
      PROVE  Comes
    BY <1>2, ResolveIsPath, PutForeign DEF DeleteItem
<1>3. ASSUME NEW p \in Paths, NEW isDir \in BOOLEAN, CreateItem(p, isDir)
      PROVE  Comes
  <2>1. CASE Exists(p)
      BY <1>3, <2>1 DEF CreateItem, Comes
  <2>2. CASE ~Exists(p)
    <3>1. PICK n \in {FileOf("new"), Folder} : Put(Resolve(p), n)
        BY <1>3, <2>2 DEF CreateItem
    <3> QED
        BY <1>3, <3>1, ResolveIsPath, PutForeign DEF CreateItem
  <2> QED
      BY <2>1, <2>2
<1>4. CASE DeleteDirectory
    BY <1>4, Foreign DEF DeleteDirectory, Comes
<1> QED
    BY <1>1, <1>2, <1>3, <1>4 DEF FilesEdit, WriteFile, EditFile, IsKind

LEMMA UploadComes ==
    ASSUME TreeInv, UploadInv, TempsInv, UploadRequest \/ UploadStep, UNCHANGED <<head, index>>
    PROVE  Comes
<1>1. CASE UploadRequest
    BY <1>1 DEF UploadRequest, UploadStart, Comes
<1>2. ASSUME NEW u \in Uploads, ReadChunk(u) \/ Closed(u)
      PROVE  Comes
    BY <1>2 DEF ReadChunk, Closed, Comes
<1>3. ASSUME NEW u \in Uploads, Replace(u)
      PROVE  Comes
  <2>1. CASE UNCHANGED tree
      BY <2>1 DEF Comes
  <2>2. CASE ~UNCHANGED tree
    <3> DEFINE p == up[u].names[up[u].i]
    <3>1. /\ Put(p, FileOf(u))
          /\ up' = [up EXCEPT ![u].pc = "closing", ![u].placed = @ \cup {p}]
        BY <1>3, <2>2 DEF Replace
    <3>2. \A q \in Paths : tree'[q] # tree[q] => tree'[q] = FileOf(u)
        BY <3>1 DEF Put, TreeInv
    <3>3. up'[u].placed # {}
        BY <3>1 DEF UploadInv, UploadRecords
    <3>4. \A v \in Uploads : FileOf(v) = FileOf(u) => v = u
        BY DEF FileOf
    <3> QED
        BY <3>2, <3>3, <3>4 DEF Comes
  <2> QED
      BY <2>1, <2>2
<1> QED
    BY <1>1, <1>2, <1>3 DEF UploadStep

LEMMA EffectComes ==
    ASSUME RepoInv, NEW cmd, NEW P, Effect(cmd, P)
    PROVE  Comes
<1>0. /\ tree \in [Paths -> Whole] /\ index \in [Paths -> Tracked \cup {Unmerged}]
      /\ head \in [Paths -> Tracked]
      /\ \A p \in Paths : Work(p) \in {Absent, tree[p]}
    BY DEF RepoInv, TreeInv, Work
<1>1. CASE cmd = "add"
    BY <1>0, <1>1, Foreign DEF Effect, Comes
<1>2. CASE cmd = "commit"
    BY <1>2 DEF Effect, Comes
<1>3. CASE cmd \in {"restore --staged", "reset"}
    BY <1>3 DEF Effect, Comes
<1>4. CASE cmd \in {"restore", "checkout"}
    BY <1>4 DEF Effect, Comes
<1>5. CASE cmd = "pull"
  <2>1. Pulls
      BY <1>5 DEF Effect
  <2>2. PICK p \in Paths :
            /\ index = head /\ index[p] = Work(p)
            /\ \/ /\ tree' = [tree EXCEPT ![p] = FileOf("new")]
                  /\ index' = [index EXCEPT ![p] = FileOf("new")] /\ head' = index'
               \/ /\ index[p] # Absent
                  /\ tree' = [tree EXCEPT ![p] = FileOf("torn")]
                  /\ index' = [index EXCEPT ![p] = Unmerged] /\ UNCHANGED head
      BY <2>1 DEF Pulls
  <2>3. \A q \in Paths :
            /\ tree'[q] \in {tree[q], FileOf("new"), FileOf("torn")}
            /\ index'[q] \in {index[q], FileOf("new"), Unmerged}
            /\ head'[q] \in {head[q], FileOf("new"), index[q]}
      BY <1>0, <2>2
  <2> QED
      BY <2>3, Foreign DEF Comes
<1>6. CASE cmd \in {"rev-parse", "status", "log"}
    BY <1>6 DEF Effect, Comes
<1> QED
    BY <1>1, <1>2, <1>3, <1>4, <1>5, <1>6 DEF Effect

LEMMA StepComes ==
    ASSUME RepoInv, UploadInv, TempsInv, Next
    PROVE  Comes
<1>0. TreeInv
    BY DEF RepoInv
<1>1. CASE (FilesEdit \/ UploadRequest \/ UploadStep) /\ UNCHANGED gitVars
    BY <1>0, <1>1, EditComes, UploadComes DEF gitVars
<1>2. CASE GitRequest \/ \E j \in Jobs : Launch(j)
    BY <1>2 DEF GitRequest, Request, Launch, fileVars, Comes
<1>3. ASSUME NEW j \in Jobs, Ends(j) \/ Breaks(j) \/ KillRaises(j)
      PROVE  Comes
  <2>1. UNCHANGED <<tree, head, index>> \/ Effect(job[j].cmd, job[j].args)
      BY <1>3 DEF Ends, Breaks, KillRaises, Runs, fileVars
  <2> QED
      BY <2>1, EffectComes DEF Comes
<1>4. ASSUME NEW j \in Jobs, Deletes(j)
      PROVE  Comes
  <2>1. \A p \in Paths : tree'[p] \in {tree[p], Absent}
      BY <1>4 DEF Deletes, Deleted
  <2> QED
      BY <1>4, <2>1, Foreign DEF Deletes, Comes
<1>5. CASE Crash
    BY <1>5 DEF Crash, FilesCrash, Comes
<1> QED
    BY <1>1, <1>2, <1>3, <1>4, <1>5 DEF Next

-----------------------------------------------------------------------------
(* Every step of the system.                                               *)

\* What the requests know survives a step: who takes it knows what it did, and
\* the others know of no path it changed.
LEMMA KnowledgeKeeps ==
    ASSUME JobInv, KnowsInv, TouchedInv, Next,
           \A p \in Paths : head'[p] \in {head[p], index'[p]},
           \A j \in Jobs : job'[j] # job[j] => \A p \in Paths :
               Knows(job[j], p, tree[p], index[p], head[p])
               => Knows(job'[j], p, tree'[p], index'[p], head'[p])
    PROVE  KnowsInv' /\ touched' \in [Jobs -> SUBSET Paths]
<1>1. touched' = [j \in Jobs |->
          IF job[j].pc = "idle" \/ job'[j] # job[j] THEN touched[j]
          ELSE touched[j] \cup {p \in Paths : tree'[p] # tree[p] \/ index'[p] # index[p]}]
    BY DEF Next
<1>2. touched' \in [Jobs -> SUBSET Paths]
    BY <1>1 DEF TouchedInv
<1>3. ASSUME NEW j \in Jobs, NEW p \in Paths \ touched'[j]
      PROVE  Knows(job'[j], p, tree'[p], index'[p], head'[p])
  <2>1. p \notin touched[j] /\ JobOK(job[j])
      BY <1>1, <1>3 DEF JobInv
  <2>2. Knows(job[j], p, tree[p], index[p], head[p])
      BY <2>1 DEF KnowsInv
  <2>3. CASE job'[j] # job[j]
      BY <2>2, <2>3
  <2>4. CASE job'[j] = job[j] /\ job[j].pc = "idle"
    <3>1. job'[j].op = None
        BY <2>1, <2>4 DEF JobOK
    <3> QED
        BY <3>1 DEF Knows, None
  <2>5. CASE job'[j] = job[j] /\ job[j].pc # "idle"
    <3>1. tree'[p] = tree[p] /\ index'[p] = index[p] /\ head'[p] \in {head[p], index[p]}
        BY <1>1, <1>3, <2>5
    <3> QED
        BY <2>2, <2>5, <3>1 DEF Knows
  <2> QED
      BY <2>3, <2>4, <2>5
<1> QED
    BY <1>2, <1>3 DEF KnowsInv

LEMMA StepKeeps ==
    ASSUME IInv, [Next]_vars
    PROVE  /\ IInv' /\ (up' = up \/ Goes)
           /\ \A j \in Jobs : job'[j] # job[j] => Spares(j)
<1>0. /\ FilesInv /\ RepoInv /\ TreeInv /\ UploadInv /\ TempsInv /\ JobInv /\ TouchedInv
      /\ faults \in Nat /\ LockInv /\ KnowsInv /\ OwnInv
    BY DEF IInv, FilesInv, RepoInv, TouchedInv
<1> DEFINE Learns == \A j \in Jobs : job'[j] # job[j] => \A p \in Paths :
               Knows(job[j], p, tree[p], index[p], head[p])
               => Knows(job'[j], p, tree'[p], index'[p], head'[p])
           Good == /\ RepoInv' /\ UploadInv' /\ TempsInv' /\ JobInv' /\ LockInv' /\ faults' \in Nat
                   /\ (up' = up \/ Goes) /\ Learns
                   /\ \A p \in Paths : head'[p] \in {head[p], index'[p]}
                   /\ \A j \in Jobs : job'[j] # job[j] => Spares(j)
<1>1. CASE UNCHANGED vars
  <2>1. UNCHANGED <<tree, dir, temps, up, head, index, lock, job, faults, touched>>
      BY <1>1 DEF vars, fileVars, gitVars, history
  <2>2. RepoInv' /\ UploadInv' /\ TempsInv' /\ JobInv'
      BY <1>0, <2>1 DEF RepoInv, TreeInv, UploadInv, TempsInv, JobInv
  <2>3. TouchedInv' /\ LockInv' /\ KnowsInv' /\ OwnInv'
      BY <1>0, <2>1 DEF TouchedInv, LockInv, LockExplained, KnowsInv, OwnInv
  <2> QED
      BY <2>1, <2>2, <2>3 DEF IInv, FilesInv
<1>2. ASSUME (FilesEdit \/ UploadRequest \/ UploadStep) /\ UNCHANGED gitVars
      PROVE  Good
  <2>1. TreeInv' /\ UploadInv' /\ TempsInv' /\ (up' = up \/ Goes)
      BY <1>0, <1>2, FilesKeep
  <2>2. \A v \in Uploads : up[v].pc = "lost" => up'[v].pc = "lost"
      BY <1>0, <1>2, LostStays
  <2>3. UNCHANGED <<head, index, lock, job, faults>>
      BY <1>2 DEF gitVars
  <2>4. LockInv'
      BY <1>0, <2>2, <2>3 DEF LockInv, LockExplained
  <2>5. RepoInv' /\ JobInv'
      BY <1>0, <2>1, <2>3 DEF RepoInv, JobInv
  <2> QED
      BY <1>0, <2>1, <2>3, <2>4, <2>5
<1>3. ASSUME NEW j \in Jobs, Keeps(j), Spares(j), UNCHANGED <<temps, up>>
      PROVE  Good
  <2>1. UploadInv' /\ TempsInv'
      BY <1>0, <1>3 DEF UploadInv, TempsInv
  <2> QED
      BY <1>3, <2>1 DEF Keeps
<1>4. ASSUME GitRequest
      PROVE  Good
  <2>1. PICK j \in Jobs, op \in Op, args \in SUBSET Paths, all \in BOOLEAN : Request(j, op, args, all)
      BY <1>4 DEF GitRequest
  <2>2. Keeps(j) /\ UNCHANGED <<tree, index>>
      BY <1>0, <2>1, RequestKeeps
  <2>3. Spares(j) /\ UNCHANGED <<temps, up>>
      BY <2>1, <2>2 DEF Spares, Request, fileVars
  <2> QED
      BY <1>3, <2>2, <2>3
<1>5. ASSUME NEW j \in Jobs, Launch(j) \/ Deletes(j) \/ Ends(j) \/ Breaks(j) \/ KillRaises(j)
      PROVE  Good
  <2>1. CASE Launch(j)
    <3>1. Keeps(j) /\ UNCHANGED <<tree, index>>
        BY <1>0, <2>1, LaunchKeeps
    <3>2. Spares(j) /\ UNCHANGED <<temps, up>>
        BY <2>1, <3>1 DEF Spares, Launch, fileVars
    <3> QED
        BY <1>3, <3>1, <3>2
  <2>2. CASE Deletes(j) \/ Ends(j) \/ Breaks(j) \/ KillRaises(j)
    <3>1. UNCHANGED <<temps, up>>
        BY <2>2 DEF Deletes, Ends, Breaks, KillRaises, Runs, fileVars
    <3>2. Keeps(j) /\ Spares(j)
        BY <1>0, <2>2, DeletesKeeps, EndsKeeps, BreaksKeeps, KillRaisesKeeps
    <3> QED
        BY <1>3, <3>1, <3>2
  <2> QED
      BY <1>5, <2>1, <2>2
<1>6. ASSUME Crash
      PROVE  Good
  <2>1. /\ JobInv' /\ LockInv' /\ faults' \in Nat /\ UNCHANGED <<tree, dir, head, index>>
        /\ \A j \in Jobs : \A p \in Paths : \A n, i, h :
             Knows(job[j], p, n, i, h) => Knows(job'[j], p, n, i, h)
      BY <1>0, <1>6, ServerCrashKeeps
  <2>2. TreeInv' /\ UploadInv' /\ TempsInv' /\ (up' = up \/ Goes)
      BY <1>0, <1>6, FilesKeep DEF Crash
  <2>3. RepoInv'
      BY <1>0, <2>1, <2>2 DEF RepoInv
  <2>4. \A j \in Jobs : Spares(j)
      BY <2>1 DEF Spares
  <2> QED
      BY <2>1, <2>2, <2>3, <2>4
<1>7. CASE Next
  <2>1. Good
      BY <1>2, <1>4, <1>5, <1>6, <1>7 DEF Next
  <2>2. KnowsInv' /\ touched' \in [Jobs -> SUBSET Paths]
      BY <1>0, <1>7, <2>1, KnowledgeKeeps
  <2>3. OwnInv'
      BY <1>0, <1>7, <2>1, StepComes DEF OwnInv, Comes, Goes
  <2> QED
      BY <2>1, <2>2, <2>3 DEF IInv, FilesInv, TouchedInv
<1> QED
    BY <1>1, <1>7

LEMMA InitHolds == Init => IInv
<1> SUFFICES ASSUME Init
             PROVE  IInv
    OBVIOUS
<1>1. NoUpload \in UploadRecords /\ UploadOK(NoUpload)
  <2>1. NoUpload \in UploadRecords
      BY DEF NoUpload, UploadRecords
  <2>2. Len(<<>>) = 0 /\ DOMAIN <<>> = {}
      OBVIOUS
  <2> QED
      BY <2>1, <2>2, Limits DEF UploadOK, NoUpload
<1>2. UploadInv /\ TempsInv
    BY <1>1 DEF Init, FilesInit, UploadInv, TempsInv
<1>3. \A q \in Paths \cup {Outside} : LinkTo(q) \in Whole
    BY DEF LinkTo, Whole, Node, FileOf
<1>4. TreeInv
  <2>0. PICK p \in Paths, q \in Paths :
            \E node \in {Absent, LinkTo(q), LinkTo(Outside)} :
                tree = [x \in Paths |-> IF x = p THEN node ELSE IF x = q THEN FileOf("old") ELSE Absent]
      BY DEF Init, FilesInit
  <2>1. PICK node \in {Absent, LinkTo(q), LinkTo(Outside)} :
            tree = [x \in Paths |-> IF x = p THEN node ELSE IF x = q THEN FileOf("old") ELSE Absent]
      BY <2>0
  <2>2. node \in Whole /\ FileOf("old") \in Whole /\ Absent \in Whole
      BY <1>3, Nodes
  <2>3. tree \in [Paths -> Whole]
      BY <2>1, <2>2
  <2> QED
      BY <2>3 DEF Init, FilesInit, TreeInv
<1>5. RepoInv
    BY <1>4, Nodes DEF Init, RepoInv
<1>6. NoJob \in JobRecords /\ JobOK(NoJob)
  <2>1. NoJob \in JobRecords
      BY DEF NoJob, JobRecords
  <2> QED
      BY <2>1 DEF JobOK, NoJob, Active, None
<1>7. JobInv
    BY <1>6 DEF Init, JobInv
<1>8. TouchedInv
    BY DEF Init, TouchedInv
<1>9. LockInv
    BY HoldersAssumption DEF Init, LockInv, LockExplained, Nobody, Stale
<1>10. KnowsInv
    BY DEF Init, KnowsInv, Knows, NoJob, None
<1>11. OwnInv
  <2>1. \A u \in Uploads : \A p \in Paths :
            FileOf(u) # tree[p] /\ FileOf(u) # index[p] /\ FileOf(u) # head[p]
    <3>1. \A x \in Paths : /\ tree[x] \in {Absent, FileOf("old")} \cup {LinkTo(q) : q \in Paths \cup {Outside}}
                           /\ index[x] \in {Absent, FileOf("old"), FileOf("new"), Unmerged}
                           /\ head[x] \in {Absent, FileOf("old")}
        BY DEF Init, FilesInit
    <3>2. \A u \in Uploads : \A q : FileOf(u) # LinkTo(q)
        BY DEF FileOf, LinkTo
    <3> QED
        BY <3>1, <3>2, Foreign
  <2> QED
      BY <2>1 DEF OwnInv
<1> QED
    BY <1>2, <1>5, <1>7, <1>8, <1>9, <1>10, <1>11 DEF IInv, FilesInv

LEMMA Answers == IInv => AnswersAreTrue
<1> SUFFICES ASSUME IInv
             PROVE  AnswersAreTrue
    OBVIOUS
<1>0. /\ FilesInv /\ RepoInv /\ TreeInv /\ JobInv /\ LockInv /\ KnowsInv
    BY DEF IInv, FilesInv, RepoInv
<1>1. TypeOK
  <2>1. FilesTypes
      BY <1>0, Lands DEF UploadsLand
  <2>2. head \in [Paths -> Node] /\ index \in [Paths -> Node \cup {Unmerged}]
    <3>1. Tracked \subseteq Node
        BY Nodes
    <3> QED
        BY <1>0, <3>1 DEF RepoInv
  <2>3. lock \in Jobs \cup {Nobody, Stale}
      BY <1>0 DEF LockInv
  <2>4. ASSUME NEW j \in Jobs
        PROVE  /\ job[j].pc \in {"idle", "ready", "running", "done", "lost"}
               /\ job[j].cmd \in Command \cup {None} /\ job[j].op \in Op \cup {None}
               /\ job[j].args \subseteq job[j].asked /\ job[j].asked \subseteq Paths
    <3>1. JobOK(job[j]) /\ job[j] \in JobRecords
        BY <1>0 DEF JobInv
    <3> QED
        BY <3>1 DEF JobOK, JobRecords
  <2> QED
      BY <2>1, <2>2, <2>3, <2>4 DEF TypeOK
<1>2. LockExplained
    BY <1>0 DEF LockInv
<1>3. ASSUME NEW j \in Jobs, NEW p \in Paths \ touched[j]
      PROVE  Knows(job[j], p, tree[p], index[p], head[p]) /\ Work(p) = Seen(tree[p])
    BY <1>0, <1>3, Flags DEF KnowsInv
<1>4. ASSUME NEW j \in Jobs, job[j].pc = "done", job[j].ok,
             NEW p \in (IF job[j].asked = {} THEN Paths ELSE job[j].asked) \ touched[j]
      PROVE  /\ job[j].op = "stage" => index[p] = Work(p)
             /\ job[j].op = "unstage" => index[p] = head[p]
             /\ /\ job[j].op = "discard" /\ tree[p].kind # "link"
                /\ job[j].broken => Matches[p] = {p}
                => index[p] = Work(p)
  <2>1. JobOK(job[j]) /\ job[j] \in JobRecords
      BY <1>0 DEF JobInv
  <2>2. /\ p \in Paths \ touched[j] /\ (job[j].asked = {} \/ p \in job[j].asked)
        /\ job[j].op = "discard" => p \in job[j].asked
      BY <2>1, <1>4 DEF JobOK, JobRecords
  <2> QED
      BY <1>3, <1>4, <2>2 DEF Knows
<1>5. SuccessIsTrue
    BY <1>4 DEF SuccessIsTrue
<1>6. CommitAllIsAll
    BY <1>3 DEF CommitAllIsAll, Knows
<1>7. CleanIsClean
    BY <1>3 DEF CleanIsClean, Knows
<1> QED
    BY <1>1, <1>2, <1>5, <1>6, <1>7 DEF AnswersAreTrue

-----------------------------------------------------------------------------
(* The theorems.                                                           *)

\* The inductive invariant: uploads and their temporary files, a repository
\* without half files, requests whose commands belong to their operation, a
\* lock that is explained, and what every request knows of the paths nobody
\* else has touched (upload_files of fs.py; GitService of git_service.py).
THEOREM GitInvariant == Spec => []IInv
<1>1. IInv /\ [Next]_vars => IInv'
    BY StepKeeps
<1> QED
    BY InitHolds, <1>1, PTL DEF Spec

\* However many uploads race with edits, deletions, git and crashes, an upload
\* appears whole or not at all, leaves no temporary file behind when it ends,
\* and has placed a beginning of its batch (upload_files).
THEOREM UploadsAlwaysLand == Spec => []UploadsLand
<1>1. IInv => UploadsLand
    BY Lands DEF IInv
<1> QED
    BY GitInvariant, <1>1, PTL

\* Uploads are atomic, file by file, among any number of edits, deletions, git
\* commands and crashes: the names of an upload were free when it was asked for
\* or it may overwrite, its files appear whole and in the order of the batch,
\* one by one, and until the first is there nobody has anything of it
\* (upload_files).
THEOREM UploadsRefineAtomic == Spec => ImplementsUploads
<1>1. Init => Atomic!Init
  <2> SUFFICES ASSUME Init
               PROVE  Atomic!Init
      OBVIOUS
  <2>1. \A u \in Uploads : /\ PhaseOf(up[u]) = "idle" /\ up[u].names = <<>> /\ ~up[u].over
                           /\ up[u].placed = {}
      BY DEF Init, FilesInit, NoUpload, PhaseOf
  <2>2. \A u \in Uploads : up[u].over = FALSE
      BY DEF Init, FilesInit, NoUpload
  <2>3. \A u \in Uploads : \A p \in Paths : tree[p] # FileOf(u)
      BY <2>1, InitHolds DEF IInv, OwnInv
  <2>4. Phase = [u \in Uploads |-> "idle"] /\ Batch = [u \in Uploads |-> <<>>]
      BY <2>1 DEF Phase, Batch
  <2>5. Over = [u \in Uploads |-> FALSE] /\ Placed = [u \in Uploads |-> {}]
      BY <2>1, <2>2 DEF Over, Placed
  <2>6. Shown = [u \in Uploads |-> {}]
      BY <2>3 DEF Shown
  <2> QED
      BY <2>4, <2>5, <2>6 DEF Atomic!Init
<1>2. ASSUME IInv, [Next]_vars
      PROVE  [Atomic!Next]_(Atomic!vars)
  <2>1. IInv' /\ (up' = up \/ Goes)
      BY <1>2, StepKeeps
  <2>2. CASE up' = up
    <3>1. UNCHANGED Atomic!uploads
        BY <2>2 DEF Atomic!uploads, Phase, PhaseOf, Batch, Over, Placed
    <3>2. \A u \in Uploads : Shown'[u] = {} \/ Placed[u] # {}
        BY <2>1, <2>2 DEF IInv, OwnInv, Shown, Placed
    <3>3. DOMAIN Shown' = Uploads
        BY DEF Shown
    <3>4. Atomic!Elsewhere
        BY <3>1, <3>2, <3>3 DEF Atomic!Elsewhere
    <3> QED
        BY <3>4 DEF Atomic!Next
  <2> QED
      BY <2>1, <2>2 DEF Goes
<1> QED
    BY GitInvariant, <1>1, <1>2, PTL DEF Spec, ImplementsUploads, Atomic!Spec

\* What a git request is told is true of every path nobody else has changed
\* since, whatever the others do and whichever commands are killed or fail, and the
\* index.lock is held or left behind for a reason (stage_files, unstage_files,
\* discard_changes, commit, get_status).
THEOREM GitAnswersAreTrue == Spec => []AnswersAreTrue
    BY GitInvariant, Answers, PTL

\* No git operation but a pull changes a file or an index entry that none of
\* the paths it was asked about matches as a pattern, the target of an
\* untracked link it discards excepted: a discard goes on with fewer paths, and
\* never with none, which git would take for all (discard_changes).
THEOREM GitSparesOthers == Spec => NoCollateral
<1>1. ASSUME IInv, [Next]_vars
      PROVE  [\A j \in Jobs, p \in Paths :
                job'[j] # job[j] /\ job[j].op \in Op \ {"pull"} =>
                    /\ tree'[p] # tree[p] =>
                          /\ job[j].op = "discard"
                          /\ \E q \in job[j].asked : p \in Matches[q] \/ Resolve(q) = p
                    /\ index'[p] # index[p] =>
                          /\ job[j].op \in {"stage", "unstage", "commit"}
                          /\ job[j].asked = {} \/ \E q \in job[j].asked : p \in Matches[q] ]_vars
    BY <1>1, StepKeeps DEF Spares
<1> QED
    BY GitInvariant, <1>1, PTL DEF Spec, NoCollateral
=============================================================================
