---------------------------- MODULE ProjectFiles ----------------------------
(***************************************************************************)
(* A directory of a project and the handlers that change it: the /fs       *)
(* routes of api/v1/endpoints/fs.py and the file tools of                  *)
(* HarnessService.execute_tool.  All but the upload run without an await,  *)
(* so each is one step; the upload awaits every chunk and every close, and *)
(* anything may happen to the directory in between.                        *)
(***************************************************************************)
EXTENDS Naturals, Sequences, FiniteSets

CONSTANTS
    Paths,        \* the names in the directory that are in use
    Uploads,      \* upload requests, each made once
    MaxFiles,     \* settings.MAX_UPLOAD_FILES
    MaxChunks,    \* settings.MAX_UPLOAD_BYTES, in chunks
    MaxTotal      \* settings.MAX_UPLOAD_TOTAL_BYTES, in chunks

ASSUME FilesAssumption ==
    /\ IsFiniteSet(Paths) /\ IsFiniteSet(Uploads)
    /\ MaxFiles \in Nat /\ MaxChunks \in Nat /\ MaxTotal \in Nat

VARIABLES
    tree,   \* what is at each path
    dir,    \* does the directory exist
    temps,  \* the temporary files of uploads
    up      \* the upload requests

fileVars == <<tree, dir, temps, up>>

\* Contents: what was there, what a user or the agent typed, a write that
\* failed half way, a part of an upload's file, or the whole of it.
Content == {"old", "new", "torn", "part"} \cup Uploads
Outside == "outside"
Absent  == [kind |-> "absent"]
Folder  == [kind |-> "dir"]
FileOf(c) == [kind |-> "file", content |-> c]
LinkTo(p) == [kind |-> "link", to |-> p]
\* An upload's content is its own, and no name is outside.
ASSUME NamesAssumption ==
    Outside \notin Paths /\ Uploads \cap {"old", "new", "torn", "part"} = {}
Node == {Absent, Folder} \cup {FileOf(c) : c \in Content} \cup {LinkTo(p) : p \in Paths \cup {Outside}}

\* Path.resolve: links are followed, also out of the project.
Resolve(p)  == IF tree[p].kind = "link" THEN tree[p].to ELSE p
Inside(p)   == Resolve(p) # Outside
IsKind(p, k) == Inside(p) /\ tree[Resolve(p)].kind = k
\* Path.exists; what lies outside is taken to be there.
Exists(p)   == ~Inside(p) \/ tree[Resolve(p)].kind # "absent"
Put(p, node) == tree' = [tree EXCEPT ![p] = node]

NoUpload == [pc |-> "idle", names |-> <<>>, i |-> 0, over |-> FALSE, size |-> 0,
             total |-> 0, placed |-> {}, failed |-> FALSE]
Ended == {"ok", "failed", "refused", "lost"}

FilesInit ==
    /\ dir = TRUE /\ temps = {}
    /\ up = [u \in Uploads |-> NoUpload]
    /\ \E p, q \in Paths : p # q /\ \E node \in {Absent, LinkTo(q), LinkTo(Outside)} :
          tree = [x \in Paths |-> IF x = p THEN node
                                     ELSE IF x = q THEN FileOf("old") ELSE Absent]

\* open(target, "w") and the write: a full disk leaves what was truncated.
WriteText(p) ==
    /\ dir' = TRUE
    /\ \E c \in {"new", "torn"} : Put(Resolve(p), FileOf(c))
    /\ UNCHANGED <<temps, up>>

\* write_file, of the route and of the tool.
WriteFile(p) == Inside(p) /\ ~IsKind(p, "dir") /\ WriteText(p)

\* edit_file of the agent, of a file that holds the text to replace.
EditFile(p) == IsKind(p, "file") /\ WriteText(p)

CreateItem(p, isDir) ==
    /\ Inside(p) /\ dir' = TRUE
    /\ IF isDir THEN ~IsKind(p, "file") ELSE TRUE
    /\ IF Exists(p) THEN UNCHANGED tree
       ELSE Put(Resolve(p), IF isDir THEN Folder ELSE FileOf("new"))
    /\ UNCHANGED <<temps, up>>

\* delete_item removes what a link leads to and leaves the link.
DeleteItem(p) ==
    /\ Inside(p) /\ Exists(p)
    /\ Put(Resolve(p), Absent)
    /\ UNCHANGED <<dir, temps, up>>

\* delete_item of the directory itself, with all that is in it.
DeleteDirectory ==
    /\ dir
    /\ dir' = FALSE /\ temps' = {}
    /\ tree' = [p \in Paths |-> Absent]
    /\ UNCHANGED up

(***************************************************************************)
(* upload_files.                                                           *)
(***************************************************************************)
TempOf(u) == {t \in temps : t.up = u}
\* The temporary file of file i is opened, in the step that gets there; the
\* request is over when there is no file i.
OpenNext(u, rec, old) ==
    IF rec.i > Len(rec.names)
    THEN temps' = old /\ up' = [up EXCEPT ![u] = [rec EXCEPT !.pc = "ok"]]
    ELSE IF dir
    THEN /\ temps' = old \cup {[up |-> u, name |-> rec.names[rec.i]]}
         /\ up' = [up EXCEPT ![u] = [rec EXCEPT !.pc = "reading", !.size = 0]]
    ELSE temps' = old /\ up' = [up EXCEPT ![u] = [rec EXCEPT !.pc = "closing", !.failed = TRUE]]

\* Variant: nobody asks whether the target exists.
UploadUnchecked(u, names, over) ==
    /\ up[u].pc = "idle" /\ dir /\ Len(names) \in 1 .. MaxFiles
    /\ OpenNext(u, [NoUpload EXCEPT !.names = names, !.i = 1, !.over = over], temps)
    /\ UNCHANGED <<tree, dir>>

\* All names are checked before anything is written: 404, 400, 413 or 409.
UploadStart(u, names, over) ==
    LET used == {names[k] : k \in DOMAIN names}
    IN /\ up[u].pc = "idle"
       /\ IF \/ ~dir \/ names = <<>> \/ Len(names) > MaxFiles
             \/ Cardinality(used) < Len(names)
             \/ ~over /\ \E p \in used : Exists(p)
          THEN up' = [up EXCEPT ![u].pc = "refused"] /\ UNCHANGED temps
          ELSE OpenNext(u, [NoUpload EXCEPT !.names = names, !.i = 1, !.over = over], temps)
       /\ UNCHANGED <<tree, dir>>

ReadInPlace(u) ==
    /\ up[u].pc = "reading" /\ up[u].size < MaxChunks
    /\ Put(up[u].names[up[u].i], FileOf("part"))
    /\ up' = [up EXCEPT ![u].size = @ + 1]
    /\ UNCHANGED <<dir, temps>>

\* A chunk arrives: it crosses a limit, or is written, or the disk is full.
ReadChunk(u) ==
    /\ up[u].pc = "reading"
    /\ \E full \in BOOLEAN :
          LET over == up[u].size + 1 > MaxChunks \/ up[u].total + 1 > MaxTotal
          IN up' = [up EXCEPT ![u].size = @ + 1, ![u].total = @ + 1,
                              ![u].pc = IF over \/ full THEN "closing" ELSE @,
                              ![u].failed = over \/ full]
    /\ UNCHANGED <<tree, dir, temps>>

\* The last chunk is in the file, which takes the target's place.
Replace(u) ==
    LET p == up[u].names[up[u].i] IN
    /\ up[u].pc = "reading"
    /\ IF TempOf(u) = {} \/ tree[p].kind = "dir"
       THEN /\ up' = [up EXCEPT ![u].pc = "closing", ![u].failed = TRUE]
            /\ UNCHANGED <<tree, temps>>
       ELSE /\ Put(p, FileOf(u))
            /\ temps' = temps \ TempOf(u)
            /\ up' = [up EXCEPT ![u].pc = "closing", ![u].placed = @ \cup {p}]
    /\ UNCHANGED dir

\* The part is closed and the temporary file removed; the next file, or the end.
Closed(u) ==
    /\ up[u].pc = "closing"
    /\ IF up[u].failed
       THEN temps' = temps \ TempOf(u) /\ up' = [up EXCEPT ![u].pc = "failed"]
       ELSE OpenNext(u, [up[u] EXCEPT !.i = @ + 1], temps \ TempOf(u))
    /\ UNCHANGED <<tree, dir>>

\* The server dies: what an upload has written stays.
FilesCrash ==
    /\ up' = [u \in Uploads |-> IF up[u].pc \in {"reading", "closing"}
                                THEN [up[u] EXCEPT !.pc = "lost"] ELSE up[u]]
    /\ UNCHANGED <<tree, dir, temps>>

Batches == UNION {[1 .. k -> Paths] : k \in 0 .. MaxFiles + 1}
FilesEdit ==
    \/ \E p \in Paths : WriteFile(p) \/ EditFile(p) \/ DeleteItem(p)
                        \/ \E isDir \in BOOLEAN : CreateItem(p, isDir)
    \/ DeleteDirectory
UploadRequest == \E u \in Uploads, names \in Batches, over \in BOOLEAN :
    UploadStart(u, names, over)
UploadStep == \E u \in Uploads : ReadChunk(u) \/ Replace(u) \/ Closed(u)

(***************************************************************************)
(* Properties.                                                             *)
(***************************************************************************)
FilesTypes ==
    /\ tree \in [Paths -> Node] /\ dir \in BOOLEAN
    /\ temps \subseteq [up : Uploads, name : Paths]
    /\ \A u \in Uploads :
          /\ up[u].pc \in {"idle", "reading", "closing"} \cup Ended
          /\ up[u].i \in 0 .. Len(up[u].names) + 1 /\ Len(up[u].names) <= MaxFiles
          /\ up[u].total <= MaxTotal + 1

\* An upload appears at its path whole or not at all, whatever fails, crashes
\* or deletes in between (the temporary file and os.replace).
WholeUploads == \A p \in Paths : tree[p] # FileOf("part")

\* A temporary file belongs to an upload that is running or that the server
\* took with it when it died; an upload has one at most (the finally of
\* upload_files).
TempsRemoved ==
    /\ \A t \in temps : up[t.up].pc \in {"reading", "closing", "lost"}
    /\ \A u \in Uploads : Cardinality(TempOf(u)) <= 1

\* What an upload has placed is a beginning of its batch: all of it when it
\* answers success, what came before the failing file otherwise.
PlacedPrefix == \A u \in Uploads : up[u].names # <<>> =>
    \E k \in {up[u].i - 1, up[u].i} :
        /\ up[u].placed = {up[u].names[j] : j \in DOMAIN up[u].names \cap (1 .. k)}
        /\ up[u].pc = "ok" => k = Len(up[u].names)
        /\ up[u].pc \in {"reading", "failed"} => k = up[u].i - 1

\* An upload as AtomicUploads sees it.
PhaseOf(r) == IF r.pc \in {"reading", "closing"} THEN "open" ELSE r.pc
Taken  == {p \in Paths : Exists(p)}
Shown  == [u \in Uploads |-> {p \in Paths : tree[p] = FileOf(u)}]
Phase  == [u \in Uploads |-> PhaseOf(up[u])]
Batch  == [u \in Uploads |-> up[u].names]
Over   == [u \in Uploads |-> up[u].over]
Placed == [u \in Uploads |-> up[u].placed]
Atomic == INSTANCE AtomicUploads WITH
    taken <- Taken, shown <- Shown, phase <- Phase, batch <- Batch, over <- Over, placed <- Placed
\* What is uploaded appears as AtomicUploads says: an upload whose names were
\* free, or which may overwrite, puts its files there one by one, each by one
\* os.replace, and replaces only what came during its awaits (upload_files).
ImplementsUploads == Atomic!Spec

\* An upload is whole, cleans up behind itself and goes through its batch in
\* order.
UploadsLand == FilesTypes /\ WholeUploads /\ TempsRemoved /\ PlacedPrefix
=============================================================================
