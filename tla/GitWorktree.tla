---------------------------- MODULE GitWorktree ----------------------------
(***************************************************************************)
(* GitService of services/git_service.py on the directory of ProjectFiles: *)
(* every operation is a sequence of git commands, and the files, another   *)
(* operation or a user in a terminal may change what the next one finds.   *)
(*                                                                         *)
(* A command that writes takes .git/index.lock or fails at once; one that  *)
(* is killed at its timeout leaves the lock behind.  What a command does   *)
(* is what git does with the arguments GitService gives it.                *)
(*                                                                         *)
(* Git takes the paths it is given for patterns: '[id].tsx' is itself and   *)
(* i.tsx as well.  GitService's own checks and deletions are by name.      *)
(***************************************************************************)
EXTENDS ProjectFiles

CONSTANTS
    Jobs,         \* requests to GitService, each made once
    Matches,      \* the paths each path matches when it is taken for a pathspec
    Conflicts,    \* bound: the paths that may be in conflict from the beginning
    MaxFaults,    \* bound: commands that are killed or fail by themselves
    MaxActs       \* bound: requests of all kinds

\* A pathspec matches the path that is spelt like it.  Those that begin with a
\* colon, which git reads otherwise, are left out.
ASSUME GitAssumption ==
    /\ IsFiniteSet(Jobs) /\ MaxFaults \in Nat /\ MaxActs \in Nat
    /\ Conflicts \subseteq Paths
    /\ Matches \in [Paths -> SUBSET Paths] /\ \A p \in Paths : p \in Matches[p]

VARIABLES
    head,      \* what HEAD has at each path
    index,     \* what the index has
    lock,      \* who holds index.lock: a job, nobody, or a killed command
    job,       \* the requests
    faults,    \* commands that were killed or failed by themselves
    acts,      \* requests so far
    touched    \* paths somebody else changed during or after each request

gitVars == <<head, index, lock, job, faults>>
history == <<acts, touched>>
vars == <<fileVars, gitVars, history>>

None      == "none"
Unmerged  == [kind |-> "unmerged"]
Nobody    == "nobody"
Stale     == "stale"
ASSUME HoldersAssumption == Nobody \notin Jobs /\ Stale \notin Jobs
Command   == {"rev-parse", "status", "log", "add", "commit", "restore --staged", "reset",
              "restore", "checkout", "pull"}
Writing   == Command \ {"rev-parse", "status", "log"}
\* A status takes the lock when it is free, to write back what it refreshed.
Locking   == Writing \cup {"status"}
Op        == {"stage", "unstage", "discard", "commit", "status", "pull"}

\* What the working tree has at a path, as git sees it: no directories.
Work(p)   == IF tree[p].kind \in {"absent", "dir"} THEN Absent ELSE tree[p]
Untracked == {p \in Paths : index[p] = Absent /\ Work(p) # Absent}

\* What get_status lists: a path both sides modified is in no list.
Listed    == {p \in Paths : index[p] # Unmerged /\ (index[p] # head[p] \/ index[p] # Work(p))}

NoJob == [op |-> None, pc |-> "idle", cmd |-> None, asked |-> {}, args |-> {}, all |-> FALSE,
          untracked |-> {}, clean |-> FALSE, broken |-> FALSE, errors |-> FALSE, ok |-> FALSE]
\* A repository with changes, staged ones, new files and conflicts.
Init ==
    /\ FilesInit
    /\ head \in [Paths -> {Absent, FileOf("old")}]
    /\ index \in [Paths -> {Absent, FileOf("old"), FileOf("new"), Unmerged}]
    /\ \A p \in Paths : index[p] = Unmerged => p \in Conflicts
    /\ lock = Nobody /\ faults = 0 /\ acts = 0
    /\ job = [j \in Jobs |-> NoJob] /\ touched = [j \in Jobs |-> {}]

Ready(rec, cmd) == [rec EXCEPT !.pc = "ready", !.cmd = cmd]
Answer(rec, ok) == [rec EXCEPT !.pc = "done", !.ok = ok]

First(op, all) ==
    CASE op \in {"discard", "status"} -> "rev-parse"
      [] op = "stage" \/ (op = "commit" /\ all) -> "add"
      [] op = "unstage" -> "restore --staged"
      [] OTHER -> op
Request(j, op, args, all) ==
    /\ job[j].pc = "idle"
    /\ op = "discard" => args # {}
    /\ op \in {"commit", "status", "pull"} => args = {}
    /\ all => op = "commit"
    \* _assert_contained_paths refuses a link that leads out.
    /\ op \in {"stage", "unstage"} => \A p \in args : Inside(p)
    /\ job' = [job EXCEPT ![j] = Ready([NoJob EXCEPT !.op = op, !.asked = args, !.args = args,
                                                     !.all = all], First(op, all))]
    /\ UNCHANGED <<fileVars, head, index, lock, faults>>

(***************************************************************************)
(* What the commands do with the pathspecs S they are given; none is all.  *)
(***************************************************************************)
\* Variant: a command with "." for its paths.
ReachedAll(S) == Paths

Reached(S) == IF S = {} THEN Paths ELSE UNION {Matches[p] : p \in S}
\* A pathspec that matches nothing git knows is an error.
EachHits(S, known) == \A p \in S : Matches[p] \cap known # {}
Indexed == {p \in Paths : index[p] # Absent}
CanRun(cmd, S) ==
    CASE cmd = "add" -> EachHits(S, Indexed \cup {p \in Paths : Work(p) # Absent})
      [] cmd = "commit" -> index # head /\ \A p \in Paths : index[p] # Unmerged
      [] cmd \in {"restore --staged", "reset"} ->
             EachHits(S, Indexed \cup {p \in Paths : head[p] # Absent})
      [] cmd \in {"restore", "checkout"} ->
             EachHits(S, Indexed) /\ \A p \in Reached(S) : index[p] # Unmerged
      [] OTHER -> TRUE
\* A pull brings a commit that changes one path: fast-forward, or a conflict
\* that leaves its marks in the file.
Pulls == \E p \in Paths :
    /\ index = head /\ index[p] = Work(p)
    /\ \/ /\ tree' = [tree EXCEPT ![p] = FileOf("new")]
          /\ index' = [index EXCEPT ![p] = FileOf("new")] /\ head' = index'
       \/ /\ index[p] # Absent
          /\ tree' = [tree EXCEPT ![p] = FileOf("torn")]
          /\ index' = [index EXCEPT ![p] = Unmerged] /\ UNCHANGED head
Effect(cmd, S) ==
    \/ /\ cmd = "add"
       /\ index' = [p \in Paths |-> IF p \in Reached(S) THEN Work(p) ELSE index[p]]
       /\ UNCHANGED <<tree, head>>
    \/ cmd = "commit" /\ head' = index /\ UNCHANGED <<tree, index>>
    \/ /\ cmd \in {"restore --staged", "reset"}
       /\ index' = [p \in Paths |-> IF p \in Reached(S) THEN head[p] ELSE index[p]]
       /\ UNCHANGED <<tree, head>>
    \/ /\ cmd \in {"restore", "checkout"}
       /\ tree' = [p \in Paths |-> IF p \in Reached(S) \cap Indexed THEN index[p] ELSE tree[p]]
       /\ UNCHANGED <<head, index>>
    \/ cmd = "pull" /\ Pulls
    \/ cmd \in {"rev-parse", "status", "log"} /\ UNCHANGED <<tree, head, index>>

\* Variant: the fallback's exit code is not looked at.
AfterUnchecked(rec, ok, U, clean) ==
    CASE rec.cmd = "rev-parse" -> Ready(rec, "status")
      [] rec.cmd = "status" -> Ready([rec EXCEPT !.untracked = U, !.clean = clean], "log")
      [] rec.cmd = "restore --staged" /\ ~ok -> Ready(rec, "reset")
      [] OTHER -> Answer(rec, TRUE)

\* What GitService does with an exit code: the next command or the answer.
\* A status that failed is parsed all the same, and so is a part of one.
After(rec, ok, U, clean) ==
    CASE rec.cmd = "rev-parse" -> IF ok THEN Ready(rec, "status")
                                  ELSE IF rec.op = "status" THEN Answer(rec, FALSE)
                                  ELSE Ready(rec, "restore")
      [] rec.cmd = "status" -> Ready([rec EXCEPT !.untracked = U, !.clean = clean], "log")
      [] rec.cmd = "log" -> Answer(rec, TRUE)
      [] rec.cmd = "add" /\ rec.op = "commit" -> Ready([rec EXCEPT !.errors = ~ok], "commit")
      [] rec.cmd = "restore --staged" /\ ~ok -> Ready(rec, "reset")
      [] rec.cmd = "restore" /\ ~ok -> Ready(rec, "checkout")
      [] OTHER -> Answer(rec, ok /\ (rec.op = "discard" => ~rec.errors))

\* Who is to write starts with the lock, or fails at once.
Launch(j) ==
    /\ job[j].pc = "ready"
    /\ IF job[j].cmd \in Writing /\ lock # Nobody
       THEN job' = [job EXCEPT ![j] = After(@, FALSE, {}, FALSE)] /\ UNCHANGED lock
       ELSE /\ job' = [job EXCEPT ![j].pc = "running"]
            /\ lock' = IF job[j].cmd \in Locking /\ lock = Nobody THEN j ELSE lock
    /\ UNCHANGED <<fileVars, head, index, faults>>

\* A command runs to its end, and lets go of the lock.
Runs(j) ==
    /\ job[j].pc = "running"
    /\ IF CanRun(job[j].cmd, job[j].args) THEN Effect(job[j].cmd, job[j].args)
       ELSE UNCHANGED <<tree, head, index>>
    /\ lock' = IF lock = j THEN Nobody ELSE lock
    /\ UNCHANGED <<dir, temps, up>>

\* After the log of a discard, however it ended, the untracked paths are
\* deleted: by the status of before, by name, and through links.
Deleted(P) == [p \in Paths |-> IF \E q \in P : Inside(q) /\ Resolve(q) = p THEN Absent ELSE tree[p]]
Deletes(j) ==
    LET rec == job[j]
        doomed == rec.asked \cap rec.untracked
        after == [rec EXCEPT !.args = @ \ doomed, !.errors = \E p \in doomed : ~Inside(p)]
    IN /\ rec.pc = "running" /\ rec.op = "discard" /\ rec.cmd = "log"
       /\ tree' = Deleted(doomed)
       /\ job' = [job EXCEPT ![j] = IF after.args = {} THEN Answer(after, ~after.errors)
                                    ELSE Ready(after, "restore")]
       /\ UNCHANGED <<dir, temps, up, head, index, lock, faults>>

Ends(j) ==
    /\ ~(job[j].op = "discard" /\ job[j].cmd = "log")
    /\ Runs(j)
    /\ job' = [job EXCEPT ![j] = After(@, CanRun(@.cmd, @.args), Untracked, Listed = {})]
    /\ UNCHANGED faults

\* A command is killed at its timeout or at the output limit, or fails by itself:
\* before it did anything, perhaps with its lock in place, or after.  What a
\* status had said by then is taken for all there is.
Breaks(j) ==
    LET rec == [job[j] EXCEPT !.broken = job[j].broken \/ job[j].cmd \in {"rev-parse", "status"}]
    IN /\ rec.pc = "running" /\ faults < MaxFaults /\ faults' = faults + 1
       /\ ~(rec.op = "discard" /\ rec.cmd = "log")
       /\ \E U \in SUBSET Untracked : job' = [job EXCEPT ![j] = After(rec, FALSE, U, U = {})]
       /\ \/ /\ lock' \in IF lock = j THEN {Nobody, Stale} ELSE {lock}
             /\ UNCHANGED <<fileVars, head, index>>
          \/ CanRun(rec.cmd, rec.args) /\ Runs(j)

\* The command has ended when GitService kills it: ProcessLookupError ends the
\* request.
KillRaises(j) ==
    /\ faults < MaxFaults /\ faults' = faults + 1
    /\ Runs(j)
    /\ job' = [job EXCEPT ![j] = Answer(@, FALSE)]

\* The system kills the server and its git processes with it.
Crash ==
    /\ \/ \E u \in Uploads : PhaseOf(up[u]) = "open"
       \/ \E j \in Jobs : job[j].pc \in {"ready", "running"}
    /\ FilesCrash
    /\ job' = [j \in Jobs |-> IF job[j].pc \in {"ready", "running"}
                              THEN [job[j] EXCEPT !.pc = "lost"] ELSE job[j]]
    /\ lock' = IF lock = Nobody THEN Nobody ELSE Stale
    /\ UNCHANGED <<head, index, faults>>

GitRequest == \E j \in Jobs, op \in Op, args \in SUBSET Paths, all \in BOOLEAN :
    Request(j, op, args, all)
Next ==
    /\ \/ /\ acts < MaxActs /\ acts' = acts + 1
          /\ \/ (FilesEdit \/ UploadRequest) /\ UNCHANGED gitVars
             \/ GitRequest
       \/ /\ UNCHANGED acts
          /\ \/ UploadStep /\ UNCHANGED gitVars
             \/ \E j \in Jobs : Launch(j) \/ Deletes(j) \/ Ends(j) \/ Breaks(j) \/ KillRaises(j)
             \/ Crash
    /\ touched' = [j \in Jobs |->
          IF job[j].pc = "idle" \/ job'[j] # job[j] THEN touched[j]
          ELSE touched[j] \cup {p \in Paths : tree'[p] # tree[p] \/ index'[p] # index[p]}]

Spec == Init /\ [][Next]_vars

(***************************************************************************)
(* Properties.                                                             *)
(***************************************************************************)
TypeOK ==
    /\ FilesTypes
    /\ head \in [Paths -> Node]
    /\ index \in [Paths -> Node \cup {Unmerged}]
    /\ lock \in Jobs \cup {Nobody, Stale}
    /\ \A j \in Jobs :
          /\ job[j].pc \in {"idle", "ready", "running", "done", "lost"}
          /\ job[j].cmd \in Command \cup {None} /\ job[j].op \in Op \cup {None}
          /\ job[j].args \subseteq job[j].asked /\ job[j].asked \subseteq Paths

\* index.lock is held by the one request whose command takes it, and is left
\* behind only by a command or a server that was killed (_run_git_cmd).
LockExplained ==
    /\ lock \in Jobs => job[lock].pc = "running" /\ job[lock].cmd \in Locking
    /\ lock = Stale => \/ faults > 0
                       \/ \E j \in Jobs : job[j].pc = "lost"
                       \/ \E u \in Uploads : up[u].pc = "lost"

\* A success was one, for the paths nobody else has changed since: what was to
\* be staged is in the index, what was to be unstaged is as in HEAD, and what
\* was to be discarded is as in the index.  Excepted are a path that is a link,
\* and a new file whose pattern matches others, when the discard could not see
\* that it is new, its own status being killed or failed (stage_files, unstage_files, discard_changes).
SuccessIsTrue == \A j \in Jobs : job[j].pc = "done" /\ job[j].ok =>
    \A p \in (IF job[j].asked = {} THEN Paths ELSE job[j].asked) \ touched[j] :
        /\ job[j].op = "stage" => index[p] = Work(p)
        /\ job[j].op = "unstage" => index[p] = head[p]
        /\ /\ job[j].op = "discard" /\ tree[p].kind # "link"
           /\ job[j].broken => Matches[p] = {p}
           => index[p] = Work(p)

\* A commit of everything that answers success has everything, unless its own
\* "add -A" failed, which it does not look at (commit).
CommitAllIsAll == \A j \in Jobs :
    job[j].op = "commit" /\ job[j].all /\ job[j].pc = "done" /\ job[j].ok /\ ~job[j].errors =>
        \A p \in Paths \ touched[j] : head[p] = Work(p)

\* Who is told that the tree is clean has nothing to commit, unless the status
\* was killed or failed, which get_status does not look at, or a conflict hides
\* the path, or somebody changed it since (get_status).
CleanIsClean == \A j \in Jobs :
    job[j].op = "status" /\ job[j].pc = "done" /\ job[j].ok /\ job[j].clean /\ ~job[j].broken =>
        \A p \in Paths \ touched[j] : index[p] = Unmerged \/ index[p] = Work(p)

\* No git operation but a pull changes a file or an index entry that none of the
\* paths it was asked about matches as a pattern; a discard may also delete what
\* such a path leads to, and only a discard changes files at all.
NoCollateral == [][\A j \in Jobs, p \in Paths :
    job'[j] # job[j] /\ job[j].op \in Op \ {"pull"} =>
        /\ tree'[p] # tree[p] =>
              /\ job[j].op = "discard"
              /\ \E q \in job[j].asked : p \in Matches[q] \/ Resolve(q) = p
        /\ index'[p] # index[p] =>
              /\ job[j].op \in {"stage", "unstage", "commit"}
              /\ job[j].asked = {} \/ \E q \in job[j].asked : p \in Matches[q] ]_vars
\* What a git request is told is true of the repository it leaves, the lock
\* included.
AnswersAreTrue == TypeOK /\ LockExplained /\ SuccessIsTrue /\ CommitAllIsAll /\ CleanIsClean
=============================================================================
