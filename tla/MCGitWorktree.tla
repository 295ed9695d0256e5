-------------------------- MODULE MCGitWorktree --------------------------
(* Small instances of GitWorktree for TLC.                                 *)
EXTENDS GitWorktree, TLC

CONSTANT Glob  \* the path that, as a pattern, matches all: "[id].tsx"

\* Every path is spelt plainly; or one is a pattern.
Plain   == [p \in Paths |-> {p}]
Globbed == [p \in Paths |-> IF p = Glob THEN Paths ELSE {p}]
Symmetry == Permutations(Jobs) \cup Permutations(Paths \ {Glob})
=============================================================================
