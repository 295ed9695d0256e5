-------------------------- MODULE MCArtifactShare --------------------------
(* Small instances of ArtifactShare for TLC.  One artifact's link has a     *)
(* second spelling, as with a dot behind it.                               *)
EXTENDS ArtifactShare, TLC

CONSTANTS Shared, Dotted  \* a token, and the other spelling of it

MCLimit  == [b \in Buckets |-> IF b = "default" THEN 1 ELSE 2]
MCSpellings == Tokens \cup {Dotted}
MCFileOf == [s \in MCSpellings |-> IF s = Dotted THEN Shared ELSE s]
Symmetry == Permutations(Ips) \cup Permutations(Tokens \ {Shared})
=============================================================================
