-------------------------- MODULE MCPreviewRegistry --------------------------
(* Instances of PreviewRegistry for TLC. *)
EXTENDS PreviewRegistry, TLC

Symmetry == Permutations(Phones) \cup Permutations(Tasks) \cup Permutations(Projects)
            \cup Permutations(Ids)
=============================================================================
