------------------------------ MODULE MCStore ------------------------------
(* ArtifactStore for TLC: object and artifact identities are only compared, *)
(* so permuting them is a symmetry.                                         *)
EXTENDS ArtifactStore, TLC

Symmetry == Permutations(Objects) \cup Permutations(Artifacts)
=============================================================================
