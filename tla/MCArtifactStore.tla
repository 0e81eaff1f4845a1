-------------------------- MODULE MCArtifactStore ---------------------------
(* Instances of ArtifactStore for TLC. *)
EXTENDS ArtifactStore, TLC

CONSTANTS p1, p2, p3, a1, a2

Symmetry == Permutations(Processes) \cup Permutations(Artifacts)
=============================================================================
