--------------------------- MODULE MCArtifactStore ---------------------------
(* Small instances of ArtifactStore for TLC. Clients are interchangeable, and *)
(* so are the saves.                                                          *)
EXTENDS ArtifactStore, TLC

Symmetry == Permutations(Clients) \cup Permutations(SaveIds)
=============================================================================
