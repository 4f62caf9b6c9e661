--------------------------- MODULE MCCommitHelper ---------------------------
(* CommitHelper with few users and commits.                                *)
EXTENDS CommitHelper, TLC

HelperSymmetry == Permutations(Users) \cup Permutations(Commits)

\* The properties tell disturbances apart by kind: explore histories with one kind.
OneKindOfDisturbance == Cardinality(disturbances) <= 1
=============================================================================
