--------------------------- MODULE MCSnapshotHold ---------------------------
(* Small instances of SnapshotHold: runs of two landings, so that a        *)
(* transform can begin between the two halves of a snapshot.               *)
EXTENDS SnapshotHold, TLC

Interchangeable == Permutations(Runs)

=============================================================================
