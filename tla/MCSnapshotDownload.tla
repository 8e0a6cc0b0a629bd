------------------------- MODULE MCSnapshotDownload -------------------------
(* A small instance of SnapshotDownload for TLC. *)
EXTENDS SnapshotDownload

CONSTANT d1

\* Ids in the order they are drawn.
DrawnInOrder == [d \in Device |-> [k \in 1..MaxCounter |-> k]]

\* Live revisions and tombstones, all of which can become witnesses.
WitnessShapes == {<<FALSE, TRUE>>, <<TRUE, TRUE>>}

=============================================================================
