----------------------------- MODULE MCSyncStore -----------------------------
EXTENDS Startup, TLC

CONSTANTS d1, d2

Symmetric == Permutations(Device)

\* Ids in the order they are drawn.
DrawnInOrder == [d \in Device |-> [k \in 1..MaxCounter |-> k]]

\* Ids are random, so a device may draw them in the opposite order too.
DrawnInReverse == [d \in Device |-> [k \in 1..MaxCounter |-> MaxCounter - k]]

\* Revisions with an authenticator, so that each can become a witness: only
\* tombstones, or live ones and tombstones.
Deletions == {<<TRUE, TRUE>>}
WitnessShapes == {<<FALSE, TRUE>>, <<TRUE, TRUE>>}

=============================================================================
