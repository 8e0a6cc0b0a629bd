--------------------------- MODULE MCSyncProgress ---------------------------
EXTENDS SyncProgress

CONSTANTS d1, d2

DrawnInOrder == [d \in Device |-> [k \in 1..MaxCounter |-> k]]

\* A live revision without an authenticator, which nothing can be collected
\* under, and a tombstone with one.
EditOrDelete == {<<FALSE, FALSE>>, <<TRUE, TRUE>>}

=============================================================================
