--------------------------- MODULE MCStorageNode ----------------------------
EXTENDS StorageNode, TLC

\* Records are taken from TASK_Q_HOME in any order, and no step prefers a
\* connection or a peer.
Symmetry ==
    {t @@ c @@ p : t \in Permutations(Task), c \in Permutations(DConn), p \in Permutations(Peer)}
=============================================================================
