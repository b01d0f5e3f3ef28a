---------------------------- MODULE MCSyncServe -----------------------------
(* Two files in directory d1; d2, in MCDir, is empty. *)
EXTENDS SyncServe
CONSTANTS d1, d2, f1, f2
MCDir1 == {d1}
MCDir == {d1, d2}
MCFile == {f1, f2}
MCDirOf == [f \in MCFile |-> d1]
=============================================================================
