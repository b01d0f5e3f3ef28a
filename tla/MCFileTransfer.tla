--------------------------- MODULE MCFileTransfer ---------------------------
(* A file that is two blocks, one or none; then one of a single block. *)
EXTENDS FileTransfer
CONSTANTS t1, t2, long, short, empty
MCTask == {t1, t2}
MCFileOf == (t1 :> "a") @@ (t2 :> "b")
MCVersion == [a |-> {long, short, empty}, b |-> {short}]
MCSize == (long :> 2) @@ (short :> 1) @@ (empty :> 0)
=============================================================================
