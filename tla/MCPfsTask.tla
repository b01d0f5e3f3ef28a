----------------------------- MODULE MCPfsTask ------------------------------
(* Three records, two of them in the initial pool, and two or three threads. *)
EXTENDS PfsTask

CONSTANTS t1, t2, t3

MCtaskall == <<t1, t2>>
MCTask == {t1, t2, t3}
\* Two records are enough for a scan to wait for the mutex of TASK_Q_HOME.
Livetaskall == <<t1>>
LiveTask == {t1, t2}
MCQueue == {"HOME", "CLEAN", "WAIT", "RECV"}
=============================================================================
