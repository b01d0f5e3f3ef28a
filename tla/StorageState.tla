---------------------------- MODULE StorageState ----------------------------
(***************************************************************************)
(* The state the plugins of one storage process share: the task records,   *)
(* where each of them is (lib/pfs_task.h), the connections of the data and *)
(* the upload plugin, the signalling connections and the files on disk.    *)
(*                                                                         *)
(* Module PfsTask shows that a queue hands a record to one thread at a     *)
(* time.  Here a queue is the set of the records on it, and what a thread  *)
(* does between the pfs_get_task and the pfs_set_task of one record is one *)
(* step - except where the code goes on reading a record after the         *)
(* pfs_set_task; those handlers are two steps (dpc, upc = "answer").       *)
(* A pfs_set_task may fail to get its mutex in lock_timeout seconds, which *)
(* no caller looks at: the record is then on no queue.                     *)
(***************************************************************************)
EXTENDS Naturals, FiniteSets

CONSTANTS
    Task, NoTask,
    Peer,              \* the other storages of self_domain that are not offline
    Client,            \* the addresses of upload clients
    NoIp,
    File, NoFile,
    Watched,           \* the files whose history is kept
    DConn,             \* connections of the data plugin
    UConn,             \* connections of the upload plugin
    NoConn,
    pfs_retry,         \* the configured number of retries
    max_data_connects,
    max_task_run_once,
    MaxNewRetry,       \* bound on the retry count that comes with NEWTASK_REQ
    check_task_timeout \* whether do_timeout_task looks for old records

ASSUME StorageAssumption ==
    /\ pfs_retry \in Nat /\ max_data_connects \in Nat /\ max_task_run_once \in Nat
    /\ MaxNewRetry \in 0..(pfs_retry + 1)
    /\ NoTask \notin Task /\ Client \cap Peer = {} /\ NoIp \notin Peer \cup Client
    /\ check_task_timeout \in BOOLEAN
    /\ NoFile \notin File /\ Watched \subseteq File /\ NoConn \notin DConn \cup UConn

VARIABLES
    loc,      \* loc[t]: the queue t is on, or "UNKNOWN" between queues, or "LOST"
    rec,      \* rec[t]: the contents of task record t
    dconn,    \* the pfs_cs_peer of each data connection
    uconn,    \* the pfs_cs_peer of each upload connection
    dpc,      \* what the data thread is doing
    donce,    \* once_run of its check_task
    dlast,    \* the connection and record its handler still uses
    upc, ulast,
    spc,      \* what the signalling thread is doing
    sig,      \* the peers it has a connection to
    disk,     \* the files on disk with the md5 of their tasks
    \* History, read by no action:
    installed,  \* the watched files that have ever been on disk
    owed        \* <<f, del, p>>, f watched: a client was told OK, peer p was not told

queues == <<loc, rec>>
dvars == <<dconn, dpc, donce, dlast>>
uvars == <<uconn, upc, ulast>>
svars == <<spc, sig>>
history == <<installed, owed>>
vars == <<queues, dvars, uvars, svars, disk, history>>

-----------------------------------------------------------------------------
\* g_config.retry, as init_global computes it.
retry == pfs_retry + 1

\* The queues some thread of a storage puts a record on.  TASK_Q_DELAY,
\* TASK_Q_RUN and TASK_Q_SYNC_DIR_TMP are never used: sync_task_2_domain always
\* returns 0 and nothing sets need_sync to TASK_SYNC_ISDIR.
Queue == {"HOME", "WAIT", "WAIT_TMP", "SYNC_DIR", "WAIT_SYNC", "WAIT_SYNC_IP",
          "FIN", "CLEAN", "SEND", "RECV", "SYNC_POSS"}

\* oper_type.  need_sync follows from it: a client's request is TASK_SOURCE.
Oper == {"IDLE", "GET_REQ", "GET_RSP", "SYNC_2_DOMAIN", "PUT_REQ", "UP_REQ", "FROM_POSS"}

Source(r) == r.oper \in {"PUT_REQ", "UP_REQ"}

OverStatus == {"UNKNOWN", "OK", "E_MD5", "FAILED"}

\* t_task_base and t_task_sub.  FAILED stands for the over status values that
\* no code tells apart; sized is fsize > 0 (files are not empty here, module
\* FileTransfer has those that are).
Record == [oper : Oper, file : File \cup {NoFile}, del : BOOLEAN, sized : BOOLEAN,
           retry : Nat, over : OverStatus, ip : Peer \cup Client \cup {NoIp}]

\* A record on TASK_Q_HOME: memset clears it when it gets there or when it is
\* taken, and a reader that is late only asks whether it is an upload.
Blank == [oper |-> "IDLE", file |-> NoFile, del |-> FALSE, sized |-> FALSE,
          retry |-> 0, over |-> "UNKNOWN", ip |-> NoIp]

SockStat == {"LOGOUT", "CONNECTED", "IDLE", "PREPARE_RECVFILE", "RECVFILEING", "SENDFILEING"}

\* check_req looks for a message in these states.
Listening == {"CONNECTED", "IDLE", "PREPARE_RECVFILE"}

\* pfs_cs_peer of the data and upload plugins; LOGOUT is a closed connection.
Conn == [stat : SockStat, mode : {"ACTIVE", "PASSIVE"}, ip : Peer \cup Client \cup {NoIp},
         recvtask : Task \cup {NoTask}, sendtask : Task \cup {NoTask}, close : BOOLEAN]

Closed == [stat |-> "LOGOUT", mode |-> "PASSIVE", ip |-> NoIp,
           recvtask |-> NoTask, sendtask |-> NoTask, close |-> FALSE]

NoLast == [c |-> NoConn, t |-> NoTask]

-----------------------------------------------------------------------------
Init ==
    /\ loc = [t \in Task |-> "HOME"]
    /\ rec = [t \in Task |-> Blank]
    /\ dconn = [c \in DConn |-> Closed]
    /\ uconn = [c \in UConn |-> Closed]
    /\ dpc = "poll" /\ donce = 0 /\ dlast = NoLast
    /\ upc = "poll" /\ ulast = NoLast
    /\ spc = "poll" /\ sig = {}
    /\ disk = {}
    /\ installed = {} /\ owed = {}

On(q) == {t \in Task : loc[t] = q}

\* pfs_set_task of the records that are elsewhere in l.  One for which it fails is
\* LOST: no queue from which it would be taken has it, and its caller goes on.
Move(l) ==
    \E S \in SUBSET {t \in Task : l[t] # loc[t]} :
        loc' = [t \in Task |-> IF t \in S THEN "LOST" ELSE l[t]]

\* pfs_set_task after the fields of the record were assigned.
Put(t, q, r) ==
    /\ Move([loc EXCEPT ![t] = q])
    /\ rec' = [rec EXCEPT ![t] = r]

\* A connection has the record: on queue q, or between queues where there is no
\* pfs_set_task (q = "UNKNOWN") or it fails.
Hold(t, q, r) ==
    /\ loc' \in {[loc EXCEPT ![t] = at] : at \in {q, "UNKNOWN"}}
    /\ rec' = [rec EXCEPT ![t] = r]

Finish(t, over) == Put(t, "FIN", [rec[t] EXCEPT !.over = over])

\* A client is told that its change was made: every peer has to hear of it.
Owe(f, del) == owed' = owed \cup ({f} \cap Watched) \X {del} \X Peer

\* close_tmp_check_mv renames the temporary file.
Install(f) == disk' = disk \cup {f} /\ installed' = installed \cup ({f} \cap Watched)

\* delete_localfile renames the file away.
Remove(f) == disk' = disk \ {f}
=============================================================================
