---------------------------- MODULE StorageNode -----------------------------
(***************************************************************************)
(* A storage process: the threads of the plugins D, U and S and of the     *)
(* agent (network/pfs_agent.c) on one set of task records.                 *)
(***************************************************************************)
EXTENDS DataPlugin, UploadPlugin, SigPlugin

\* do_scan: get_data_from_task reports a record of TASK_Q_CLEAN and frees it.
ACollect(t) ==
    /\ loc[t] = "CLEAN"
    /\ Put(t, "HOME", Blank)
    /\ UNCHANGED <<dvars, uvars, svars, disk, history>>

\* do_poss_sync_file: the POSS server orders a file from peer p.
ASyncFile(t, f, p) ==
    /\ loc[t] = "HOME"
    /\ Put(t, "WAIT", [Blank EXCEPT !.oper = "FROM_POSS", !.file = f, !.ip = p])
    /\ UNCHANGED <<dvars, uvars, svars, disk, history>>

\* do_poss_sync_dir: no thread reads TASK_Q_SYNC_POSS.
ASyncDir(t) ==
    /\ loc[t] = "HOME"
    /\ Put(t, "SYNC_POSS", Blank)
    /\ UNCHANGED <<dvars, uvars, svars, disk, history>>

ANext ==
    \E t \in Task :
        ACollect(t) \/ ASyncDir(t) \/ \E f \in File, p \in Peer : ASyncFile(t, f, p)

Next == DNext \/ UNext \/ SNext \/ ANext

Spec == Init /\ [][Next]_vars

\* Every thread goes on; a connection that is not closed moves on or times out
\* (svc_timeout); the queues are FIFO, so a record gets its turn; with
\* check_task_timeout a record that waits is found too old in the end.
Fairness ==
    /\ WF_vars(DTimer \/ DRunEnd \/ DAnswer)
    /\ WF_vars(UAnswer)
    /\ WF_vars(STimer \/ SFinEnd \/ SExpireEnd)
    /\ \A c \in DConn : SF_vars(DConnStep(c))
    /\ \A c \in UConn : SF_vars(UConnStep(c))
    /\ \A t \in Task :
        SF_vars(DCheckTask(t)) /\ SF_vars(SFin(t)) /\ SF_vars(SExpire(t)) /\ WF_vars(ACollect(t))

FairSpec == Spec /\ Fairness

-----------------------------------------------------------------------------
\* Type correctness of the records, connections and threads of a storage.
TypeOK ==
    /\ loc \in [Task -> Queue \cup {"UNKNOWN", "LOST"}]
    /\ rec \in [Task -> Record]
    /\ dconn \in [DConn -> Conn] /\ uconn \in [UConn -> Conn]
    /\ dpc \in {"poll", "run", "answer"} /\ upc \in {"poll", "answer"} /\ spc \in {"poll", "fin", "expire"}
    /\ donce \in 0..max_task_run_once
    /\ dlast \in [c : DConn \cup {NoConn}, t : Task \cup {NoTask}]
    /\ ulast \in [c : UConn \cup {NoConn}, t : Task \cup {NoTask}]
    /\ sig \subseteq Peer /\ disk \subseteq File /\ installed \subseteq File
    /\ owed \subseteq File \X BOOLEAN \X Peer

Holds(p, t) == t \in {p.recvtask, p.sendtask}

\* The connections that hold a record.
Holders(t) == {c \in DConn : Holds(dconn[c], t)} \cup {c \in UConn : Holds(uconn[c], t)}

\* A record is on TASK_Q_SEND, on TASK_Q_RECV or between queues exactly while
\* one connection has it as its sendtask or recvtask: no other thread takes it
\* meanwhile and no closed connection leaves it behind.  (One that do_send_task
\* overwrote or for which pfs_set_task failed is LOST, and no connection has it.)
HeldByOne ==
    \A t \in Task :
        /\ Cardinality(Holders(t)) = (IF loc[t] \in {"SEND", "RECV", "UNKNOWN"} THEN 1 ELSE 0)
        /\ loc[t] = "SEND" => \E c \in DConn : dconn[c].sendtask = t
        /\ loc[t] = "RECV" => \E c \in DConn : dconn[c].recvtask = t /\ Fetch(t)

\* svc_finiconn and do_fin_task both count retries; together they never take
\* the count more than one beyond g_config.retry, so the uint8_t cannot wrap.
RetryBound == \A t \in Task : rec[t].retry <= retry + 1

\* The record stands for what is owed to peer p.
Carries(t, f, del, p) ==
    /\ rec[t].file = f /\ rec[t].del = del
    /\ \/ loc[t] = "FIN" /\ Announces(t)
       \/ loc[t] \in {"WAIT_SYNC", "WAIT_SYNC_IP"} /\ rec[t].ip = p
       \/ loc[t] = "LOST" /\ (Announces(t) \/ rec[t].ip = p)

\* What a client was told is done (create_push_rsp) is on its way to every
\* peer: NEWTASK_REQ was sent, a record is queued for it, or the record could
\* not be made (create_delay_task), was too old (check_task_timeout) or was LOST
\* (pfs_set_task got no mutex).
OwedIsCarried == \A o \in owed : \E t \in Task : Carries(t, o[1], o[2], o[3])

\* Peers are told only of a file (name and md5) that this storage has had on its
\* disk.  An upload that ended with a wrong md5 goes back to TASK_Q_WAIT
\* (do_fin_task), from where check_task gives it OVER_OK when it finds that very
\* file on the disk; it is never announced without the file having been there.
AnnouncedWasInstalled ==
    \A t \in Task :
        /\ ~rec[t].del /\ rec[t].file \in Watched
        /\ loc[t] \in {"WAIT_SYNC", "WAIT_SYNC_IP"} \/ (loc[t] = "FIN" /\ Announces(t))
        => rec[t].file \in installed

\* check_task opens at most max_data_connects + 1 connections to a peer,
\* those counted whose transfer failed and that wait to be closed.
ConnBound == \A p \in Peer : Cardinality(ActiveTo(p)) <= max_data_connects + 1

\* svc_recv of the data plugin reads oper_type after it has queued the record.
\* Whatever the other threads did to the record, a fetch is not taken for an
\* upload: no CMD_PUT_FILE_RSP goes to a peer.
NoPushRspToPeer ==
    dpc = "answer" /\ dconn[dlast.c].mode = "ACTIVE" => rec[dlast.t].oper # "PUT_REQ"

\* A record that leaves TASK_Q_HOME comes back, also when check_task_timeout is
\* off, unless it is a directory ordered by POSS or was LOST; or check_task
\* postpones it again and again (a full disk, a peer that cannot be connected to:
\* not counted as a retry); or it is for a peer that has no signalling
\* connection.
RecordComesBack ==
    \A t \in Task :
        \/ loc[t] # "HOME" ~> loc[t] \in {"HOME", "SYNC_POSS", "LOST"}
        \/ []<><<DPostpone(t)>>_vars
        \/ []<>(loc[t] = "WAIT_SYNC_IP" /\ rec[t].ip \notin sig)

\* lib/pfs_task.h: base.retry may not exceed the configured number of retries.
RetryWithinSetting == \A t \in Task : loc[t] = "RECV" => rec[t].retry <= pfs_retry

\* An upload that ends with a wrong md5 is answered: svc_recv of the upload
\* plugin still finds OPER_UP_REQ in the record.
FailedUploadAnswered ==
    upc = "answer" /\ uconn[ulast.c].stat = "RECVFILEING" => rec[ulast.t].oper = UpOper
=============================================================================
