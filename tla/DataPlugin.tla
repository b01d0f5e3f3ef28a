----------------------------- MODULE DataPlugin -----------------------------
(***************************************************************************)
(* The data plugin D of a storage: it fetches files from peers             *)
(* (check_task, do_recv_task, svc_recv), serves theirs (do_send_task,      *)
(* svc_send) and takes the uploads of clients that talk to it              *)
(* (do_push_task).  One thread; dpc = "poll" is the epoll loop of          *)
(* network/pfs_so.c, "run" the loop of check_task, "answer" the part of a  *)
(* handler that follows its pfs_set_task.                                  *)
(***************************************************************************)
EXTENDS StorageState

dlocal == <<dpc, donce, dlast>>
dothers == <<uvars, svars>>   \* what the other threads own

-----------------------------------------------------------------------------
\* Connections.

\* accept_new and svc_initconn.
DAccept(c, ip) ==
    /\ dpc = "poll" /\ dconn[c] = Closed
    /\ dconn' = [dconn EXCEPT ![c] = [Closed EXCEPT !.stat = "CONNECTED", !.ip = ip]]
    /\ UNCHANGED <<queues, dlocal, dothers, disk, history>>

\* Mutant of DFini: svc_finiconn queues recvtask and sendtask unconditionally.
DFiniUnchecked(c) ==
    /\ loc' = [t \in Task \cup {dconn[c].recvtask} |-> IF t = dconn[c].recvtask THEN "WAIT" ELSE loc[t]]
    /\ dconn' = [dconn EXCEPT ![c] = Closed]
    /\ UNCHANGED rec

\* svc_finiconn: an unfinished send is over, an unfinished receive is retried.
DFini(c) ==
    LET p == dconn[c]
    IN  /\ Move([t \in Task |-> CASE t = p.sendtask -> "FIN"
                                  [] t = p.recvtask -> "WAIT"
                                  [] OTHER -> loc[t]])
        /\ rec' = [t \in Task |-> CASE t = p.sendtask -> [rec[t] EXCEPT !.over = "FAILED"]
                                    [] t = p.recvtask -> [rec[t] EXCEPT !.retry = @ + 1]
                                    [] OTHER -> rec[t]]
        /\ dconn' = [dconn EXCEPT ![c] = Closed]

\* do_close: the peer closed, an error, svc_timeout, or svc_send after a
\* handler set close or a file was sent short.
DClose(c) ==
    /\ dpc = "poll" /\ dconn[c] # Closed
    /\ DFini(c)
    /\ UNCHANGED <<dlocal, dothers, disk, history>>

-----------------------------------------------------------------------------
\* check_task, called by svc_timeout.

\* Mutant of DTimer: the records of TASK_Q_WAIT_TMP are left there.
DTimerKeeps ==
    /\ dpc = "poll"
    /\ dpc' = "run" /\ donce' = 0
    /\ UNCHANGED <<queues, dconn, dlast, dothers, disk, history>>

\* The records of TASK_Q_WAIT_TMP go back to TASK_Q_WAIT.
DTimer ==
    /\ dpc = "poll"
    /\ Move([t \in Task |-> IF loc[t] = "WAIT_TMP" THEN "WAIT" ELSE loc[t]])
    /\ dpc' = "run" /\ donce' = 0
    /\ UNCHANGED <<rec, dconn, dlast, dothers, disk, history>>

MoreToRun == donce + 1 < max_task_run_once

\* pfs_get_task on TASK_Q_WAIT, or on TASK_Q_SYNC_DIR when that is empty.
DRuns(t) ==
    /\ dpc = "run" /\ MoreToRun
    /\ loc[t] = "WAIT" \/ (loc[t] = "SYNC_DIR" /\ On("WAIT") = {})
    /\ donce' = donce + 1
    /\ UNCHANGED <<dpc, dlast, dothers, disk, history>>

DRunEnd ==
    /\ dpc = "run"
    /\ ~MoreToRun \/ On("WAIT") \cup On("SYNC_DIR") = {}
    /\ dpc' = "poll" /\ donce' = 0
    /\ UNCHANGED <<queues, dconn, dlast, dothers, disk, history>>

Fetch(t) == rec[t].oper \in {"GET_REQ", "FROM_POSS"}

\* Mutant of TooMany: the comparison with g_config.retry is left out.
TooManyNever(t) == FALSE

TooMany(t) == rec[t].retry > retry

\* check_localfile_md5; a task of POSS has fsize 0 and is not looked up until a
\* peer has answered with the size and md5.
OnDisk(t) == rec[t].sized /\ rec[t].file \in disk

\* The task is over before anything is requested.
DRefuse(t) ==
    /\ DRuns(t)
    /\ \/ TooMany(t) /\ Finish(t, "FAILED")
       \/ ~TooMany(t) /\ OnDisk(t) /\ Finish(t, "OK")
       \/ ~TooMany(t) /\ ~OnDisk(t) /\ ~Fetch(t) /\ Finish(t, "FAILED")
    /\ UNCHANGED dconn

Wanted(t) == ~TooMany(t) /\ ~OnDisk(t) /\ Fetch(t)

\* check_disk_space finds a bad disk.
DDiskErr(t) ==
    /\ DRuns(t) /\ Wanted(t)
    /\ Finish(t, "FAILED")
    /\ UNCHANGED dconn

IdleTo(ip) == {c \in DConn : dconn[c].stat = "IDLE" /\ dconn[c].mode = "ACTIVE" /\ dconn[c].ip = ip}

\* get_ip_connect_count.
ActiveTo(ip) == {c \in DConn : dconn[c].mode = "ACTIVE" /\ dconn[c].ip = ip}

\* Too little disk space, too many connections, or connect failed.
DPostpone(t) ==
    /\ DRuns(t) /\ Wanted(t)
    /\ Put(t, "WAIT_TMP", rec[t])
    /\ UNCHANGED dconn

\* CMD_GET_FILE_REQ goes out on connection c.
Ask(t, c, p) ==
    /\ Hold(t, "RECV", rec[t])
    /\ dconn' = [dconn EXCEPT ![c] = [p EXCEPT !.stat = "PREPARE_RECVFILE", !.recvtask = t]]

DRequest(t, c) ==
    /\ DRuns(t) /\ Wanted(t)
    /\ c \in IdleTo(rec[t].ip)
    /\ Ask(t, c, dconn[c])

\* Mutant of MayConnect: connections are not counted.
MayConnectUncounted(ip) == IdleTo(ip) = {}

MayConnect(ip) == IdleTo(ip) = {} /\ Cardinality(ActiveTo(ip)) <= max_data_connects

\* active_connect.
DConnect(t, c) ==
    /\ DRuns(t) /\ Wanted(t)
    /\ dconn[c] = Closed /\ MayConnect(rec[t].ip)
    /\ Ask(t, c, [Closed EXCEPT !.mode = "ACTIVE", !.ip = rec[t].ip])

-----------------------------------------------------------------------------
\* Requests and answers that arrive.

\* do_recv_task, the answer to CMD_GET_FILE_REQ: the peer could not open the
\* file, or the temporary file cannot be opened (the task skips TASK_Q_FIN), or
\* data follow.  The first two return RECV_CLOSE.
DAnswered(c) ==
    LET t == dconn[c].recvtask
    IN  /\ dpc = "poll" /\ dconn[c].stat = "PREPARE_RECVFILE" /\ t # NoTask
        /\ \/ Finish(t, "FAILED") /\ dconn' = [dconn EXCEPT ![c] = Closed]
           \/ /\ Put(t, "CLEAN", [rec[t] EXCEPT !.over = "FAILED"])
              /\ dconn' = [dconn EXCEPT ![c] = Closed]
           \/ /\ dconn' = [dconn EXCEPT ![c].stat = "RECVFILEING"]
              /\ rec' = [rec EXCEPT ![t].sized = TRUE]
              /\ UNCHANGED loc
        /\ UNCHANGED <<dlocal, dothers, disk, history>>

Receiving(c) ==
    /\ dpc = "poll" /\ dconn[c].stat = "RECVFILEING"
    /\ dconn[c].recvtask # NoTask

\* Mutant of DReceived: recvtask is not reset.
DReceivedKept(c) ==
    /\ Receiving(c)
    /\ Finish(dconn[c].recvtask, "OK")
    /\ Install(rec[dconn[c].recvtask].file)
    /\ dconn' = [dconn EXCEPT ![c].stat = "IDLE"]
    /\ UNCHANGED <<dlocal, dothers, owed>>

\* svc_recv, the last byte and the md5 is right: create_push_rsp answers an
\* upload before the record is queued.
DReceived(c) ==
    LET t == dconn[c].recvtask
    IN  /\ Receiving(c)
        /\ Finish(t, "OK")
        /\ Install(rec[t].file)
        /\ dconn' = [dconn EXCEPT ![c].stat = "IDLE", ![c].recvtask = NoTask,
                                  ![c].close = @ \/ Source(rec[t])]
        /\ IF Source(rec[t]) THEN Owe(rec[t].file, FALSE) ELSE UNCHANGED owed
        /\ UNCHANGED <<dlocal, dothers>>

\* svc_recv, the md5 is wrong: the record is queued first, and sock_stat stays.
DBadMd5(c) ==
    LET t == dconn[c].recvtask
    IN  /\ Receiving(c)
        /\ Finish(t, "E_MD5")
        /\ dconn' = [dconn EXCEPT ![c].recvtask = NoTask]
        /\ dpc' = "answer" /\ dlast' = [c |-> c, t |-> t]
        /\ UNCHANGED <<donce, dothers, disk, history>>

\* svc_recv, write failed: an upload is answered with an error and closed.
DWriteErr(c) ==
    /\ Receiving(c)
    /\ rec[dconn[c].recvtask].oper = "PUT_REQ"
    /\ dconn' = [dconn EXCEPT ![c].close = TRUE]
    /\ UNCHANGED <<queues, dlocal, dothers, disk, history>>

\* The record do_send_task leaves behind when it sets sendtask again: it stays on
\* TASK_Q_SEND, from which no thread takes a record.
Forgotten(c) == [t \in Task |-> IF t = dconn[c].sendtask THEN "LOST" ELSE loc[t]]

\* do_send_task: CMD_GET_FILE_REQ of a peer, on a connection that the peer opened
\* (its check_task asks on no other).  The peer thinks the connection idle, but
\* this end may still be sending: when the file has become shorter than the size
\* it was announced with, the peer can be done with it before this end is (see
\* module FileTransfer).  A file that is not there, or no record, is an error
\* answer and changes nothing.
DServe(c, t, f) ==
    LET r == [Blank EXCEPT !.oper = "GET_RSP", !.file = f, !.ip = dconn[c].ip]
    IN  /\ dpc = "poll" /\ dconn[c].mode = "PASSIVE" /\ dconn[c].ip \in Peer
        /\ dconn[c].stat \in {"CONNECTED", "IDLE", "SENDFILEING"}
        /\ loc[t] = "HOME"
        /\ \/ /\ f \in disk
              /\ loc' \in {[Forgotten(c) EXCEPT ![t] = q] : q \in {"SEND", "UNKNOWN"}}
              /\ rec' = [rec EXCEPT ![t] = r]
              /\ dconn' = [dconn EXCEPT ![c].sendtask = t, ![c].stat = "SENDFILEING"]
           \/ Put(t, "FIN", [r EXCEPT !.over = "FAILED"]) /\ UNCHANGED dconn
        /\ UNCHANGED <<dlocal, dothers, disk, history>>

\* svc_send when the whole file has been sent.
DSent(c) ==
    /\ dpc = "poll" /\ dconn[c].stat = "SENDFILEING"
    /\ Finish(dconn[c].sendtask, "OK")
    /\ dconn' = [dconn EXCEPT ![c].stat = "IDLE", ![c].sendtask = NoTask]
    /\ UNCHANGED <<dlocal, dothers, disk, history>>

\* A message of a client is looked at: not while the bytes are those of a file.
DListens(c) == dpc = "poll" /\ dconn[c].stat \in Listening /\ dconn[c].ip \in Client

\* do_push_task when pfs_get_task fails: malloc failed or the lock timed out.
DPutNoTask(c) ==
    /\ DListens(c)
    /\ dconn' = [dconn EXCEPT ![c].stat = "PREPARE_RECVFILE", ![c].close = TRUE]
    /\ UNCHANGED <<queues, dlocal, dothers, disk, history>>

\* do_push_task: an upload opens its temporary file, or fails to and goes to
\* TASK_Q_CLEAN; a delete is over at once and is answered after it is queued.
DPut(c, t, f, del) ==
    LET r == [Blank EXCEPT !.oper = "PUT_REQ", !.file = f, !.del = del, !.sized = TRUE, !.ip = dconn[c].ip]
        p == [dconn[c] EXCEPT !.stat = "PREPARE_RECVFILE"]
    IN  /\ DListens(c) /\ loc[t] = "HOME"
        /\ \/ /\ del
              /\ Remove(f)
              /\ Put(t, "FIN", [r EXCEPT !.over = "OK"])
              /\ dconn' = [dconn EXCEPT ![c] = p]
              /\ dpc' = "answer" /\ dlast' = [c |-> c, t |-> t]
              /\ Owe(f, TRUE)
           \/ /\ ~del
              /\ \/ /\ Hold(t, "UNKNOWN", r)
                    /\ dconn' = [dconn EXCEPT ![c] = [p EXCEPT !.stat = "RECVFILEING", !.recvtask = t]]
                 \/ /\ Put(t, "CLEAN", [r EXCEPT !.over = "FAILED"])
                    /\ dconn' = [dconn EXCEPT ![c] = [p EXCEPT !.close = TRUE]]
              /\ UNCHANGED <<dpc, dlast, disk, owed>>
        /\ UNCHANGED <<donce, dothers, installed>>

\* The rest of svc_recv (wrong md5) and of do_push_task (delete): oper_type is
\* read from a record the other threads may have taken meanwhile.
DAnswer ==
    LET c == dlast.c
    IN  /\ dpc = "answer"
        /\ dconn' = [dconn EXCEPT ![c].close =
                        @ \/ dconn[c].stat = "PREPARE_RECVFILE" \/ rec[dlast.t].oper = "PUT_REQ"]
        /\ dpc' = "poll" /\ dlast' = NoLast
        /\ UNCHANGED <<queues, donce, dothers, disk, history>>

-----------------------------------------------------------------------------
DConnStep(c) ==
    \/ DClose(c) \/ DAnswered(c)
    \/ DReceived(c) \/ DBadMd5(c) \/ DWriteErr(c) \/ DSent(c)

DCheckTask(t) ==
    \/ DRefuse(t) \/ DDiskErr(t) \/ DPostpone(t)
    \/ \E c \in DConn : DRequest(t, c) \/ DConnect(t, c)

DNext ==
    \/ DTimer \/ DRunEnd \/ DAnswer
    \/ \E t \in Task : DCheckTask(t)
    \/ \E c \in DConn :
        \/ DConnStep(c) \/ DPutNoTask(c)
        \/ \E ip \in Peer \cup Client : DAccept(c, ip)
        \/ \E t \in Task, f \in File :
            DServe(c, t, f) \/ \E del \in BOOLEAN : DPut(c, t, f, del)
=============================================================================
