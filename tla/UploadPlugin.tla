---------------------------- MODULE UploadPlugin ----------------------------
(***************************************************************************)
(* The upload plugin U of a storage: it takes the uploads and deletes of   *)
(* clients on connections of its own.  Its records go to no queue while    *)
(* data arrive (loc = "UNKNOWN").  A connection ends when the client       *)
(* closes it or svc_timeout does: svc_send does not look at close, which   *)
(* is left out here with the answers that set it.                          *)
(***************************************************************************)
EXTENDS StorageState

uothers == <<dvars, svars>>

UAccept(c, ip) ==
    /\ upc = "poll" /\ uconn[c] = Closed
    /\ uconn' = [uconn EXCEPT ![c] = [Closed EXCEPT !.stat = "CONNECTED", !.ip = ip]]
    /\ UNCHANGED <<queues, upc, ulast, uothers, disk, history>>

\* Mutant of UClose: svc_finiconn does not queue recvtask.
UCloseForgets(c) ==
    /\ upc = "poll" /\ uconn[c] # Closed
    /\ uconn' = [uconn EXCEPT ![c] = Closed]
    /\ UNCHANGED <<queues, upc, ulast, uothers, disk, history>>

\* do_close and svc_finiconn: OVER_UP_ERR, and no retry.
UClose(c) ==
    LET t == uconn[c].recvtask
    IN  /\ upc = "poll" /\ uconn[c] # Closed
        /\ IF t # NoTask THEN Finish(t, "FAILED") ELSE UNCHANGED queues
        /\ uconn' = [uconn EXCEPT ![c] = Closed]
        /\ UNCHANGED <<upc, ulast, uothers, disk, history>>

\* A message is looked at; a client may send several on one connection.
UListens(c) == upc = "poll" /\ uconn[c].stat \in Listening

\* do_push_task: ADD_QUERY_DIR is answered at once (do_query_other), and so is a
\* request for which there is no record.
UAnswerOnly(c) ==
    /\ UListens(c)
    /\ \E stat \in {uconn[c].stat, "PREPARE_RECVFILE"} :
        uconn' = [uconn EXCEPT ![c].stat = stat]
    /\ UNCHANGED <<queues, upc, ulast, uothers, disk, history>>

\* Mutant of UpOper: the operation of the data plugin.
UpOperData == "PUT_REQ"

UpOper == "UP_REQ"

\* do_push_task with a record, as in the data plugin.
UPush(c, t, f, del) ==
    LET r == [Blank EXCEPT !.oper = UpOper, !.file = f, !.del = del, !.sized = TRUE, !.ip = uconn[c].ip]
        p == [uconn[c] EXCEPT !.stat = "PREPARE_RECVFILE"]
    IN  /\ UListens(c) /\ loc[t] = "HOME"
        /\ \/ /\ del
              /\ Remove(f)
              /\ Put(t, "FIN", [r EXCEPT !.over = "OK"])
              /\ uconn' = [uconn EXCEPT ![c] = p]
              /\ upc' = "answer" /\ ulast' = [c |-> c, t |-> t]
              /\ Owe(f, TRUE)
           \/ /\ ~del
              /\ \/ /\ Hold(t, "UNKNOWN", r)
                    /\ uconn' = [uconn EXCEPT ![c] = [p EXCEPT !.stat = "RECVFILEING", !.recvtask = t]]
                 \/ /\ Put(t, "CLEAN", [r EXCEPT !.over = "FAILED"])
                    /\ uconn' = [uconn EXCEPT ![c] = p]
              /\ UNCHANGED <<upc, ulast, disk, owed>>
        /\ UNCHANGED <<uothers, installed>>

\* svc_recv has data for a file; one that cannot be written is answered with an
\* error, and data may go on arriving.
UReceiving(c) == upc = "poll" /\ uconn[c].stat = "RECVFILEING" /\ uconn[c].recvtask # NoTask

\* svc_recv at the last byte, md5 right.
UReceived(c) ==
    LET t == uconn[c].recvtask
    IN  /\ UReceiving(c)
        /\ Finish(t, "OK")
        /\ Install(rec[t].file)
        /\ Owe(rec[t].file, FALSE)
        /\ uconn' = [uconn EXCEPT ![c].stat = "IDLE", ![c].recvtask = NoTask]
        /\ UNCHANGED <<upc, ulast, uothers>>

\* svc_recv at the last byte, md5 wrong.
UBadMd5(c) ==
    LET t == uconn[c].recvtask
    IN  /\ UReceiving(c)
        /\ Finish(t, "E_MD5")
        /\ uconn' = [uconn EXCEPT ![c].recvtask = NoTask]
        /\ upc' = "answer" /\ ulast' = [c |-> c, t |-> t]
        /\ UNCHANGED <<uothers, disk, history>>

\* What do_push_task (delete) and svc_recv (wrong md5) do after pfs_set_task: the
\* client is answered, after a wrong md5 only if the record is still an upload.
UAnswer ==
    /\ upc = "answer"
    /\ upc' = "poll" /\ ulast' = NoLast
    /\ UNCHANGED <<queues, uconn, uothers, disk, history>>

UConnStep(c) ==
    UClose(c) \/ UReceived(c) \/ UBadMd5(c)

UNext ==
    \/ UAnswer
    \/ \E c \in UConn :
        \/ UConnStep(c) \/ UAnswerOnly(c)
        \/ \E ip \in Client : UAccept(c, ip)
        \/ \E t \in Task, f \in File, del \in BOOLEAN : UPush(c, t, f, del)
=============================================================================
