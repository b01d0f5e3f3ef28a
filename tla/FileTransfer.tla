---------------------------- MODULE FileTransfer ----------------------------
(***************************************************************************)
(* The bytes of the files one storage fetches from another, one after the  *)
(* other over the same data connection: the epoll loop of pfs_so.c with    *)
(* its buffers (mybuff.c) at both ends, the plugin D on top of it, and the *)
(* temporary file.  A block stands for some bytes; a message is two        *)
(* blocks, so it can arrive in parts.  An md5 is the content it is of.     *)
(***************************************************************************)
EXTENDS Integers, Sequences, FiniteSets, SequencesExt

CONSTANTS
    Task, FileOf,   \* the fetches, and the file each is for
    Version, Size,  \* Version[f]: the contents file f can have; and their length
    retry,          \* g_config.retry
    NoFile,         \* no such file, no descriptor, no md5
    NoTask,         \* a null pointer
    SockBuf,        \* blocks that fit into a direction of the connection
    MaxFaults,      \* bound on broken connections and local i/o errors
    MaxChanges      \* bound on changes of the files by other threads

ASSUME FileTransferAssumption ==
    /\ \A t \in Task : \A v \in Version[FileOf[t]] : Size[v] \in Nat
    /\ retry \in Nat /\ SockBuf \in Nat \ {0} /\ MaxFaults \in Nat /\ MaxChanges \in Nat
    /\ NoTask \notin Task

VARIABLES
    conn,       \* conn[e]: struct conn of end e
    net,        \* net[e]: what the socket of e can still deliver
    gpeer,      \* pfs_cs_peer of the end that fetches
    speer,      \* pfs_cs_peer of the end that serves
    task,       \* the records of the fetching storage
    dst,        \* its files
    src,        \* the files of the serving storage
    spins,      \* do_send of the serving end loops for ever
    faults, changes,
    \* History, read by no action:
    serving,    \* the content of the file last opened to be served
    torn        \* a file was served with an md5 it had neither at stat nor at open

history == <<serving, torn>>
vars == <<conn, net, gpeer, speer, task, dst, src, spins, faults, changes, history>>

End == {"get", "serve"}
Other(e) == IF e = "get" THEN "serve" ELSE "get"
File == {FileOf[t] : t \in Task}
Content(f, v) == [i \in 1..Size[v] |-> [k |-> "data", f |-> f, v |-> v, i |-> i]]
Contents(f) == {Content(f, v) : v \in Version[f]}
HeadLen == 2
Msg(status, f, b) == <<[k |-> "head", status |-> status, f |-> f, base |-> b], [k |-> "body"]>>
IsMsg(s) == Len(s) >= HeadLen
NoSend == [ino |-> NoFile, off |-> 0, len |-> 0]
Closed == [open |-> FALSE, data |-> <<>>, file |-> NoSend, recv |-> <<>>, send_len |-> 0, out |-> FALSE]
GDown == [stat |-> "LOGOUT", recvtask |-> NoTask, tmp |-> NoFile, fresh |-> TRUE, hashed |-> <<>>]
SDown == [stat |-> "LOGOUT", processlen |-> 0, headlen |-> 0]

\* A fetch is announced with the size and md5 of some version, perhaps no longer
\* the current one, or comes without them (from POSS).
Announced(f) == {[md5 |-> c, fsize |-> Len(c), retry |-> 0] : c \in Contents(f)}
                \cup {[md5 |-> NoFile, fsize |-> 0, retry |-> 0]}

Waiting(b) == [q |-> "WAIT", over |-> "UNKNOWN", base |-> b, lastlen |-> 0, processlen |-> b.fsize]

Init ==
    /\ conn = [e \in End |-> Closed]
    /\ net = [e \in End |-> <<>>]
    /\ gpeer = GDown /\ speer = SDown
    /\ \E a \in [Task -> UNION {Announced(f) : f \in File}] :
        /\ \A t \in Task : a[t] \in Announced(FileOf[t])
        /\ task = [t \in Task |-> Waiting(a[t])]
    /\ dst = [f \in File |-> NoFile]
    /\ src \in {s \in [File -> UNION {Contents(f) : f \in File} \cup {NoFile}] :
                    \A f \in File : s[f] \in Contents(f) \cup {NoFile}}
    /\ spins = FALSE /\ faults = 0 /\ changes = 0 /\ serving = <<>> /\ torn = FALSE

-----------------------------------------------------------------------------
\* mybuff.c.  setdata appends to data or recv; setfile replaces the file.

mybuff_skipdata(s, n) == IF n >= Len(s) THEN <<>> ELSE SubSeq(s, n + 1, Len(s))

mybuff_setfile(ino, len) == [ino |-> ino, off |-> 0, len |-> len]

mybuff_getfile(file) == file.ino # NoFile /\ file.len > 0

\* Mutant of mybuff_skipfile: foffset is not advanced.
SkipFileStays(file, n) ==
    IF file.len <= n THEN NoSend ELSE [file EXCEPT !.len = @ - n]

mybuff_skipfile(file, n) ==
    IF file.len <= n THEN NoSend ELSE [file EXCEPT !.off = @ + n, !.len = @ - n]

\* The first n bytes of the buffer once mybuff_skipdata has moved the rest of it
\* to the front: svc_recv hashes these.
Moved(s, n) ==
    LET rest == Len(s) - n
    IN  [i \in 1..n |-> IF rest > 0 /\ i <= rest THEN s[i + n] ELSE s[i]]

-----------------------------------------------------------------------------
\* Connections.

Fault == faults < MaxFaults /\ faults' = faults + 1

\* Mutant of add_fd_2_efd: recv_buff is not reset.
AddFdDirty(c) == [c EXCEPT !.open = TRUE, !.data = <<>>, !.file = NoSend, !.send_len = 0, !.out = FALSE]

\* add_fd_2_efd after svc_initconn.
add_fd_2_efd(c) == [c EXCEPT !.open = TRUE, !.data = <<>>, !.file = NoSend, !.recv = <<>>,
                             !.send_len = 0, !.out = FALSE]

Requeued(r) == [r EXCEPT !.q = "WAIT", !.base.retry = @ + 1]

\* svc_finiconn.  The temporary file is removed.
svc_finiconn(e) ==
    IF e = "get"
    THEN /\ task' = [t \in Task |-> IF t = gpeer.recvtask THEN Requeued(task[t]) ELSE task[t]]
         /\ gpeer' = GDown /\ UNCHANGED speer
    ELSE speer' = SDown /\ UNCHANGED <<task, gpeer>>

\* close: what the socket of e could still deliver is lost.  So is what the other
\* end has still to read if that makes the connection be reset.
CloseNet(e) ==
    net' = [net EXCEPT ![e] = <<>>, ![Other(e)] = IF net[e] = <<>> THEN @ ELSE <<>>]

\* The thread of e gets back to its loop.
Runs(e) == conn[e].open /\ ~(e = "serve" /\ spins)

\* do_close of an open end.  The buffers stay as they are.
do_close(e) ==
    /\ Runs(e)
    /\ svc_finiconn(e)
    /\ conn' = [conn EXCEPT ![e].open = FALSE, ![e].out = FALSE]
    /\ CloseNet(e)
    /\ UNCHANGED <<dst, src, spins, changes, history>>

\* recv returns 0.  A last recv that filled the whole buffer is followed by
\* another one before svc_recv, so its data may not be looked at.
PeerClosed(e) ==
    /\ ~conn[Other(e)].open
    /\ do_close(e)
    /\ UNCHANGED faults

\* A reset, an error event, or svc_timeout just as the other end sends.
Break(e) ==
    /\ Fault
    /\ do_close(e)

\* sendfile returns 0: the file that was opened is shorter than fsize.
Stuck(e) == conn[e].out /\ conn[e].data = <<>> /\ mybuff_getfile(conn[e].file)
            /\ conn[e].file.off >= Len(conn[e].file.ino)

\* No event is pending that e would handle.
Quiet(e) == ~Runs(e) \/ (net[e] = <<>> /\ (~conn[e].out \/ Stuck(e)))

\* svc_timeout: no event for longer than ten times g_config.timeout.  A sendfile
\* that returns 0 does not count as one.
Timeout(e) ==
    /\ conn[Other(e)].open /\ Quiet("get") /\ Quiet("serve")
    /\ do_close(e)
    /\ UNCHANGED faults

-----------------------------------------------------------------------------
\* check_task of the fetching end.

\* Mutant of TooMany: the retries are not counted.
TooManyNever(r) == FALSE

TooMany(r) == r.base.retry > retry

OnDisk(t) == task[t].base.fsize > 0 /\ dst[FileOf[t]] = task[t].base.md5

\* The record is over before anything is asked for.
NotAsked(t) ==
    /\ task[t].q = "WAIT"
    /\ \/ TooMany(task[t]) /\ task' = [task EXCEPT ![t].q = "FIN", ![t].over = "TOO_MANY_TRY"]
       \/ ~TooMany(task[t]) /\ OnDisk(t) /\ task' = [task EXCEPT ![t].q = "FIN", ![t].over = "OK"]
    /\ UNCHANGED <<conn, net, gpeer, speer, dst, src, spins, faults, changes, history>>

\* The request goes out with active_send.
Ask(t, c, p) ==
    /\ task' = [task EXCEPT ![t].q = "RECV", ![t].lastlen = 0]
    /\ gpeer' = [p EXCEPT !.stat = "PREPARE_RECVFILE", !.recvtask = t]
    /\ conn' = [c EXCEPT !["get"].data = @ \o Msg("REQ", FileOf[t], task[t].base), !["get"].out = TRUE]
    /\ UNCHANGED <<dst, src, spins, faults, changes, history>>

Wanted(t) == task[t].q = "WAIT" /\ ~TooMany(task[t]) /\ ~OnDisk(t)

\* active_connect fails, or the connections are all in use, or the disk has too
\* little space.  This is not counted as a retry.
Postpone(t) ==
    /\ Wanted(t)
    /\ task' = [task EXCEPT ![t].q = "WAIT_TMP"]
    /\ UNCHANGED <<conn, net, gpeer, speer, dst, src, spins, faults, changes, history>>

\* Mutant of Resume: the record is put on TASK_Q_WAIT_TMP again.
ResumeKeeps(t) == task[t].q = "WAIT_TMP" /\ UNCHANGED vars

\* The first loop of the next check_task.
Resume(t) ==
    /\ task[t].q = "WAIT_TMP"
    /\ task' = [task EXCEPT ![t].q = "WAIT"]
    /\ UNCHANGED <<conn, net, gpeer, speer, dst, src, spins, faults, changes, history>>

\* On a connection that is idle.
AskAgain(t) ==
    /\ Wanted(t) /\ gpeer.stat = "IDLE"
    /\ Ask(t, conn, gpeer)
    /\ UNCHANGED <<net, speer>>

\* active_connect, and accept_new at the other end - unless its thread no longer
\* gets there: then the connection waits in the backlog of the socket.
Connect(t) ==
    /\ Wanted(t) /\ ~conn["get"].open /\ ~Runs("serve")
    /\ Ask(t, [e \in End |-> IF e = "serve" /\ spins THEN conn[e] ELSE add_fd_2_efd(conn[e])],
           [GDown EXCEPT !.stat = "IDLE"])
    /\ speer' = IF spins THEN speer ELSE [SDown EXCEPT !.stat = "CONNECTED"]
    /\ net' = [e \in End |-> <<>>]

-----------------------------------------------------------------------------
\* do_send, on EPOLLOUT.  Any part of what is to be sent may be accepted.

\* The blocks of the open file that are left to send.
Left(file) == IF mybuff_getfile(file)
              THEN SubSeq(file.ino, file.off + 1, Min({file.off + file.len, Len(file.ino)}))
              ELSE <<>>

\* svc_send: the whole file has been sent.
SentAll(len) == len >= speer.headlen + speer.processlen

\* k blocks of data and j of the file are accepted.  When nothing is left to send
\* EPOLLOUT is given up and svc_send ends the transfer, or closes the connection
\* if the file was sent short.
do_send(e, k, j) ==
    LET c == conn[e]
        now == [c EXCEPT !.data = mybuff_skipdata(c.data, k), !.send_len = @ + k + j,
                         !.file = IF j = 0 THEN c.file ELSE mybuff_skipfile(c.file, j)]
        done == now.data = <<>> /\ ~mybuff_getfile(now.file)
        over == done /\ e = "serve" /\ speer.stat = "SENDFILEING"
        close == over /\ ~SentAll(now.send_len)
    IN  /\ Runs(e) /\ c.out
        /\ k \in 0..Len(c.data) /\ j \in 0..Len(Left(c.file))
        /\ k + j > 0 \/ done
        /\ k < Len(c.data) => j = 0
        /\ Len(net[Other(e)]) + k + j <= SockBuf
        /\ net' = [net EXCEPT ![e] = IF close THEN <<>> ELSE @,
                              ![Other(e)] = IF conn[Other(e)].open
                                            THEN @ \o SubSeq(c.data, 1, k) \o SubSeq(Left(c.file), 1, j)
                                            ELSE @]
        /\ conn' = [conn EXCEPT ![e] = [now EXCEPT !.out = ~done, !.open = ~close]]
        /\ speer' = CASE close -> SDown
                      [] over /\ ~close -> [speer EXCEPT !.stat = "IDLE"]
                      [] OTHER -> speer
        /\ UNCHANGED <<gpeer, task, dst, src, spins, faults, changes, history>>

\* do_send when sendfile returns 0: errno, left over from some earlier call, is
\* none of the two that are expected, or svc_check_send finds another size under
\* the name.  With EAGAIN and the same size nothing changes.
SendNothing(e) ==
    /\ Stuck(e)
    /\ do_close(e)
    /\ UNCHANGED faults

\* The same with EINTR left over: sendfile is called again, for ever.
SendSpins ==
    /\ Runs("serve") /\ Stuck("serve")
    /\ spins' = TRUE
    /\ UNCHANGED <<conn, net, gpeer, speer, task, dst, src, faults, changes, history>>

-----------------------------------------------------------------------------
\* do_recv of the serving end: a request.

\* Mutant of Answer: EPOLLOUT is not asked for.
AnswerUnarmed(c, m) == [c EXCEPT !.data = @ \o m, !.send_len = 0]

\* RECV_ADD_EPOLLOUT.
Answer(c, m) == [c EXCEPT !.data = @ \o m, !.send_len = 0, !.out = TRUE]

\* What do_send_task finds when it reads the size, the md5 and the descriptor one
\* after the other: before each of these another thread may replace or delete the
\* file.  Nothing else reads it under its name, so earlier changes are before 1.
Replaced(f, read) == {i \in 1..3 : read[i] # (IF i = 1 THEN src[f] ELSE read[i - 1])}
Reads(f) == {read \in [1..3 -> Contents(f) \cup {NoFile}] :
                changes + Cardinality(Replaced(f, read)) <= MaxChanges}

do_send_task(c, f, b) ==
    \E read \in Reads(f) :
      LET look == b.fsize = 0 \/ b.retry > 0
          base == IF look /\ read[1] # NoFile
                  THEN [b EXCEPT !.fsize = Len(read[1]), !.md5 = read[2]] ELSE b
          found == (look => read[1] # NoFile /\ read[2] # NoFile) /\ read[3] # NoFile
      IN  /\ src' = [src EXCEPT ![f] = read[3]]
          /\ changes' = changes + Cardinality(Replaced(f, read))
          /\ \/ /\ found
                /\ speer' = [stat |-> "SENDFILEING", processlen |-> base.fsize, headlen |-> HeadLen]
                /\ conn' = [conn EXCEPT !["serve"] =
                              Answer([c EXCEPT !.file = mybuff_setfile(read[3], base.fsize)],
                                     Msg("DST_2_SRC", f, base))]
                /\ serving' = read[3]
                /\ torn' = (torn \/ (look /\ read[2] \notin {read[1], read[3]}))
                /\ UNCHANGED faults
             \/ \* no such file, or pfs_get_task failed
                /\ (~found /\ UNCHANGED faults) \/ Fault
                /\ speer' = [speer EXCEPT !.headlen = HeadLen]
                /\ conn' = [conn EXCEPT !["serve"] = Answer(c, Msg("E_OPENFILE", f, base))]
                /\ UNCHANGED history

\* The first k blocks the socket of e can deliver are appended to recv_buff.
Received(e, k) == [conn[e] EXCEPT !.recv = @ \o SubSeq(net[e], 1, k)]
Take(e, k) ==
    /\ Runs(e) /\ k \in 1..Len(net[e])
    /\ net' = [net EXCEPT ![e] = SubSeq(@, k + 1, Len(@))]

RecvRequest(k) ==
    LET c == Received("serve", k)
    IN  /\ Take("serve", k)
        /\ IF IsMsg(c.recv)
           THEN do_send_task([c EXCEPT !.recv = mybuff_skipdata(@, HeadLen)], c.recv[1].f, c.recv[1].base)
           ELSE /\ conn' = [conn EXCEPT !["serve"] = c]
                /\ UNCHANGED <<speer, src, faults, changes, history>>
        /\ UNCHANGED <<gpeer, task, dst, spins>>

-----------------------------------------------------------------------------
\* do_recv of the fetching end: an answer, then the file.

\* Mutant of close_tmp_check_mv: the md5 is not checked.
CheckNothing(md5, p, seen) == TRUE

\* The digest made while receiving is right, or that of the temporary file is.
\* filemd5 is a byte longer than the digest it is compared with, so whether the
\* first comparison succeeds (seen) also depends on a byte that is not set.
close_tmp_check_mv(md5, p, seen) == (seen /\ p.fresh /\ p.hashed = md5) \/ p.tmp = md5

\* svc_recv in RECVFILEING: r is the record, c the connection with what was
\* received, p the peer.  The context is set up once per connection, so it is
\* fresh for the first file only.
ReceiveData(t, r, c, p) ==
    \/ \* no data yet
       /\ c.recv = <<>>
       /\ task' = [task EXCEPT ![t] = r] /\ conn' = [conn EXCEPT !["get"] = c] /\ gpeer' = p
       /\ UNCHANGED <<dst, faults>>
    \/ \* write fails; it is tried again when more data come
       /\ c.recv # <<>>
       /\ (p.tmp = NoFile /\ UNCHANGED faults) \/ Fault
       /\ task' = [task EXCEPT ![t] = r] /\ conn' = [conn EXCEPT !["get"] = c] /\ gpeer' = p
       /\ UNCHANGED dst
    \/ /\ c.recv # <<>> /\ p.tmp # NoFile
       /\ \E n \in 0..Len(c.recv) :
            LET last == r.lastlen + n
                datalen == Min({Len(c.recv), r.processlen - r.lastlen})
                q == [p EXCEPT !.tmp = @ \o SubSeq(c.recv, 1, n), !.hashed = @ \o Moved(c.recv, n)]
            IN  /\ n <= datalen /\ (n = 0 => datalen = 0)
                /\ conn' = [conn EXCEPT !["get"] = [c EXCEPT !.recv = mybuff_skipdata(@, n)]]
                /\ \/ \* part of the file
                      /\ last < r.processlen
                      /\ IF n = datalen THEN UNCHANGED faults ELSE Fault
                      /\ task' = [task EXCEPT ![t] = [r EXCEPT !.lastlen = last]]
                      /\ gpeer' = q
                      /\ UNCHANGED dst
                   \/ \* the last byte, and the file is renamed
                      /\ last >= r.processlen
                      /\ \E seen \in BOOLEAN : close_tmp_check_mv(r.base.md5, q, seen)
                      /\ dst' = [dst EXCEPT ![FileOf[t]] = q.tmp]
                      /\ task' = [task EXCEPT ![t] = [r EXCEPT !.lastlen = last, !.q = "FIN", !.over = "OK"]]
                      /\ gpeer' = [q EXCEPT !.stat = "IDLE", !.recvtask = NoTask, !.tmp = NoFile,
                                            !.fresh = FALSE, !.hashed = <<>>]
                      /\ UNCHANGED faults
                   \/ \* the last byte, and the md5 is wrong or rename fails
                      /\ last >= r.processlen
                      /\ \/ /\ \E seen \in BOOLEAN : ~close_tmp_check_mv(r.base.md5, q, seen)
                            /\ UNCHANGED faults
                         \/ Fault
                      /\ task' = [task EXCEPT ![t] = [r EXCEPT !.lastlen = last, !.q = "FIN", !.over = "E_MD5"]]
                      /\ gpeer' = [q EXCEPT !.recvtask = NoTask, !.fresh = FALSE, !.hashed = <<>>]
                      /\ UNCHANGED dst

\* do_recv_task: the file is not the one that was announced.
TakeBase(r, b) == IF r.base.md5 = b.md5 THEN r ELSE [r EXCEPT !.base = b, !.processlen = b.fsize]

\* do_recv_task: the record is over and RECV_CLOSE is returned.
GiveUp(t, q, over) ==
    /\ task' = [x \in Task |-> IF x = t THEN [task[x] EXCEPT !.q = q, !.over = over] ELSE task[x]]
    /\ gpeer' = GDown
    /\ conn' = [conn EXCEPT !["get"].open = FALSE, !["get"].out = FALSE]
    /\ CloseNet("get")
    /\ UNCHANGED dst

\* What is left of a file, read as a message.
Garbled(c) == c.recv # <<>> /\ c.recv[1].k = "data"

\* svc_recv.  Data that are taken for a message have a length or a command that
\* closes the connection, or one for which more has to come; that they are a
\* message by chance is left out.  The temporary file cannot be opened; or open
\* fails with another error than ENOENT, which open_tmp_localfile_4_write reports
\* as success.
RecvAnswer(k) ==
    LET c == Received("get", k)
        t == gpeer.recvtask
        head == gpeer.stat = "PREPARE_RECVFILE" /\ ~Garbled(c) /\ IsMsg(c.recv)
        answered == head /\ c.recv[1].status = "DST_2_SRC"
        rest == [c EXCEPT !.recv = mybuff_skipdata(@, HeadLen)]
    IN  /\ conn["get"].open /\ k \in 1..Len(net["get"])
        /\ \/ /\ t # NoTask => head /\ ~answered
              /\ GiveUp(t, "FIN", "E_OPEN_SRCFILE")
              /\ UNCHANGED faults
           \/ answered /\ Fault /\ GiveUp(t, "CLEAN", "E_OPEN_DSTFILE")
           \/ /\ answered
              /\ Take("get", k)
              /\ \E tmp \in {<<>>} \cup (IF faults < MaxFaults THEN {NoFile} ELSE {}) :
                    ReceiveData(t, TakeBase(task[t], c.recv[1].base), rest,
                                [gpeer EXCEPT !.stat = "RECVFILEING", !.tmp = tmp])
           \/ /\ gpeer.stat # "RECVFILEING" /\ Garbled(c)
              /\ do_close("get")
              /\ UNCHANGED faults
           \/ /\ gpeer.stat = "PREPARE_RECVFILE" \/ (gpeer.stat = "IDLE" /\ Garbled(c))
              /\ ~head
              /\ Take("get", k)
              /\ conn' = [conn EXCEPT !["get"] = c]
              /\ UNCHANGED <<gpeer, task, dst, faults>>
           \/ /\ gpeer.stat = "RECVFILEING" /\ t # NoTask
              /\ Take("get", k)
              /\ ReceiveData(t, task[t], c, gpeer)
        /\ UNCHANGED <<speer, src, spins, changes, history>>

-----------------------------------------------------------------------------
CheckTask(t) == NotAsked(t) \/ AskAgain(t) \/ Connect(t) \/ Postpone(t) \/ Resume(t)
Send(e) == \E k \in 0..HeadLen, j \in 0..SockBuf : do_send(e, k, j)
RecvSome == \E k \in 1..SockBuf : RecvRequest(k) \/ RecvAnswer(k)
Closing(e) == PeerClosed(e) \/ Timeout(e)

Over == \A t \in Task : task[t].q \in {"FIN", "CLEAN"}

Next ==
    \/ \E t \in Task : CheckTask(t)
    \/ RecvSome \/ SendSpins
    \/ \E e \in End : Send(e) \/ SendNothing(e) \/ Closing(e) \/ Break(e)
    \/ Over /\ UNCHANGED vars

Spec == Init /\ [][Next]_vars

\* The loops of both ends run on, that of the serving end unless it spins.  Not
\* fair: faults, changes, and a sendfile that returns 0, which may go on until
\* svc_timeout.  Connecting may fail again and again.
FairSpec ==
    /\ Spec
    /\ \A t \in Task : WF_vars(CheckTask(t))
    /\ WF_vars(RecvSome)
    /\ \A e \in End : WF_vars(Send(e)) /\ WF_vars(Closing(e))

-----------------------------------------------------------------------------
\* Type correctness of the records, the two ends and the sockets.
TypeOK ==
    /\ \A t \in Task :
        /\ task[t].q \in {"WAIT", "WAIT_TMP", "RECV", "FIN", "CLEAN"}
        /\ task[t].base.retry \in 0..(retry + 1)
        /\ task[t].lastlen \in 0..task[t].processlen
    /\ gpeer.stat \in {"LOGOUT", "IDLE", "PREPARE_RECVFILE", "RECVFILEING"}
    /\ gpeer.recvtask \in Task \cup {NoTask}
    /\ speer.stat \in {"LOGOUT", "CONNECTED", "IDLE", "SENDFILEING"}
    /\ \A e \in End : conn[e].open \in BOOLEAN /\ Len(net[e]) <= SockBuf

\* What svc_recv renames into place is one version of the file, whole, and that of
\* the md5 in the record: whatever the serving storage did to the file between the
\* announcement, the request, the stat and the open, and although the bytes that
\* are hashed are not always the ones that are written.
InstalledWhole ==
    /\ \A f \in File : dst[f] \in Contents(f) \cup {NoFile}
    /\ \A t \in Task : task[t].over = "OK" => dst[FileOf[t]] = task[t].base.md5

IsBlock(b) == b.k = "data"

\* What the fetching end has still to read.
Incoming == conn["get"].recv \o net["get"]

\* The two ends agree where a message ends and a file begins: an idle connection
\* has nothing left over from the last file, an answer is to the file that was
\* asked for, and a file is followed by nothing (do_recv_task, svc_recv, check_req).
\* Data that follow a file with a wrong md5 find no task and close the connection.
\* This needs that do_send_task did not take the md5 of a content that was neither
\* there at its stat nor at its open: a file that is empty just when the md5 is
\* read is installed as empty if it was announced as that, and the data that were
\* opened follow on a connection that is idle.
Framed ==
    ~torn /\ conn["get"].open /\ Incoming # <<>> =>
        /\ gpeer.stat # "IDLE"
        /\ gpeer.stat = "PREPARE_RECVFILE" => Incoming[1].k = "head" /\ Incoming[1].f = FileOf[gpeer.recvtask]
        /\ gpeer.stat = "RECVFILEING" /\ gpeer.recvtask # NoTask => \A i \in DOMAIN Incoming : IsBlock(Incoming[i])

Written == IF gpeer.tmp = NoFile THEN <<>> ELSE gpeer.tmp

\* While a file is received, what is written, buffered, on its way and left to be
\* sent is the file that was opened, up to the length that was to be sent, with
\* nothing lost, repeated or out of order (mybuff.c, do_send, do_recv, svc_recv).
Conserved ==
    gpeer.stat = "RECVFILEING" /\ gpeer.recvtask # NoTask /\ conn["serve"].open =>
        Written \o Incoming \o Left(conn["serve"].file)
          = SubSeq(serving, 1, Min({speer.processlen, Len(serving)}))

\* The connection waits for svc_timeout in the middle of a transfer only when the
\* file is empty (no data will come to end it), when a write failed or was short,
\* when the file that was opened is shorter than the size in the request, or when
\* the file was replaced between stat and md5 (do_recv_task takes the size that
\* was sent only if the md5 is not the one it knows); or when data are taken for
\* an answer (see Framed); or when the thread of the serving end spins in do_send.
WaitsOnlyFor ==
    gpeer.recvtask # NoTask /\ ~spins /\ (\A e \in End : conn[e].open /\ Quiet(e)) =>
        /\ gpeer.stat = "RECVFILEING" \/ Garbled(conn["get"])
        /\ \/ task[gpeer.recvtask].processlen = 0
           \/ conn["get"].recv # <<>>
           \/ Stuck("serve")
           \/ task[gpeer.recvtask].processlen > speer.processlen

\* Every fetch is over in the end - received, refused or tried too often - also
\* when the thread of the serving end never comes back from do_send; unless
\* check_task postpones one again and again, because connecting fails each time or
\* there is no space, which is not counted as a retry.
FetchEnds == (\E t \in Task : []<><<Postpone(t)>>_vars) \/ <>Over
=============================================================================
