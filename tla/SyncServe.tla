----------------------------- MODULE SyncServe ------------------------------
(***************************************************************************)
(* Directory synchronisation on the storage that is asked.  SYNC_DIR_REQ   *)
(* becomes a record for sync_dir_thread, which makes a record for every    *)
(* file of the directory and passes the request on to be answered; the     *)
(* signalling thread S dispatches the files as NEWTASK_REQ and answers     *)
(* with SYNC_DIR_RSP.  TASK_Q_HOME can allocate, so records are not        *)
(* counted; a pfs_get_task that fails is a choice.  A pfs_set_task gets    *)
(* its mutex in time: module PfsTask has the one that does not.            *)
(***************************************************************************)
EXTENDS Naturals, Sequences, FiniteSets, SequencesExt

CONSTANTS
    Peer,               \* the storages that ask
    Dir,
    File,
    DirOf,              \* DirOf[f]: the directory of a file that passes the filters
    max_task_run_once,
    task_timeout,
    MaxAsked,           \* bound on the requests
    Epoch, MaxTime      \* bounds of the clock; time(NULL) is never near 0

ASSUME SyncServeAssumption ==
    /\ DirOf \in [File -> Dir]
    /\ max_task_run_once \in Nat \ {0} /\ task_timeout \in Nat /\ MaxAsked \in Nat
    /\ Epoch \in Nat /\ MaxTime \in Nat /\ Epoch > task_timeout /\ MaxTime >= Epoch

VARIABLES
    spc,        \* S: "poll", and within svc_timeout "answer", then "expire"
    online,     \* the peers with a signalling connection
    asked,      \* the number of requests so far
    asking,     \* the requests made on a connection that lasts, not answered
    req, rsp,   \* TASK_Q_SYNC_DIR_REQ and _RSP: <<dstip, d, n>>, n the n-th request
    scan,       \* the request sync_dir_thread works on, if any
    unseen,     \* the files readdir has still to return
    wait, tmp,  \* TASK_Q_WAIT_SYNC_DIR and _TMP: records <<p, f, n>>
    starttime,  \* starttime[r]: base.starttime of a record
    now,
    \* History, read by no action:
    made,       \* made[r]: when record r was queued
    owed,       \* the files sync_dir_thread queued for p and p was not told of
    early       \* some record was freed before task_timeout had passed

queue == <<wait, tmp, starttime, made>>
vars == <<spc, online, asked, asking, req, rsp, scan, unseen, queue, now, owed, early>>

Record == Peer \X File \X (1..MaxAsked)
Request == Peer \X Dir \X (1..MaxAsked)

Init ==
    /\ spc = "poll" /\ online = {} /\ asked = 0 /\ asking = {}
    /\ req = <<>> /\ rsp = <<>> /\ scan = <<>> /\ unseen = {}
    /\ wait = {} /\ tmp = {}
    /\ starttime = [r \in Record |-> 0] /\ made = [r \in Record |-> 0]
    /\ now = Epoch /\ owed = {} /\ early = FALSE

-----------------------------------------------------------------------------
Connect(p) ==
    /\ spc = "poll" /\ p \notin online
    /\ online' = online \cup {p}
    /\ UNCHANGED <<spc, asked, asking, req, rsp, scan, unseen, queue, now, owed, early>>

Disconnect(p) ==
    /\ spc = "poll" /\ p \in online
    /\ online' = online \ {p}
    /\ asking' = {a \in asking : a[1] # p}
    /\ UNCHANGED <<spc, asked, req, rsp, scan, unseen, queue, now, owed, early>>

\* do_sync_dir_req; without a record it answers at once.
Ask(p, d) ==
    /\ spc = "poll" /\ p \in online /\ asked < MaxAsked
    /\ \/ /\ req' = Append(req, <<p, d, asked + 1>>)
          /\ asking' = asking \cup {<<p, d, asked + 1>>}
          /\ asked' = asked + 1
       \/ UNCHANGED <<asked, req, asking>>
    /\ UNCHANGED <<spc, online, rsp, scan, unseen, queue, now, owed, early>>

-----------------------------------------------------------------------------
\* sync_dir_thread.

\* pfs_get_task, and opendir, which may fail (OVER_E_OPEN_SRCFILE).
ScanBegin ==
    /\ scan = <<>> /\ req # <<>>
    /\ req' = Tail(req) /\ scan' = <<Head(req)>>
    /\ unseen' \in {{}, {f \in File : DirOf[f] = Head(req)[2]}}
    /\ UNCHANGED <<spc, online, asked, asking, rsp, queue, now, owed, early>>

\* Mutant of ScanFile: the record is addressed by the wrong field of the request.
ScanFileMisread(f) ==
    LET r == <<scan[1][2], f, scan[1][3]>>
    IN  /\ scan # <<>> /\ f \in unseen
        /\ unseen' = unseen \ {f}
        /\ wait' = wait \cup {r}
        /\ UNCHANGED <<spc, online, asked, asking, req, rsp, scan, tmp, starttime, made, now, owed, early>>

\* One file.  base is cleared with memset and starttime is not set.
ScanFile(f) ==
    LET r == <<scan[1][1], f, scan[1][3]>>
    IN  /\ scan # <<>> /\ f \in unseen
        /\ unseen' = unseen \ {f}
        /\ wait' = wait \cup {r}
        /\ starttime' = [starttime EXCEPT ![r] = 0]
        /\ made' = [made EXCEPT ![r] = now]
        /\ owed' = owed \cup {r}
        /\ UNCHANGED <<spc, online, asked, asking, req, rsp, scan, tmp, now, early>>

\* A file that is gone, cannot be read, or for which there is no record.
ScanSkip(f) ==
    /\ scan # <<>> /\ f \in unseen
    /\ unseen' = unseen \ {f}
    /\ UNCHANGED <<spc, online, asked, asking, req, rsp, scan, queue, now, owed, early>>

\* Mutant of ScanEnd: the record of a request goes back to TASK_Q_HOME.
ScanEndHome ==
    /\ scan # <<>> /\ unseen = {}
    /\ scan' = <<>>
    /\ UNCHANGED <<spc, online, asked, asking, req, rsp, unseen, queue, now, owed, early>>

ScanEnd ==
    /\ scan # <<>> /\ unseen = {}
    /\ rsp' = Append(rsp, scan[1]) /\ scan' = <<>>
    /\ UNCHANGED <<spc, online, asked, asking, req, unseen, queue, now, owed, early>>

-----------------------------------------------------------------------------
\* svc_timeout of S: check_task and do_timeout_task.

AtMost(n, S) == {B \in SUBSET S : Cardinality(B) <= n}

\* Mutant of Parked: a file for a peer without connection is dropped.
ParkedNever(B) == {}

\* check_task puts a file for a peer without connection on the _TMP queue.
Parked(B) == {r \in B : r[1] \notin online}

\* History is kept of the records that are still queued.
Kept(m) == [r \in Record |-> IF r \in wait' \cup tmp' THEN m[r] ELSE 0]

\* The loops of check_task: _TMP goes back, some files are dispatched.  Those of
\* TASK_Q_WAIT_SYNC come first and may use up max_task_run_once.
STimer ==
    /\ spc = "poll" /\ spc' = "answer"
    /\ \E A \in AtMost(max_task_run_once, tmp) : \E B \in AtMost(max_task_run_once, wait \cup A) :
        /\ Cardinality(A) = max_task_run_once \/ A = tmp
        /\ wait' = (wait \cup A) \ B
        /\ tmp' = (tmp \ A) \cup Parked(B)
        /\ owed' = owed \ {r \in B : r[1] \in online}
    /\ made' = Kept(made)
    /\ UNCHANGED <<online, asked, asking, req, rsp, scan, unseen, starttime, now, early>>

\* Mutant of SAnswer: one request is answered at a time, and the rest is dropped.
SAnswerOne ==
    /\ spc = "answer" /\ spc' = "expire"
    /\ rsp' = <<>>
    /\ asking' = asking \ (IF rsp = <<>> THEN {} ELSE {Head(rsp)})
    /\ UNCHANGED <<online, asked, req, scan, unseen, queue, now, owed, early>>

\* do_check_sync_task answers every request that has been served; one of a peer
\* that is gone is freed.
SAnswer ==
    /\ spc = "answer" /\ spc' = "expire"
    /\ rsp' = <<>>
    /\ asking' = asking \ ToSet(rsp)
    /\ UNCHANGED <<online, asked, req, scan, unseen, queue, now, owed, early>>

Old(r) == now - starttime[r] > task_timeout

\* do_timeout_task every half hour: check_task_timeout on both queues.
SExpire(due) ==
    LET gone == {r \in wait \cup tmp : due /\ Old(r)}
    IN  /\ spc = "expire" /\ spc' = "poll"
        /\ wait' = wait \ gone /\ tmp' = tmp \ gone
        /\ owed' = owed \ gone
        /\ early' = (early \/ \E r \in gone : now - made[r] <= task_timeout)
        /\ made' = Kept(made)
        /\ UNCHANGED <<online, asked, asking, req, rsp, scan, unseen, starttime, now>>

Tick ==
    /\ now < MaxTime
    /\ now' = now + 1
    /\ UNCHANGED <<spc, online, asked, asking, req, rsp, scan, unseen, queue, owed, early>>

ScanStep == ScanBegin \/ ScanEnd \/ \E f \in File : ScanFile(f) \/ ScanSkip(f)

Next ==
    \/ ScanStep \/ STimer \/ SAnswer \/ Tick
    \/ \E due \in BOOLEAN : SExpire(due)
    \/ \E p \in Peer : Connect(p) \/ Disconnect(p) \/ \E d \in Dir : Ask(p, d)

Spec == Init /\ [][Next]_vars

\* Both threads go on.
FairSpec ==
    /\ Spec /\ WF_vars(ScanStep)
    /\ WF_vars(STimer) /\ WF_vars(SAnswer) /\ WF_vars(\E due \in BOOLEAN : SExpire(due))

-----------------------------------------------------------------------------
\* Type correctness.
TypeOK ==
    /\ spc \in {"poll", "answer", "expire"} /\ online \subseteq Peer /\ asked \in 0..MaxAsked /\ asking \subseteq Request
    /\ req \in Seq(Request) /\ rsp \in Seq(Request) /\ scan \in Seq(Request) /\ Len(scan) <= 1
    /\ unseen \subseteq File /\ wait \subseteq Record /\ tmp \subseteq Record
    /\ starttime \in [Record -> Nat] /\ made \in [Record -> Nat]
    /\ now \in Epoch..MaxTime /\ owed \subseteq Record /\ early \in BOOLEAN

\* A file found for a peer is queued until NEWTASK_REQ goes out, however often
\* the peer disconnects between the loops of check_task - on one of the queues,
\* never on both - unless do_timeout_task frees it.
FoundIsQueued == owed \subseteq wait \cup tmp /\ wait \cap tmp = {}

\* A request on a connection that lasts is somewhere between the two threads:
\* no interleaving loses or duplicates it.
AskingIsQueued ==
    LET all == req \o scan \o rsp
    IN  asking \subseteq ToSet(all) /\ IsInjective(all)

\* Every SYNC_DIR_REQ is answered unless the peer disconnects.
AskedIsAnswered == \A a \in Request : a \in asking ~> a \notin asking

\* doc/conf.readme: task_timeout is the time after which a task times out.  So
\* do_timeout_task frees no file that has been queued for less.  (With
\* check_task_timeout = 1, the default of init_global; the configurations that
\* come with the code set it to 0, and nothing is freed.)
ExpiresAfterTimeout == ~early
=============================================================================
