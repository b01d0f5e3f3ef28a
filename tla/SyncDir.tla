------------------------------ MODULE SyncDir -------------------------------
(***************************************************************************)
(* Directory synchronisation on the storage that asks for it: the          *)
(* signalling plugin S and the start of sync_dir_thread.  A storage that   *)
(* starts has one t_pfs_sync_list node per directory on sync_list.  While  *)
(* self_stat is WAIT_SYNC, svc_timeout takes the first node and sends its  *)
(* directory to every connected peer; pfs_sync_list of that connection     *)
(* points to the node until the peer answers.  The list is modelled by its *)
(* next and prev pointers, because a node can be added that is still       *)
(* linked.                                                                 *)
(***************************************************************************)
EXTENDS Naturals, FiniteSets, Sequences, SequencesExt

CONSTANTS
    Dir,              \* the directories, each a node of sync_list
    sync_list,        \* the head of the list
    NULL,
    Peer,             \* the other storages of the domain
    sync_dir_count,   \* g_config.sync_dir_count
    MaxAsked,         \* bound: requests of a connection not answered yet
    MaxConn,          \* bound: connections at a time
    DirOrder          \* the order in which init_sync_list adds the nodes

ASSUME SyncDirAssumption ==
    /\ sync_dir_count \in Nat /\ MaxAsked \in Nat /\ MaxConn \in Nat
    /\ sync_list \notin Dir /\ NULL \notin Dir
    /\ DirOrder \in [1..Len(DirOrder) -> Dir] /\ Len(DirOrder) = Cardinality(Dir)

VARIABLES
    next, prev,      \* the pointers of the nodes and of the head
    added,           \* how many nodes init_sync_list has added
    init_sync_flag,
    self_stat, flag, \* sync_para.flag
    online_list,     \* online_list[p]: the connections to peer p, the newest first
    count, dayover,  \* check_count_one_day: the calls, 24 hours have passed
    \* History, read by no action:
    asked,           \* the directories some peer was asked for
    sent,            \* the calls since count was last reset that asked one
    doubled          \* a node was put back that was on the list already

links == <<next, prev>>
building == <<added, init_sync_flag>>
quota == <<count, dayover>>
vars == <<links, building, self_stat, flag, online_list, quota, asked, sent, doubled>>

Node == Dir \cup {sync_list}

\* A signalling connection: the node its peer is asked for, and the requests that
\* are on their way or being served.
Connection == [pfs_sync_list : Dir \cup {NULL}, unanswered : 0..MaxAsked]

online == {p \in Peer : online_list[p] # <<>>}

\* The connections there are.
Connections == UNION {{p} \X DOMAIN online_list[p] : p \in Peer}

-----------------------------------------------------------------------------
\* lib/list.h on the pointers l.next and l.prev.

\* __list_add(n, p, q) with p the last node and q the head.
list_add_tail(n, l) ==
    LET p == l.prev[sync_list]
    IN  [next |-> [[l.next EXCEPT ![n] = sync_list] EXCEPT ![p] = n],
         prev |-> [l.prev EXCEPT ![sync_list] = n, ![n] = p]]

\* Mutant of list_del_init: next->prev is not set.
list_del_half(n, l) ==
    [next |-> [[l.next EXCEPT ![l.prev[n]] = l.next[n]] EXCEPT ![n] = n],
     prev |-> [l.prev EXCEPT ![n] = n]]

\* __list_del and INIT_LIST_HEAD.
list_del_init(n, l) ==
    LET p == l.prev[n]
        q == l.next[n]
    IN  [next |-> [[l.next EXCEPT ![p] = q] EXCEPT ![n] = n],
         prev |-> [[l.prev EXCEPT ![q] = p] EXCEPT ![n] = n]]

Links == [next |-> next, prev |-> prev]

SetLinks(l) == next' = l.next /\ prev' = l.prev

-----------------------------------------------------------------------------
Init ==
    /\ next = [n \in Node |-> n] /\ prev = [n \in Node |-> n]
    /\ added = 0 /\ init_sync_flag = 0
    /\ self_stat = "UNKOWN_STAT" /\ flag = 2
    /\ online_list = [p \in Peer |-> <<>>]
    /\ count = 0 /\ dayover = FALSE
    /\ asked = {} /\ sent = 0 /\ doubled = FALSE

\* init_sync_list, in sync_dir_thread: one node.
InitNode ==
    /\ init_sync_flag = 0 /\ added < Len(DirOrder)
    /\ SetLinks(list_add_tail(DirOrder[added + 1], Links))
    /\ added' = added + 1
    /\ UNCHANGED <<init_sync_flag, self_stat, flag, online_list, quota, asked, sent, doubled>>

\* sync_dir_thread after init_sync_list, whose result it ignores: the list is
\* complete, or malloc failed and init_sync_list returned -1 in the middle.
InitDone ==
    /\ init_sync_flag = 0
    /\ init_sync_flag' = 1
    /\ UNCHANGED <<links, added, self_stat, flag, online_list, quota, asked, sent, doubled>>

\* svc_initconn, accepted or by scan_cfg_iplist_and_connect.  A second connection
\* of the same ip is only logged; find_ip_stat finds the one added last.
Connect(p) ==
    /\ Cardinality(Connections) < MaxConn
    /\ online_list' = [online_list EXCEPT ![p] = <<[pfs_sync_list |-> NULL, unanswered |-> 0]>> \o @]
    /\ UNCHANGED <<links, building, self_stat, flag, quota, asked, sent, doubled>>

Linked(n) == next[n] # n

\* svc_finiconn: the node of a connection that ends is put back.
Disconnect(p, i) ==
    LET n == online_list[p][i].pfs_sync_list
    IN  /\ online_list' = [online_list EXCEPT ![p] = RemoveAt(@, i)]
        /\ IF n # NULL
           THEN /\ SetLinks(list_add_tail(n, Links)) /\ flag' = 0
                /\ doubled' = (doubled \/ Linked(n))
           ELSE UNCHANGED <<links, flag, doubled>>
        /\ UNCHANGED <<building, self_stat, quota, asked, sent>>

\* do_req, SYNC_DIR_RSP: what was answered is not looked at.
Answer(p, i) ==
    /\ online_list[p][i].unanswered > 0
    /\ online_list' = [online_list EXCEPT ![p][i] = [pfs_sync_list |-> NULL, unanswered |-> @.unanswered - 1]]
    /\ flag' = 0
    /\ UNCHANGED <<links, building, self_stat, quota, asked, sent, doubled>>

-----------------------------------------------------------------------------
\* svc_timeout.

Quota == count < sync_dir_count \/ dayover

\* Mutant of Consume: the count is compared with <=.
ConsumeOneMore ==
    /\ Quota
    /\ IF count <= sync_dir_count
       THEN count' = count + 1 /\ UNCHANGED dayover
       ELSE count' = 1 /\ dayover' = FALSE

\* check_count_one_day when it returns 0.
Consume ==
    /\ Quota
    /\ IF count < sync_dir_count
       THEN count' = count + 1 /\ UNCHANGED dayover
       ELSE count' = 1 /\ dayover' = FALSE

SinceReset == IF count < sync_dir_count THEN sent ELSE 0

\* The first lines: a storage that has just started waits for synchronisation,
\* and a request that was not answered for an hour (late) is given up.
WaitFlag(late) == IF self_stat = "UNKOWN_STAT" \/ (flag = 1 /\ late) THEN 0 ELSE flag

\* The last lines: nothing is left to ask for (total_sync_task is always 0).
StatAfter(f) == IF f = 2 THEN "ON_LINE" ELSE "WAIT_SYNC"

\* Mutant of Ready: init_sync_flag is not tested.
ReadyAlways == self_stat \in {"UNKOWN_STAT", "WAIT_SYNC"}

\* do_active_sync runs when flag is 0 and stops before it looks at the list
\* while sync_dir_thread still builds it.
Ready == self_stat \in {"UNKOWN_STAT", "WAIT_SYNC"} /\ init_sync_flag = 1

\* do_active_sync is not called or returns at once.
TimerIdle(late) ==
    /\ self_stat \in {"UNKOWN_STAT", "WAIT_SYNC"}
    /\ WaitFlag(late) # 0 \/ ~Ready \/ ~Quota
    /\ flag' = WaitFlag(late)
    /\ self_stat' = StatAfter(flag')
    /\ UNCHANGED <<links, building, online_list, quota, asked, sent, doubled>>

\* do_active_sync returns after check_count_one_day: sync_dir_span has not
\* passed, too many tasks are waiting, or it is not the time of day.
TimerEarly(late) ==
    /\ Ready /\ WaitFlag(late) = 0
    /\ Consume
    /\ flag' = 0 /\ self_stat' = "WAIT_SYNC"
    /\ sent' = SinceReset
    /\ UNCHANGED <<links, building, online_list, asked, doubled>>

\* do_active_sync finds the list empty.
TimerEmpty(late) ==
    /\ Ready /\ WaitFlag(late) = 0 /\ next[sync_list] = sync_list
    /\ Consume
    /\ flag' = 2 /\ self_stat' = StatAfter(2)
    /\ sent' = SinceReset
    /\ UNCHANGED <<links, building, online_list, asked, doubled>>


\* The node leaves the list with the first peer that is asked.
Unlinked(n) == IF online = {} THEN Links ELSE list_del_init(n, Links)

\* do_active_sync and do_sub_sync: every connected peer is asked for the
\* directory of the first node.
TimerAsk(late) ==
    LET n == next[sync_list]
    IN  /\ Ready /\ WaitFlag(late) = 0 /\ n # sync_list
        /\ \A p \in online : online_list[p][1].unanswered < MaxAsked
        /\ Consume
        /\ SetLinks(Unlinked(n))
        /\ online_list' = [p \in Peer |->
              IF p \in online
              THEN [online_list[p] EXCEPT ![1] = [pfs_sync_list |-> n, unanswered |-> @.unanswered + 1]]
              ELSE <<>>]
        /\ flag' = (IF online = {} THEN 0 ELSE 1)
        /\ self_stat' = "WAIT_SYNC"
        /\ asked' = (IF online = {} THEN asked ELSE asked \cup {n})
        /\ sent' = (IF online = {} THEN SinceReset ELSE SinceReset + 1)
        /\ UNCHANGED <<building, doubled>>

DayPasses ==
    /\ ~dayover
    /\ dayover' = TRUE
    /\ UNCHANGED <<links, building, self_stat, flag, online_list, count, asked, sent, doubled>>

Timer == \E late \in BOOLEAN : TimerIdle(late) \/ TimerEarly(late) \/ TimerEmpty(late) \/ TimerAsk(late)

Next ==
    \/ InitNode \/ InitDone \/ Timer \/ DayPasses
    \/ \E p \in Peer : Connect(p) \/ \E i \in DOMAIN online_list[p] : Disconnect(p, i) \/ Answer(p, i)

Spec == Init /\ [][Next]_vars

\* The threads go on and days pass; sync_dir_span passes and the time of day
\* comes in which directories are asked for; a peer that stays connected answers.
\* Connections are not assumed to be made.
Fairness ==
    /\ WF_vars(InitNode \/ InitDone) /\ WF_vars(Timer) /\ WF_vars(DayPasses)
    /\ SF_vars(\E late \in BOOLEAN : TimerAsk(late) /\ online # {})
    /\ SF_vars(\E late \in BOOLEAN : TimerEmpty(late))
    /\ \A p \in Peer, i \in 1..MaxConn : SF_vars(i \in DOMAIN online_list[p] /\ Answer(p, i))

FairSpec == Spec /\ Fairness

-----------------------------------------------------------------------------
\* Type correctness.
TypeOK ==
    /\ next \in [Node -> Node] /\ prev \in [Node -> Node]
    /\ added \in 0..Len(DirOrder) /\ init_sync_flag \in 0..1
    /\ self_stat \in {"UNKOWN_STAT", "WAIT_SYNC", "ON_LINE"} /\ flag \in 0..2
    /\ \A p \in Peer : online_list[p] \in Seq(Connection)
    /\ count \in 0..sync_dir_count \cup {1} /\ dayover \in BOOLEAN
    /\ asked \subseteq Dir /\ sent \in Nat /\ doubled \in BOOLEAN

\* The directories init_sync_list made a node for: all, unless malloc failed.
Listed == {DirOrder[i] : i \in 1..added}

\* A storage that calls itself ON_LINE has asked for every directory
\* init_sync_list could put on the list: neither the race of svc_timeout with
\* init_sync_list, nor peers that come and go, nor a timeout of an hour, nor a
\* node that several connections put back takes a node off the list unasked.
\* (When malloc fails init_sync_list stops, sync_dir_thread goes on, and the
\* storage comes on line without asking for the directories that are missing.)
OnLineAskedAll == self_stat = "ON_LINE" => asked = Listed

\* lib/list.h: list_add_tail adds a new entry, __list_add inserts it between
\* two consecutive entries.  So the links are symmetric at all times.
ListWellFormed == \A n \in Node : prev[next[n]] = n /\ next[prev[n]] = n

\* As long as svc_finiconn has not put back a node that was linked already -
\* which takes two connections that were asked for the same directory -
\* sync_list is a list, and a directory that is not on it has been asked for: no
\* other order of connections, answers, hours and timers damages the list or
\* loses a node.
ListKept ==
    ~doubled =>
        /\ ListWellFormed
        /\ \A n \in Listed : Linked(n) \/ n \in asked


\* doc/conf.readme: sync_dir_count is the number of requests in 24 hours.  So
\* what check_count_one_day has counted was asked for.
QuotaCountsRequests == count <= sent
=============================================================================
