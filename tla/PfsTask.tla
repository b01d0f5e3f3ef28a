------------------------------ MODULE PfsTask -------------------------------
(***************************************************************************)
(* The task queues of a 56pfs process (network/pfs_task.c, and the scan    *)
(* callbacks of network/pfs_agent.c).  One list, one mutex and one counter *)
(* per queue.  pfs_get_task pops the head under the queue's mutex;         *)
(* pfs_set_task takes the mutex of the destination only, unlinks the       *)
(* record from whatever list it is on and appends it; a scan holds a mutex *)
(* while its callback visits every record, and the callback may take the   *)
(* mutex of TASK_Q_HOME inside it.  Threads interleave at every point      *)
(* where one waits for a mutex or runs inside it.                          *)
(*                                                                         *)
(* The threads are generic here: each may call any operation on a record   *)
(* it has (the record a pfs_get_task gave it).  What the plugins do with   *)
(* the records is module StorageNode.                                      *)
(***************************************************************************)
EXTENDS Integers, Sequences

CONSTANTS
    Task,            \* memory blocks that can hold a t_pfs_tasklist
    taskall,         \* the blocks init_task_info allocates, in list order
    NoTask,
    Thread, NoThread,
    Data,            \* the thread of the data plugin
    Queue,           \* TASK_Q_DELAY .. TASK_Q_SYNC_DIR_RSP
    TASK_Q_UNKNOWN,
    TASK_Q_HOME, TASK_Q_CLEAN,
    Expiring,        \* the queues do_timeout_task scans: DELAY .. FIN
    Parking,         \* TASK_Q_SEND, TASK_Q_RECV: linked and still referenced
    ParkBound        \* bound on the counters of Parking, which only grow

ASSUME PoolAssumption ==
    /\ taskall \in Seq(Task)
    /\ \A i, j \in DOMAIN taskall : i # j => taskall[i] # taskall[j]
    /\ NoTask \notin Task

ASSUME ThreadAssumption == Data \in Thread /\ NoThread \notin Thread

ASSUME QueueAssumption ==
    /\ TASK_Q_UNKNOWN \notin Queue
    /\ {TASK_Q_HOME, TASK_Q_CLEAN} \subseteq Queue
    /\ TASK_Q_HOME # TASK_Q_CLEAN
    /\ Expiring \subseteq Queue \ {TASK_Q_HOME, TASK_Q_CLEAN}
    /\ Parking \subseteq Queue \ ({TASK_Q_HOME, TASK_Q_CLEAN} \cup Expiring)

ASSUME BoundAssumption == ParkBound \in Nat

VARIABLES
    pfstask,    \* pfstask[q]: the list of queue q
    taskcount,  \* taskcount[q]
    status,     \* status[t]: task->status
    last,       \* last[t]: task->last, -1 or a time stamp (Stamp)
    heap,       \* the allocated records
    mutex,      \* mutex[q]: the thread inside the mutex of q
    pc,         \* where a thread is: idle, in a mutex, or in a nested one
    call,       \* the operation a thread is executing, and its arguments
    hand,       \* hand[th]: the records thread th has (its locals and peers)
    lost        \* records whose pfs_set_task timed out

shared == <<pfstask, taskcount, status, last, heap>>
vars == <<pfstask, taskcount, status, last, heap, mutex, pc, call, hand, lost>>

Stamp == 1

Pool == {taskall[i] : i \in DOMAIN taskall}

Call == [op : {"get", "set", "scan"}, q : Queue, t : Task \cup {NoTask}, pos : Nat \ {0}]

NoCall == [op |-> "get", q |-> TASK_Q_HOME, t |-> NoTask, pos |-> 1]

-----------------------------------------------------------------------------
\* The list primitives.

On(s, t) == \E i \in DOMAIN s : s[i] = t

Distinct(s) == \A i, j \in DOMAIN s : s[i] = s[j] => i = j

\* list_del_init: t leaves the list it is on, if it is on one.
ListDel(s, t) ==
    IF On(s, t)
    THEN LET k == CHOOSE i \in DOMAIN s : s[i] = t
         IN [i \in 1..(Len(s) - 1) |-> IF i < k THEN s[i] ELSE s[i + 1]]
    ELSE s

-----------------------------------------------------------------------------
\* init_task_info links the records, then clears the counters: taskcount of
\* TASK_Q_HOME starts at 0 although every record of taskall is on it.
Init ==
    /\ pfstask = [q \in Queue |-> IF q = TASK_Q_HOME THEN taskall ELSE <<>>]
    /\ taskcount = [q \in Queue |-> 0]
    /\ status = [t \in Task |-> IF t \in Pool THEN TASK_Q_HOME ELSE TASK_Q_UNKNOWN]
    /\ last = [t \in Task |-> IF t \in Pool THEN -1 ELSE Stamp]
    /\ heap = Pool
    /\ mutex = [q \in Queue |-> NoThread]
    /\ pc = [th \in Thread |-> "idle"]
    /\ call = [th \in Thread |-> NoCall]
    /\ hand = [th \in Thread |-> {}]
    /\ lost = {}

\* Mutant of Lock: the result of pthread_mutex_timedlock is not looked at.
LockUnchecked(th, q) == mutex' = [mutex EXCEPT ![q] = th]

\* pthread_mutex_timedlock succeeds.
Lock(th, q) ==
    /\ mutex[q] = NoThread
    /\ mutex' = [mutex EXCEPT ![q] = th]

Unlock(q) == mutex' = [mutex EXCEPT ![q] = NoThread]

Enter(th, c) ==
    /\ pc[th] = "idle"
    /\ Lock(th, c.q)
    /\ pc' = [pc EXCEPT ![th] = "in"]
    /\ call' = [call EXCEPT ![th] = c]
    /\ UNCHANGED <<shared, hand, lost>>

Leave(th) ==
    /\ Unlock(call[th].q)
    /\ pc' = [pc EXCEPT ![th] = "idle"]
    /\ call' = [call EXCEPT ![th] = NoCall]

Inside(th, op) == pc[th] = "in" /\ call[th].op = op

-----------------------------------------------------------------------------
\* pfs_get_task.  A lock timeout returns an error and changes nothing.

GetBegin(th, q) ==
    /\ q \notin Parking
    /\ Enter(th, [op |-> "get", q |-> q, t |-> NoTask, pos |-> 1])

\* Mutant of GetHead: the record stays linked.
GetHeadLinked(th) ==
    LET q == call[th].q
        t == Head(pfstask[q])
    IN  /\ Inside(th, "get")
        /\ pfstask[q] # <<>>
        /\ status' = [status EXCEPT ![t] = TASK_Q_UNKNOWN]
        /\ hand' = [hand EXCEPT ![th] = @ \cup {t}]
        /\ Leave(th)
        /\ UNCHANGED <<pfstask, taskcount, last, heap, lost>>

\* The head leaves the list for the caller's hands.
GetHead(th) ==
    LET q == call[th].q
        t == Head(pfstask[q])
    IN  /\ Inside(th, "get")
        /\ pfstask[q] # <<>>
        /\ pfstask' = [pfstask EXCEPT ![q] = Tail(@)]
        /\ taskcount' = [taskcount EXCEPT ![q] = @ - 1]
        /\ status' = [status EXCEPT ![t] = TASK_Q_UNKNOWN]
        /\ hand' = [hand EXCEPT ![th] = @ \cup {t}]
        /\ Leave(th)
        /\ UNCHANGED <<last, heap, lost>>

\* Mutant of GetMalloc: NULL from malloc is handed to the caller.
GetMallocUnchecked(th) ==
    /\ Inside(th, "get")
    /\ call[th].q = TASK_Q_HOME /\ pfstask[TASK_Q_HOME] = <<>>
    /\ hand' = [hand EXCEPT ![th] = @ \cup {NoTask}]
    /\ Leave(th)
    /\ UNCHANGED <<shared, lost>>

\* TASK_Q_HOME is empty: malloc a record.
GetMalloc(th) ==
    /\ Inside(th, "get")
    /\ call[th].q = TASK_Q_HOME /\ pfstask[TASK_Q_HOME] = <<>>
    /\ \E t \in Task \ heap :
        /\ heap' = heap \cup {t}
        /\ status' = [status EXCEPT ![t] = TASK_Q_UNKNOWN]
        /\ last' = [last EXCEPT ![t] = Stamp]
        /\ hand' = [hand EXCEPT ![th] = @ \cup {t}]
    /\ Leave(th)
    /\ UNCHANGED <<pfstask, taskcount, lost>>

\* GET_TASK_Q_NOTHING: the list is empty (and malloc failed).
GetNothing(th) ==
    /\ Inside(th, "get")
    /\ pfstask[call[th].q] = <<>>
    /\ Leave(th)
    /\ UNCHANGED <<shared, hand, lost>>

-----------------------------------------------------------------------------
\* pfs_set_task.

SetBegin(th, t, q) ==
    /\ t \in hand[th]
    /\ q \in Parking => th = Data /\ taskcount[q] < ParkBound
    /\ Enter(th, [op |-> "set", q |-> q, t |-> t, pos |-> 1])

\* Mutant of SetBody: every record is stamped, those of taskall included.
SetBodyStamped(t, q) ==
    /\ pfstask' = [p \in Queue |-> IF p = q THEN Append(ListDel(pfstask[p], t), t)
                                            ELSE ListDel(pfstask[p], t)]
    /\ status' = [status EXCEPT ![t] = q]
    /\ last' = [last EXCEPT ![t] = Stamp]
    /\ taskcount' = [taskcount EXCEPT ![q] = @ + 1]
    /\ UNCHANGED heap

\* The body both pfs_set_task and the scan callbacks execute inside the mutex
\* of q: unlink t from any list, append it to q.  The counter of the list t
\* was on is not touched.
SetBody(t, q) ==
    /\ pfstask' = [p \in Queue |-> IF p = q THEN Append(ListDel(pfstask[p], t), t)
                                            ELSE ListDel(pfstask[p], t)]
    /\ status' = [status EXCEPT ![t] = q]
    /\ last' = [last EXCEPT ![t] = IF @ > 0 THEN Stamp ELSE @]
    /\ taskcount' = [taskcount EXCEPT ![q] = @ + 1]
    /\ UNCHANGED heap

\* Mutant of Set: the caller goes on using the record it has queued.
SetKept(th) ==
    /\ Inside(th, "set")
    /\ SetBody(call[th].t, call[th].q)
    /\ Leave(th)
    /\ UNCHANGED <<hand, lost>>

\* A connection of the data plugin keeps its reference to a parked record.
Set(th) ==
    LET q == call[th].q
        t == call[th].t
    IN  /\ Inside(th, "set")
        /\ SetBody(t, q)
        /\ hand' = IF q \in Parking THEN hand ELSE [hand EXCEPT ![th] = @ \ {t}]
        /\ Leave(th)
        /\ UNCHANGED lost

\* The lock times out; the callers ignore the -1 and forget the record.
SetTimeout(th, t, q) ==
    /\ pc[th] = "idle" /\ t \in hand[th]
    /\ mutex[q] # NoThread
    /\ hand' = [hand EXCEPT ![th] = @ \ {t}]
    /\ lost' = lost \cup {t}
    /\ UNCHANGED <<shared, mutex, pc, call>>

-----------------------------------------------------------------------------
\* scan_some_status_task and its three callbacks: check_task_timeout on the
\* Expiring queues, get_data_from_task on TASK_Q_CLEAN, clean_unused_task_mem
\* on TASK_Q_HOME.

ScanBegin(th, q) ==
    /\ q \in Expiring \cup {TASK_Q_CLEAN, TASK_Q_HOME}
    /\ Enter(th, [op |-> "scan", q |-> q, t |-> NoTask, pos |-> 1])

Visiting(th) == Inside(th, "scan") /\ call[th].pos <= Len(pfstask[call[th].q])

Visited(th) == pfstask[call[th].q][call[th].pos]

\* The record is not overdue, or was used within the hour, or is of taskall.
ScanKeep(th) ==
    /\ Visiting(th)
    /\ call[th].q # TASK_Q_CLEAN
    /\ call' = [call EXCEPT ![th].pos = @ + 1]
    /\ UNCHANGED <<shared, mutex, pc, hand, lost>>

\* Mutant of ScanTake: atomic_dec is left out.
ScanTakeUncounted(th) ==
    /\ Visiting(th)
    /\ call[th].q # TASK_Q_HOME
    /\ pfstask' = [pfstask EXCEPT ![call[th].q] = ListDel(@, Visited(th))]
    /\ hand' = [hand EXCEPT ![th] = @ \cup {Visited(th)}]
    /\ call' = [call EXCEPT ![th].t = Visited(th)]
    /\ pc' = [pc EXCEPT ![th] = "nest"]
    /\ UNCHANGED <<taskcount, status, last, heap, mutex, lost>>

\* Mutant of ScanTake: the TASK_Q_HOME scan queues records as well.
ScanTakeHome(th) ==
    /\ Visiting(th)
    /\ pfstask' = [pfstask EXCEPT ![call[th].q] = ListDel(@, Visited(th))]
    /\ taskcount' = [taskcount EXCEPT ![call[th].q] = @ - 1]
    /\ hand' = [hand EXCEPT ![th] = @ \cup {Visited(th)}]
    /\ call' = [call EXCEPT ![th].t = Visited(th)]
    /\ pc' = [pc EXCEPT ![th] = "nest"]
    /\ UNCHANGED <<status, last, heap, mutex, lost>>

\* check_task_timeout (overdue) and get_data_from_task (always): unlink, count
\* down the queue named by task->status, then pfs_set_task on TASK_Q_HOME.
ScanTake(th) ==
    LET q == call[th].q
        t == Visited(th)
    IN  /\ Visiting(th)
        /\ q # TASK_Q_HOME
        /\ pfstask' = [pfstask EXCEPT ![q] = ListDel(@, t)]
        /\ taskcount' = [taskcount EXCEPT ![status[t]] = @ - 1]
        /\ hand' = [hand EXCEPT ![th] = @ \cup {t}]
        /\ call' = [call EXCEPT ![th].t = t]
        /\ pc' = [pc EXCEPT ![th] = "nest"]
        /\ UNCHANGED <<status, last, heap, mutex, lost>>

NestLock(th) ==
    /\ pc[th] = "nest"
    /\ Lock(th, TASK_Q_HOME)
    /\ pc' = [pc EXCEPT ![th] = "nestin"]
    /\ UNCHANGED <<shared, call, hand, lost>>

NestSet(th) ==
    /\ pc[th] = "nestin"
    /\ SetBody(call[th].t, TASK_Q_HOME)
    /\ hand' = [hand EXCEPT ![th] = @ \ {call[th].t}]
    /\ Unlock(TASK_Q_HOME)
    /\ pc' = [pc EXCEPT ![th] = "in"]
    /\ call' = [call EXCEPT ![th].t = NoTask]
    /\ UNCHANGED lost

\* Mutant of NestTimeout: pthread_mutex_lock, which never gives up.
NestWaits(th) == pc[th] = "nest" /\ FALSE

NestTimeout(th) ==
    /\ pc[th] = "nest"
    /\ mutex[TASK_Q_HOME] # NoThread
    /\ hand' = [hand EXCEPT ![th] = @ \ {call[th].t}]
    /\ lost' = lost \cup {call[th].t}
    /\ pc' = [pc EXCEPT ![th] = "in"]
    /\ call' = [call EXCEPT ![th].t = NoTask]
    /\ UNCHANGED <<shared, mutex>>

\* Mutant of ScanFree: the record is freed while it is linked.
ScanFreeLinked(th) ==
    /\ Visiting(th)
    /\ call[th].q = TASK_Q_HOME
    /\ last[Visited(th)] >= 0
    /\ heap' = heap \ {Visited(th)}
    /\ UNCHANGED <<pfstask, taskcount, status, last, mutex, pc, call, hand, lost>>

\* clean_unused_task_mem frees a record that init_task_info did not allocate.
ScanFree(th) ==
    LET t == Visited(th)
    IN  /\ Visiting(th)
        /\ call[th].q = TASK_Q_HOME
        /\ last[t] >= 0
        /\ pfstask' = [pfstask EXCEPT ![TASK_Q_HOME] = ListDel(@, t)]
        /\ taskcount' = [taskcount EXCEPT ![TASK_Q_HOME] = @ - 1]
        /\ heap' = heap \ {t}
        /\ UNCHANGED <<status, last, mutex, pc, call, hand, lost>>

ScanEnd(th) ==
    /\ Inside(th, "scan")
    /\ call[th].pos > Len(pfstask[call[th].q])
    /\ Leave(th)
    /\ UNCHANGED <<shared, hand, lost>>

-----------------------------------------------------------------------------
\* What a thread does once it is inside an operation.
Step(th) ==
    \/ GetHead(th) \/ GetMalloc(th) \/ GetNothing(th)
    \/ Set(th)
    \/ ScanKeep(th) \/ ScanTake(th) \/ ScanFree(th) \/ ScanEnd(th)
    \/ NestLock(th) \/ NestSet(th) \/ NestTimeout(th)

Begin(th) ==
    \E q \in Queue :
        \/ GetBegin(th, q)
        \/ ScanBegin(th, q)
        \/ \E t \in hand[th] : SetBegin(th, t, q) \/ SetTimeout(th, t, q)

Next == \E th \in Thread : Step(th) \/ Begin(th)

\* A thread that is inside an operation keeps running.
Fairness == \A th \in Thread : WF_vars(Step(th))

Spec == Init /\ [][Next]_vars /\ Fairness

-----------------------------------------------------------------------------
\* The state has the types the declarations of pfs_task.c and pfs_task.h give.
TypeOK ==
    /\ pfstask \in [Queue -> Seq(Task)]
    /\ taskcount \in [Queue -> Int]
    /\ status \in [Task -> Queue \cup {TASK_Q_UNKNOWN}]
    /\ last \in [Task -> {-1, Stamp}]
    /\ heap \in SUBSET Task
    /\ mutex \in [Queue -> Thread \cup {NoThread}]
    /\ pc \in [Thread -> {"idle", "in", "nest", "nestin"}]
    /\ call \in [Thread -> Call]
    /\ hand \in [Thread -> SUBSET Task]
    /\ lost \in SUBSET Task

Linked(t) == \E q \in Queue : On(pfstask[q], t)

\* A record pfs_get_task gave to one thread can reach no other thread until
\* that thread calls pfs_set_task: it is in no other thread's hands and on no
\* list a pfs_get_task or a scan reads, and no list holds a record twice.
Custody ==
    /\ \A q \in Queue : Distinct(pfstask[q])
    /\ \A p, q \in Queue : \A t \in Task :
        On(pfstask[p], t) /\ On(pfstask[q], t) => p = q
    /\ \A th \in Thread : \A t \in hand[th] :
        /\ \A other \in Thread \ {th} : t \notin hand[other]
        /\ \A q \in Queue : On(pfstask[q], t) => q \in Parking /\ th = Data

\* Every allocated record is on a list or in a thread's hands; only a timed
\* out pfs_set_task leaks one, and a freed record is referenced from nowhere.
Accounted ==
    \A t \in Task :
        t \in heap <=> Linked(t) \/ t \in lost \/ \E th \in Thread : t \in hand[th]

\* free() is never called on a record inside the one block init_task_info
\* allocated: task->last stays -1 in those whatever pfs_set_task does.
PoolKept == Pool \subseteq heap

\* get_task_count is the length of the list wherever the code reads it (the
\* limit on directory syncs, the load report); TASK_Q_HOME is off by the size
\* of the pool; the counters of the Parking queues never fall.
CountExact ==
    /\ \A q \in Queue \ (Parking \cup {TASK_Q_HOME}) : taskcount[q] = Len(pfstask[q])
    /\ taskcount[TASK_Q_HOME] + Len(taskall) = Len(pfstask[TASK_Q_HOME])
    /\ \A q \in Parking : taskcount[q] >= Len(pfstask[q])

\* The lists the next step of th reads or writes.
Touches(th) ==
    {q \in Queue :
        \/ pc[th] = "in" /\ q = call[th].q
        \/ pc[th] = "nestin" /\ q \in {call[th].q, TASK_Q_HOME}
        \/ pc[th] = "nest" /\ q = call[th].q
        \/ Inside(th, "set") /\ On(pfstask[q], call[th].t)}

\* Two threads never work on the same list at the same time, although
\* pfs_set_task unlinks a record from a list whose mutex it does not take.
RaceFree ==
    \A a, b \in Thread : a # b => Touches(a) \cap Touches(b) = {}

\* A thread inside the mutex of TASK_Q_HOME waits for no other mutex, so the
\* nested pfs_set_task of a scan callback cannot close a cycle of waits.
HomeHolderNeverWaits ==
    mutex[TASK_Q_HOME] # NoThread => pc[mutex[TASK_Q_HOME]] # "nest"

\* Every call returns: the timed lock ends the only wait inside a mutex, and a
\* scan visits a list that cannot grow under it.
EveryCallReturns ==
    \A th \in Thread : pc[th] # "idle" ~> pc[th] = "idle"

-----------------------------------------------------------------------------
\* The inductive invariant from which the safety properties follow.

\* A mutex is held by the thread that is inside it, and by no other.
LockInv ==
    /\ \A th \in Thread : pc[th] # "idle" => mutex[call[th].q] = th
    /\ \A th \in Thread : pc[th] = "nestin" => mutex[TASK_Q_HOME] = th
    /\ \A q \in Queue : mutex[q] # NoThread =>
        LET th == mutex[q]
        IN  pc[th] # "idle" /\ (call[th].q = q \/ (pc[th] = "nestin" /\ q = TASK_Q_HOME))

\* The arguments of the call a thread is inside.
CallInv ==
    \A th \in Thread :
        /\ pc[th] # "idle" /\ call[th].q \in Parking => th = Data /\ call[th].op = "set"
        /\ Inside(th, "set") => call[th].t \in hand[th]
        /\ pc[th] \in {"nest", "nestin"} =>
            /\ call[th].op = "scan" /\ call[th].q # TASK_Q_HOME
            /\ call[th].t \in hand[th] /\ status[call[th].t] = call[th].q

\* task->status names the one list a linked record is on.
ListInv ==
    \A q \in Queue :
        /\ Distinct(pfstask[q])
        /\ \A t \in Task : On(pfstask[q], t) =>
            /\ status[t] = q
            /\ t \in heap
            /\ q \in Parking => t \in hand[Data] \cup lost
            /\ q \notin Parking => t \notin lost /\ \A th \in Thread : t \notin hand[th]

\* Hands hold allocated records and share none.
HandInv ==
    /\ lost \subseteq heap
    /\ \A th \in Thread : hand[th] \subseteq heap \ lost
    /\ \A a, b \in Thread : a # b => hand[a] \cap hand[b] = {}
    /\ \A t \in heap : Linked(t) \/ t \in lost \/ \E th \in Thread : t \in hand[th]

\* The records of taskall are marked by last = -1 and stay allocated.
PoolInv == \A t \in Pool : t \in heap /\ last[t] = -1

IInv == TypeOK /\ LockInv /\ CallInv /\ ListInv /\ HandInv /\ PoolInv /\ CountExact

-----------------------------------------------------------------------------
\* The place of a record, for the refinement of TaskPool.
where ==
    [t \in Task |->
        IF t \notin heap THEN "free"
        ELSE IF t \in lost THEN "lost"
        ELSE IF \E th \in Thread : t \in hand[th] THEN CHOOSE th \in Thread : t \in hand[th]
        ELSE status[t]]

P == INSTANCE TaskPool WITH Free <- "free", Lost <- "lost"

\* The mutexes, lists and unlocked unlinking together behave like a pool in
\* which a record is in one place and moves in one step.
ImplementsTaskPool == P!Spec
=============================================================================
