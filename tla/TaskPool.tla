------------------------------ MODULE TaskPool ------------------------------
(***************************************************************************)
(* What the task queues of network/pfs_task.c promise to the threads of a  *)
(* 56pfs process: a task record is in one place at a time - on one queue,  *)
(* in the hands of one thread, back in the allocator, or lost after a lock *)
(* timeout - and it passes from thread to thread only through a queue.     *)
(* PfsTask (lists, counters and mutexes) is shown to implement this        *)
(* specification; StorageNode (the plugins) relies on it.                  *)
(***************************************************************************)

CONSTANTS
    Task,         \* t_pfs_tasklist records
    Thread,       \* the threads of the process
    Queue,        \* the queues tasks are exchanged on
    TASK_Q_HOME,  \* the queue of unused records
    Pool,         \* the records init_task_info allocates
    Free, Lost    \* places of a record that is not in use

VARIABLE where    \* where[t]: the place of record t

Place == Queue \cup Thread \cup {Free, Lost}

Init == where = [t \in Task |-> IF t \in Pool THEN TASK_Q_HOME ELSE Free]

\* pfs_get_task, or a scan callback that unlinks: a thread takes t off queue q.
Take(th, q, t) ==
    /\ where[t] = q
    /\ where' = [where EXCEPT ![t] = th]

\* pfs_get_task on an empty TASK_Q_HOME allocates a record.
Malloc(th, t) ==
    /\ where[t] = Free
    /\ where' = [where EXCEPT ![t] = th]

\* pfs_set_task: the thread that has t, and no other, links it on queue q.
Put(th, q, t) ==
    /\ where[t] = th
    /\ where' = [where EXCEPT ![t] = q]

\* pfs_set_task returns -1 after a lock timeout and no caller looks at it.
Lose(th, t) ==
    /\ where[t] = th
    /\ where' = [where EXCEPT ![t] = Lost]

\* clean_unused_task_mem frees a record that is unused, on TASK_Q_HOME.
Release(t) ==
    /\ where[t] = TASK_Q_HOME
    /\ t \notin Pool
    /\ where' = [where EXCEPT ![t] = Free]

Next ==
    \E t \in Task :
        \/ Release(t)
        \/ \E th \in Thread :
            \/ Malloc(th, t)
            \/ Lose(th, t)
            \/ \E q \in Queue : Take(th, q, t) \/ Put(th, q, t)

Spec == Init /\ [][Next]_where

=============================================================================
