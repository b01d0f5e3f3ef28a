SPECIFICATION FairSpec
CONSTANTS
    d1 = d1
    d2 = d2
    f1 = f1
    f2 = f2
    Peer = {p1, p2}
    Dir <- MCDir1
    File <- MCFile
    DirOf <- MCDirOf
    max_task_run_once = 1
    MaxAsked = 2
    task_timeout = 1
    Epoch = 2
    MaxTime = 3
INVARIANTS TypeOK FoundIsQueued AskingIsQueued
PROPERTY AskedIsAnswered
