SPECIFICATION Spec
CONSTANTS
    d1 = d1
    d2 = d2
    f1 = f1
    f2 = f2
    Peer = {p1}
    Dir <- MCDir
    File <- MCFile
    DirOf <- MCDirOf
    max_task_run_once = 1
    MaxAsked = 2
    task_timeout = 1
    Epoch = 2
    MaxTime = 3
INVARIANT ExpiresAfterTimeout
