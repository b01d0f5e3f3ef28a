SPECIFICATION FairSpec
CONSTANTS
    Task = {t1}
    NoTask = NoTask
    Peer = {p1}
    Client = {k1}
    NoIp = NoIp
    File = {f1}
    NoFile = NoFile
    Watched = {}
    DConn = {c1}
    UConn = {u1}
    NoConn = NoConn
    pfs_retry = 0
    max_data_connects = 0
    MaxNewRetry = 0
    max_task_run_once = 2
    check_task_timeout = FALSE
INVARIANTS HeldByOne NoPushRspToPeer
PROPERTY RecordComesBack
