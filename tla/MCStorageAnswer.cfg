SPECIFICATION Spec
CONSTANTS
    Task = {t1}
    NoTask = NoTask
    Peer = {p1}
    Client = {k1}
    NoIp = NoIp
    File = {f1}
    NoFile = NoFile
    Watched = {}
    DConn = {}
    UConn = {u1}
    NoConn = NoConn
    pfs_retry = 0
    max_data_connects = 0
    MaxNewRetry = 1
    max_task_run_once = 3
    check_task_timeout = FALSE
INVARIANT FailedUploadAnswered
