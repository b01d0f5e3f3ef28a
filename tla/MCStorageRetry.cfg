SPECIFICATION Spec
CONSTANTS
    Task = {t1}
    NoTask = NoTask
    Peer = {p1}
    Client = {}
    NoIp = NoIp
    File = {f1}
    NoFile = NoFile
    Watched = {}
    DConn = {c1}
    UConn = {}
    NoConn = NoConn
    pfs_retry = 1
    max_data_connects = 0
    MaxNewRetry = 0
    max_task_run_once = 3
    check_task_timeout = TRUE
INVARIANT RetryWithinSetting
