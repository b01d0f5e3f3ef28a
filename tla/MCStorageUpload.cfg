SPECIFICATION Spec
CONSTANTS
    Task = {t1, t2}
    NoTask = NoTask
    Peer = {p1, p2}
    Client = {k1}
    NoIp = NoIp
    File = {f1}
    NoFile = NoFile
    Watched = {f1}
    DConn = {}
    UConn = {u1}
    NoConn = NoConn
    pfs_retry = 0
    max_data_connects = 0
    MaxNewRetry = 0
    max_task_run_once = 3
    check_task_timeout = TRUE
SYMMETRY Symmetry
INVARIANTS OwedIsCarried AnnouncedWasInstalled
