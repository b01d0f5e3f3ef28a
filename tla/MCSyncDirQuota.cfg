SPECIFICATION Spec
CONSTANTS
    d1 = d1
    d2 = d2
    d3 = d3
    Dir <- MCDirs2
    DirOrder <- MCOrder2
    sync_list = sync_list
    NULL = NULL
    Peer = {p1}
    sync_dir_count = 2
    MaxAsked = 1
    MaxConn = 1
INVARIANT QuotaCountsRequests
