SPECIFICATION FairSpec
CONSTANTS
    d1 = d1
    d2 = d2
    d3 = d3
    Dir <- MCDirs3
    DirOrder <- MCOrder3
    sync_list = sync_list
    NULL = NULL
    Peer = {p1, p2}
    sync_dir_count = 2
    MaxAsked = 2
    MaxConn = 2
INVARIANTS TypeOK OnLineAskedAll ListKept
 
