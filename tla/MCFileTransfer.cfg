SPECIFICATION FairSpec
CONSTANTS
    t1 = t1
    t2 = t2
    long = long
    short = short
    empty = empty
    NoFile = NoFile
    NoTask = NoTask
    Task <- MCTask
    FileOf <- MCFileOf
    Version <- MCVersion
    Size <- MCSize
    retry = 0
    SockBuf = 3
    MaxFaults = 1
    MaxChanges = 2
INVARIANTS TypeOK InstalledWhole Framed Conserved WaitsOnlyFor
PROPERTY FetchEnds
