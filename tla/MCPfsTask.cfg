SPECIFICATION Spec
CONSTANTS
    t1 = t1
    t2 = t2
    t3 = t3
    Task <- MCTask
    taskall <- MCtaskall
    NoTask = NoTask
    Thread = {data, sig}
    NoThread = NoThread
    Data = data
    Queue <- MCQueue
    TASK_Q_UNKNOWN = "UNKNOWN"
    TASK_Q_HOME = "HOME"
    TASK_Q_CLEAN = "CLEAN"
    Expiring = {"WAIT"}
    Parking = {"RECV"}
    ParkBound = 1
INVARIANTS
    TypeOK
    Custody
    Accounted
    PoolKept
    CountExact
    RaceFree
    HomeHolderNeverWaits
PROPERTIES
    ImplementsTaskPool
    EveryCallReturns
