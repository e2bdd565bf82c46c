SPECIFICATION Spec
CONSTANTS
    Block <- MCBlock
    Genesis = "G"
    NoBlock = "none"
    Path <- MCPath
    Work <- MCWork
    Consumer = {1, 2}
    PoolTx = {"p"}
    Dense = 0
    Batch = 3
    MaxDisturbances = 2
    AskWhileRunning = FALSE
INVARIANTS
    ConsumersOnOneBranch
    IntervalsFit
PROPERTIES
    AnnouncementsArrive
    StopReturns
    TasksAnswered
CHECK_DEADLOCK FALSE
