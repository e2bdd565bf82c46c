SPECIFICATION Spec
CONSTANTS
    Block <- ForkBlock
    Genesis = "G"
    Path <- ForkPath
    Work <- ForkWork
    Tx <- ForkTx
    KeyImage <- ForkKeyImage
    BlockTxs <- ForkBlockTxs
    KeyImages <- ForkKeyImages
    Ring <- ForkRing
    BadBlocks = {}
    WeakPow = {}
    Oversize = {}
    BadReward = {"B3b"}
    Improbable = {}
    PoissonTrigger = 10
    UnlockWindow = 3
    WordSize = 65536
    HardCheckpoints = {}
    DnsCheckpoints = {}
    MaxStops = 1
    NoCache = NoCache
INVARIANTS
    TypeOK
    NoDoubleSpend
    IndexConsistency
    PoolChainDisjoint
    RollbackNeverPanics
    NoNestedSwitch
    AlternativesOffMainChain
    NoAlternativeOnTail
PROPERTIES
    RollbackRestores
    ReorganisationKeepsTransactions
    ImplementsLedger
    WorkNeverDecreases
    ReorganisationEnds
