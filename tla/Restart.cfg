SPECIFICATION Spec
CONSTANTS
    Block <- LimitsBlock
    Genesis = "G"
    Path <- LimitsPath
    Work <- LimitsWork
    Tx <- LimitsTx
    KeyImage <- LimitsKeyImage
    BlockTxs <- LimitsBlockTxs
    KeyImages <- LimitsKeyImages
    Ring <- LimitsRing
    BadBlocks = {"X2"}
    WeakPow = {"A1", "W2"}
    Oversize = {"O2"}
    BadReward = {}
    Improbable = {"P3"}
    PoissonTrigger = 2
    UnlockWindow = 2
    WordSize = 65536
    HardCheckpoints = {"A1"}
    DnsCheckpoints = {"P2"}
    MaxStops = 2
    NoCache = NoCache
INVARIANTS
    NoDoubleSpend
    IndexCoversChain
PROPERTIES
    StartObeysCheckpoints
