SPECIFICATION Spec
CONSTANTS
    Block <- ZoneBlock
    Genesis = "G"
    Path <- ZonePath
    Work <- ZoneWork
    Tx <- ZoneTx
    KeyImage <- ZoneKeyImage
    BlockTxs <- ZoneBlockTxs
    KeyImages <- ZoneKeyImages
    Ring <- ZoneRing
    BadBlocks = {}
    WeakPow = {}
    Oversize = {}
    BadReward = {}
    Improbable = {}
    PoissonTrigger = 10
    UnlockWindow = 3
    WordSize = 65536
    HardCheckpoints = {}
    DnsCheckpoints = {"A1", "C4"}
    MaxStops = 0
    NoCache = NoCache
INVARIANTS
    IndexConsistency
    AlternativesOffMainChain
PROPERTIES
    CheckpointsAreFinal
    ReorganisationEnds
