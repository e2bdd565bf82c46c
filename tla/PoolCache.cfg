SPECIFICATION Spec
CONSTANTS
    Tx <- MCTx
    Block <- MCBlock
    KeyImage = {"k1"}
    Output = {"o"}
    Genesis = "G"
    Prev <- MCPrev
    Work <- MCWork
    BlockTxs <- MCBlockTxs
    Images <- MCImages
    Spends <- MCSpends
    Ring <- MCRing
    Fee <- MCFee
    Size <- MCSize
    TTL <- MCTTL
    Live = 0
    LiveAlt = 1
    Forget = 0
    Future = 1
    CheckInterval = 0
    Median = 4
    MaxCumulative = 9
    Reserved = 1
    FusionMax = 2
    WordSize = 64
    MaxTime = 1
    NullHash = NullHash
PROPERTY TemplateIsValid
