SPECIFICATION Spec
CONSTANTS
    Block <- MCBlock
    Genesis = "G"
    Path <- MCPath
    Work <- MCWork
    Tx <- MCTx
    Output <- MCOutput
    BlockTxs <- MCBlockTxs
    Inputs <- MCInputs
    Outputs <- MCOutputs
    Key <- MCKey
    Amount <- MCAmount
    Coinbase = {"c", "f"}
    Unconfirmed = 99
    MaxSteps = 4
INVARIANTS
    TransfersOwned
    CountedOnce
    LikeARescan
    HeightsAgree
CHECK_DEADLOCK FALSE
