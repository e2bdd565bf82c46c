SPECIFICATION Spec
CONSTANTS
    Node <- MCNode
    Tx = {"t"}
    Block <- MCBlock
    Genesis = "G"
    Path <- MCPath
    Work <- MCWork
    Network <- StallNetwork
    IdsCount = 4
    BatchCount = 1
INVARIANTS
    FinalConditionHolds
