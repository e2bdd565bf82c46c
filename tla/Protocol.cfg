SPECIFICATION Spec
CONSTANTS
    Node <- MCNode
    Tx = {"t"}
    Block <- MCBlock
    Genesis = "G"
    Path <- MCPath
    Work <- MCWork
    Network <- MCNetwork
    IdsCount = 4
    BatchCount = 2
INVARIANTS
    StartsClean
    OneAnswerOutstanding
    BatchesConnect
PROPERTIES
    Converges
    TransactionsSpread
