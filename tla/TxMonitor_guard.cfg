SPECIFICATION FairSpec
CONSTANTS
    t1 = t1
    Txs   <- OneTx
    Items <- OneTx
    Needs <- NoNeeds
    Required = 1
    MaxAttempts = 2
    Embedded = FALSE
    MaxHeight = 3
    MaxBlocks = 4
    MaxBody = 1
PROPERTY
    DeepTransactionsAreSettled
CHECK_DEADLOCK FALSE
