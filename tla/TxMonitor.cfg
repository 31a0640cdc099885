SPECIFICATION Spec
CONSTANTS
    t1 = t1
    Txs   <- OneTx
    Items <- OneTx
    Needs <- NoNeeds
    Required = 1
    MaxAttempts = 2
    Embedded = TRUE
    MaxHeight = 3
    MaxBlocks = 4
    MaxBody = 1
INVARIANTS
    RejectedIsReleased
    WebhooksFollowMining
    PayrefsResolve
PROPERTY
    FollowsDiagram
CHECK_DEADLOCK FALSE
