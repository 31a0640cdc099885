SPECIFICATION MCSpec
CONSTANTS
    pay1 = pay1
    pay2 = pay2
    sent1 = sent1
    made1 = made1
    change1 = change1
    Items    <- MCItems
    Needs    <- MCNeeds
    Receipts <- MCReceipts
    Sent     <- MCSent
    Foreign  <- MCForeign
    Spends   <- MCSpends
    Change   <- MCChange
    Value    <- MCValue
    Paid     <- MCPaid
    Required = 2
    MaxHeight = 3
    MaxBlocks = 4
    MaxBody = 2
    MaxInputs = 4
    MaxTargets = 2
    MaxValue = 5
    MaxTarget = 8
INVARIANTS
    LiveRowsAreOnTips
    PayrefsResolve
    SolutionsAreSound
    FoundWhenPossible
PROPERTIES
    HistoryIsKept
    SpentOnce
CHECK_DEADLOCK FALSE
