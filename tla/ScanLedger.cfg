SPECIFICATION FairSpec
CONSTANTS
    g = g  s1 = s1  a2 = a2  a3 = a3  b2 = b2  b3 = b3  b4 = b4
    c1 = c1  c2 = c2  c3 = c3
    NoBlock = NoBlock
    Blocks <- MCBlocks
    Height <- MCHeight
    Outs <- MCOuts
    Ins <- MCIns
    Value <- MCValue
    Chains <- MCChains
    Birthday = 1
    Confirmations = 2
    CheckInterval = 2
    RescanHeights = {2}
    MaxReorgs = 2
    MaxEvents = 2
    MaxBatch = 2
    MaxQueue = 1
INVARIANTS ReversalsArePaired CreditsMatchRows InputsSpendActiveRows BalanceMatchesTips TipsAreContiguous
PROPERTY EventuallySynced
