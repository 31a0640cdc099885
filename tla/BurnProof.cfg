SPECIFICATION MCSpec
CONSTANTS
    c1 = c1
    c2 = c2
    Calls <- TwoCalls
    k1 = k1
    k2 = k2
    Keys <- TwoKeys
    KeyChoices <- OneOrTwo
    Coins = {x1, x2}
    Items <- TwoCalls
    Needs <- NoNeeds
    MaxHeight = 2
    MaxBlocks = 2
    MaxBody = 1
    MaxFaults = 1
INVARIANTS
    ProofIsNeverLost
    CompleteHasFile
    OneBurnPerKey
PROPERTIES
    MinedBurnsAreProven
CHECK_DEADLOCK FALSE
