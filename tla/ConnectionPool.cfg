CONSTANTS
    r1 = r1
    r2 = r2
    u = u
    Slots = {r1, r2, u}
    Menu <- MCMenu
    Items = 2
SPECIFICATION FairSpec
INVARIANTS
    NobodyWaitsForItself
    RefusalsLeaveNothingBehind
PROPERTY EveryCallEnds
