SPECIFICATION Spec
CONSTANTS
  a1 = a1
  a2 = a2
  Targets <- TwoTargets
  First <- MCFirst
  Owners <- MCOwners
  Modes = {"Full"}
  InitTip = 4
  MaxTip = 5
  batch_size = 2
  max_blocks = 2
  max_error_retries = 2
  MaxFaults = 0
INVARIANT OwnOutputsAreStored
