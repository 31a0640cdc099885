SPECIFICATION FairSpec
CONSTANTS
  o1 = o1
  o2 = o2
  l1 = l1
  l2 = l2
  s1 = s1
  s2 = s2
  NoReq = NoReq
  Outputs <- TwoOutputs
  Height <- MCHeight
  Heights = {1, 2, 3}
  Lockers = {l1}
  Senders = {s1}
  Keys = {1, 2}
  KeyOf <- OwnKeys
INVARIANT LocksAreOwned
PROPERTIES
  SpentIsFinal
  LocksAreKept
  OverdueLocksAreReleased
CHECK_DEADLOCK FALSE
