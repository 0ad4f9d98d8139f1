SPECIFICATION FairSpec
CONSTANTS
  j1 = j1 j2 = j2 r1 = r1 r2 = r2
  Jobs = {j1, j2}
  Remote = {j1}
  Readers = {r1, r2}
  Roles <- Pairs
  Limit = 2
  MaxOutages = 1
  MaxDrops = 1
INVARIANTS NothingSkipped OneResult PageIsConsecutive
PROPERTIES EventuallyDelivered WaitReturns
CHECK_DEADLOCK FALSE
