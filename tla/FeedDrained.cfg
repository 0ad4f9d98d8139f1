SPECIFICATION Spec
CONSTANTS
  j1 = j1 j2 = j2 r1 = r1 r2 = r2
  Jobs = {j1, j2}
  Remote = {j1}
  Readers = {r2}
  Roles <- Waits
  Limit = 2
  MaxOutages = 1
  MaxDrops = 0
INVARIANTS WaitIsComplete
CHECK_DEADLOCK FALSE
