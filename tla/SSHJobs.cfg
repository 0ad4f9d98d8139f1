SPECIFICATION Spec
CONSTANTS
  j1 = j1 j2 = j2 c1 = c1 c2 = c2
  NoJob = NoJob NoCode = NoCode
  Jobs = {j1, j2}
  QueuedJobs = {j1, j2}
  Slots = 1
  Clients = {c1, c2}
  Refreshes <- PollFirst
  Cancels <- CancelFirst
  EndlessJobs = {} TimedJobs = {}
  Codes = {0}
  Faults = {"answer", "script", "slow", "wrapper", "client"} MaxFaults = 1
INVARIANTS CancelledStops
PROPERTIES NoOvertaking
CHECK_DEADLOCK FALSE
