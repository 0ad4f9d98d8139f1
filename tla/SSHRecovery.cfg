SPECIFICATION FairSpec
CONSTANTS
  j1 = j1 j2 = j2 c1 = c1 c2 = c2
  NoJob = NoJob NoCode = NoCode
  Jobs = {j1, j2}
  QueuedJobs = {j1, j2}
  Slots = 1
  Clients = {c1}
  Refreshes <- PollAll
  Cancels <- CancelNone
  EndlessJobs = {j1} TimedJobs = {j1}
  Codes = {0, 124}
  Faults = {"answer", "script", "slow", "wrapper"} MaxFaults = 1
PROPERTIES RemoteEventuallyTerminal
CHECK_DEADLOCK FALSE
