SPECIFICATION FairSpec
CONSTANTS
  j1 = j1 j2 = j2 c1 = c1 c2 = c2 q = q
  Jobs = {j1, j2}
  Queues = {q}
  QueueOf <- AllQueued
  Concurrency <- OneSlot
  Runners = {r1, r2, r3}
  Clients = {c1}
  Roles <- OneAgent
  NoRunner = NoRunner NoQueue = NoQueue NoJob = NoJob NoCode = NoCode
  Codes = {0}
  BadJobs = {} EndlessJobs = {j1} TimedJobs = {j1} QuietJobs = {}
  Faults = {"runner", "reboot", "slow"} MaxFaults = 1
PROPERTIES EventuallyTerminal WatchedEventuallyTerminal
CHECK_DEADLOCK FALSE
