SPECIFICATION Spec
CONSTANTS
  j1 = j1 j2 = j2 c1 = c1 c2 = c2 q = q
  Jobs = {j1, j2}
  Queues = {q}
  QueueOf <- AllQueued
  Concurrency <- OneSlot
  Runners = {r1, r2, r3, r4}
  Clients = {c1, c2}
  Roles <- TwoAgents
  NoRunner = NoRunner NoQueue = NoQueue NoJob = NoJob NoCode = NoCode
  Codes = {0}
  BadJobs = {j2} EndlessJobs = {} TimedJobs = {} QuietJobs = {}
  Faults = {"runner", "client"} MaxFaults = 1
SYMMETRY RunnerSymmetry
INVARIANTS Capacity OneAdmittedRunner QueuedKeepsSpec
PROPERTIES NeverRequeuedOnceRunning LaunchedUnrecorded ImplementsLifecycle
CHECK_DEADLOCK FALSE
