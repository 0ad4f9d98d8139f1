SPECIFICATION Spec
CONSTANTS
  j1 = j1 j2 = j2 c1 = c1 c2 = c2 q = q
  Jobs = {j1, j2}
  Queues = {q}
  QueueOf <- OneDirect
  Concurrency <- OneSlot
  Runners = {r1, r2, r3}
  Clients = {c1, c2}
  Roles <- AgentAndCancel
  NoRunner = NoRunner NoQueue = NoQueue NoJob = NoJob NoCode = NoCode
  Codes = {0, 1}
  BadJobs = {} EndlessJobs = {j1} TimedJobs = {j2} QuietJobs = {j2}
  Faults = {"resource", "slow"} MaxFaults = 1
SYMMETRY RunnerSymmetry
INVARIANTS NoStrayCommand AtMostOneLaunch OneTerminalEvent
PROPERTIES ImplementsLifecycle
CHECK_DEADLOCK FALSE
