SPECIFICATION FairSpec
CONSTANTS
  j1 = j1 j2 = j2 j3 = j3 q = q c1 = c1 c2 = c2 g = g
  a = a b = b build = build device = device k = k h = h
  Jobs = {j1, j2, j3}
  Queues = {q}
  QueueOf <- PlacesOfJobs
  Concurrency <- TwoSlots
  Runners = {}
  NoRunner = NoRunner NoQueue = NoQueue NoCode = NoCode
  Codes = {}
  Clients = {c1, c2, g}
  Requests = {a, b, build, device}
  NoRequest = NoRequest NoJob = NoJob NoKey = NoKey NoPrint = NoPrint NoHost = NoHost
  KeyOf <- Keys
  Asked <- Requested
  Settings <- Configured
  Calls <- Programs
  Groups = {g}
  Builds = {g}
  MaxTries = 2
  MaxFaults = 1
INVARIANTS OneJobPerKey RepliesAgree GroupIsWhole
PROPERTIES EventuallyAnswered
CHECK_DEADLOCK FALSE
