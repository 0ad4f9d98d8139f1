SPECIFICATION FairSpec
CONSTANTS
  j1 = j1 j2 = j2 q = q c1 = c1 c2 = c2 c3 = c3
  Jobs = {j1, j2}
  Queues = {q}
  NoQueue = NoQueue NoClient = NoClient NoJob = NoJob
  QueueOf <- QueueOfJob
  Concurrency <- OneSlot
  Remote = {j1}
  Clients = {c1, c2, c3}
  Roles <- Scenes
  Contents = {"before", "after"}
  MaxRecent = 2
  MaxFaults = 1
INVARIANTS AnswersAgree RunIsRecoverable OutagesAreRetried
PROPERTIES EventuallyReturns
CHECK_DEADLOCK FALSE
