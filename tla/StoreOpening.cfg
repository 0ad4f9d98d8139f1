SPECIFICATION FairSpec
CONSTANTS
  j1 = j1 j2 = j2
  Jobs = {j1, j2}
  Queues = {}
  QueueOf <- NoPlacement
  Concurrency <- NoSlots
  Runners = {}
  NoRunner = NoRunner NoQueue = NoQueue NoCode = NoCode
  Codes = {}
  Processes = {p1, p2}
  Columns = {c1, c2}
  LegacyStates <- AnyState
  LegacyEvents <- AnyEvent
  MaxLegacy = 3
  MaxKills = 1
INVARIANTS OpenFeedIsSound
PROPERTIES MigratedOnce EverybodyOpens
CHECK_DEADLOCK FALSE
