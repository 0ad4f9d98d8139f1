CONSTANTS
  j1 = j1
  c1 = c1
  c2 = c2
  NoJob = NoJob
  Jobs <- OneJob
  Clients <- TwoClients
  Polls <- PollAndCancel
  Cancels <- CancelByOne
  LimitedJobs <- OneJob
  QuietJobs <- OneJob
  Ends <- AllEnds
  Grace = 1
  Faults <- FaultKinds
  MaxFaults = 2
SPECIFICATION FairSpec
INVARIANT OutcomeAgrees
PROPERTY LostIsOver
PROPERTY PolledEnds
CHECK_DEADLOCK FALSE
