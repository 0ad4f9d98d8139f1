SPECIFICATION Spec
CONSTANTS
  NoFile = NoFile NoRow = NoRow NoAnswer = NoAnswer NoTime = NoTime
  Backends = {"local", "ssh", "slurm"}
  Kinds = {"logs", "follow", "artifact"}
  Tails = {0, 1}
  Budget = 2
  MaxBytes = 4
  QJobs = {1, 2, 3, 4}
  Slots = 2
  Duration = 2
  Skews <- ClocksApart
  MaxClock = 5
  MaxCancels = 1
  Waiters = {w1, w2}
  Cancellers = {x1, x2}
  MaxSlow = 1
INVARIANTS CutIsTold ExitedIsSettled EstimateIsEnough TimesFitTogether
PROPERTIES WaitEnds ResultHolds
CHECK_DEADLOCK FALSE
