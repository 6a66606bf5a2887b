CONSTANTS
  w1 = w1
  w2 = w2
  AllWorkers <- MCWorkers
  Setups <- MCSetups
  EntryRank <- MCEntryRank
  RetainRank <- MCRetainRank
  CadenceHours <- MCCadenceHours
  WindowBars <- MCWindowBars
  NumCandidates = 3
  Hour = 2
  Quarter = 1
  DayHours = 2
  RangeBars = 2
  AtrBars = 1
  DailyBars = 4
  ActivityFloor = 4
  SelectedMax = 1
  NearMax = 1
  Boundaries = 2
  ReturnBars = 1
  Lease = 1
  Backoff = 1
  MaxAttempts = 2
  MaxEpoch = 2
  MaxFaults = 1
SPECIFICATION FairSpec
INVARIANTS
  OneLineage
PROPERTIES
  SnapshotNotOvertaken
  DueJobEnds
CHECK_DEADLOCK FALSE
