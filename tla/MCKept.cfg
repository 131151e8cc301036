SPECIFICATION KeptSpec
CONSTANTS
  d1 = d1  d2 = d2  d3 = d3  x = x  r = r
  NoId = NoId
  Message <- MCMessage
  Body <- MCBody
  RequestId <- MCRequestId
  Malformed = {}
  Unstamped = {}
  PopCount = 2
  ListLimit = 2
  InsertBatch = 1
  MaxAttempts = 2
  TicksPerDay = 1
  CleanupTick = 0
  FailedRetention = 0
  MaxTime = 0
  MaxCrashes = 1
  Day = 10
  FourOClock = 1
  Shift = 8
  Interval = {7, 10, 20}
  RetryDelay = 1
  RetentionDays = 1
  CopyTime = 1
  LastTick = 26
  MaxStops = 1
  Loop = loop  manual = manual
  Syncer <- MCSyncer
  file = file  gemini = gemini
  AuthFile = {file}
  Provider = {}
  ProviderType <- MCProviderType
  Window = {1}
  NoTime = NoTime
  SyntheticBatch = 1
  MaxRequests = 2
INVARIANTS CountedOnce ProcessedIsCounted AttemptBudget SyntheticContiguous BackfillCovers OnSchedule
PROPERTIES KeptForRetention
CHECK_DEADLOCK FALSE
