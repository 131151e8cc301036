CONSTANTS
  good = good  broken = broken  undated = undated  x = x  y = y  r = r
  NoId = NoId
  Message <- MCMessage
  Body <- MCBody
  RequestId <- MCRequestId
  Malformed <- MCMalformed
  Unstamped <- MCUnstamped
  PopCount = 2
  ListLimit = 1
  InsertBatch = 1
  MaxAttempts = 2
  TicksPerDay = 1
  CleanupTick = 0
  FailedRetention = 0
  MaxTime = 1
  MaxCrashes = 1
SPECIFICATION FairSpec
PROPERTIES ImplementsLedger RowLifecycle EveryRowSettles
CHECK_DEADLOCK FALSE
