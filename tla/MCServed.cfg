SPECIFICATION ServedSpec
CONSTANTS
  Caller = {c1, c2}
  Refresher = {r1, r2}
  NoValue = NoValue
  TTL = 1
  MaxAdded = 2
  Nothing = Nothing
  RotateKeep = 2
  WriteLatest = FALSE
  MaxWritten = 2
  MaxInterval = 3
INVARIANTS SingleFlight RestoresLastUpload HistoryIsRetained
PROPERTIES NeverOlder EveryCallAnswered EveryEventShown NothingUploadedLost EventsUploaded
