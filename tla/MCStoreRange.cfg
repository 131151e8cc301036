SPECIFICATION StoreSpec
CONSTANTS
  StoreRange = {a, b}
  Unready = {}
  Cached = {a}
  NoRange = NoRange
  MaxEvents = 1
INVARIANTS ShowsSelectedRange
CHECK_DEADLOCK FALSE
