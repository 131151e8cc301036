CONSTANTS
  Caller = {c1, c2}
  Refresher = {r1, r2}
  NoValue = NoValue
  TTL = 1
  MaxAdded = 2
SPECIFICATION CacheSpec
INVARIANTS SeenAtOnce
