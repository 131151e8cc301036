SPECIFICATION TabsSpec
CONSTANTS
  TabRange = {a, bad}
  Invalid = {bad}
  Model = {m}
  All = All
  NoQuery = NoQuery
  Pages = 2
  PricedModel = {m1, m2}
  Price = {p1, p2}
  NoPrice = NoPrice
  MaxSaves = 1
SYMMETRY Symmetry
INVARIANTS TabsConsistent PricesAgree
CHECK_DEADLOCK FALSE
