SPECIFICATION LoadsSpec
CONSTANTS
  StoreRange = {a, b, c}
  Unready = {c}
  Cached = {a}
  NoRange = NoRange
  MaxEvents = 2
  TabRange = {a}
  Invalid = {}
  Model = {m}
  All = All
  NoQuery = NoQuery
  Pages = 2
  Missing = Missing
  HourTicks = 2
  DayHours = 3
  ZoneShift = 1
  BlockTicks = 1
  Blocks = 4
  RateTicks = 1
  TopSeries = 1
  RecentLimit = 2
  Opening = 20
  Closing = 26
  PresetHours <- MCPresetHours
  ModelPrices <- MCModelPrices
  UsageDetail <- MCUsageDetail
  LineChoices <- MCLineChoices
  CustomWindow <- MCCustomWindow
  Durations <- MCDurations
  ServedEvent <- MCServedEvent
  CustomDays <- MCCustomDays
  LongDays = 3
  FirstTick = 20
  LastTick = 26
  MaxServed = 2
INVARIANTS StoreConsistent FiguresAgree ChartsMatchCards
PROPERTIES OverviewConverges TabSettles
CHECK_DEADLOCK FALSE
