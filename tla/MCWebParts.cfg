SPECIFICATION WebSpec
CONSTANTS
  MaxLogins = 2
  MaxFailed = 1
  MaxSent = 2
  Dialog = {"d1", "d2"}
  Fields = 2
  MaxScroll = 1
  u = u  v = v  w = w
  OptionLists <- MCOptionLists
  Layouts <- MCLayouts
  Margin = 1
  Offset = 1
  MaxHeight = 4
  PrefTab = {"overview", "events"}
  FirstTab = "overview"
  PrefRange = {"all", "24h", "custom"}
  LineModel = {"m"}
  Days = 2
  MaxLines = 2
  Missing = Missing
  HourTicks = 2
  DayHours = 3
  ZoneShift = 1
  PresetHours <- MCNone
  ModelPrices <- MCNone
  BlockTicks = 1
  Blocks = 4
  AnalysisRow <- MCAnalysisRow
  Identities <- MCIdentities
  NameOrder <- MCNameOrder
  TopLimit = 1
  GridSizes = {2, 3}
  GridWidth = 12
  BlockHeight = 1
  Scrolls <- MCScrolls
  ScreenWidth = 12
  SafeWidth = 6
  SafeHeight = 1
  Gap = 1
INVARIANTS
  ListUsable PreferencesKept TablesTrue TooltipAtBlock
PROPERTIES SessionEndShown DialogsGiveBack
CHECK_DEADLOCK FALSE
