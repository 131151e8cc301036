CONSTANTS
  Loop = loop  manual = manual
  Syncer <- MCSyncer
  file = file  key = key  gemini = gemini
  AuthFile = {}
  Provider = {key}
  ProviderType <- MCProviderType
  Window = {1, 2}
  NoTime = NoTime
  SyntheticBatch = 1
  MaxRequests = 3
SPECIFICATION MetadataSpec
INVARIANTS StatsExact
PROPERTIES StatsNeverRegress
