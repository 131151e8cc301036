CONSTANTS
  Loop = loop  manual = manual
  Syncer <- MCSyncer
  file = file  key = key  gemini = gemini
  AuthFile = {file}
  Provider = {}
  ProviderType <- MCProviderType
  Window = {1}
  NoTime = NoTime
  SyntheticBatch = 1
  MaxRequests = 1
SPECIFICATION FairMetadataSpec
PROPERTIES EveryEventAggregated
