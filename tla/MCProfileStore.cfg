SPECIFICATION Spec
CONSTANTS
  Providers = {"p", "q"}
  BadOuts = {"bad"}
  LocalOuts = {"lan"}
  Settings = {"s1", "allowLan"}
  BadSettings = {"allowLan"}
  Imports <- MCImports
  Feeds <- MCFeeds
  Upserts <- MCUpserts
  Documents <- MCDocuments
  TotalChunks = 2
  MaxNodes = 3
  MaxPending = 1
INVARIANTS
  DocumentSound
  RefreshSettles
PROPERTIES
  RefreshKeepsOthers
  NoMixedBatch
