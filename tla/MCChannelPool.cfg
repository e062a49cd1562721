CONSTANTS
  e1 = e1
  e2 = e2
  e3 = e3
  c1 = c1
  c2 = c2
  Executions = {e1, e2, e3}
  N = 3
  Implements <- MCImplements
  Throws <- SafeThrows
  ChannelPlugin = 2
  Channels = {c1, c2}
  Batches <- MCBatches
  Ids = {e1, e2, e3}
  IdOf <- FreshIds
  NoChannel = NoChannel
SPECIFICATION FairSpec
INVARIANTS
  LocksMatchHolders
  PoolConserved
  SourceExclusive
  SettledItemsHoldNoChannel
PROPERTIES
  WaitersServed
  ImplementsLease
CHECK_DEADLOCK FALSE
