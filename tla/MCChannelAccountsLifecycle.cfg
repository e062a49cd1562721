CONSTANTS
  e1 = e1
  e2 = e2
  c1 = c1
  c2 = c2
  Executions = {e1, e2}
  N = 1
  Implements <- ChannelPluginOnly
  Throws <- ReleaseThrows
  ChannelPlugin = 1
  Channels = {c1, c2}
  Batches <- AnyBatch
  Ids = {e1, e2}
  IdOf <- FreshIds
  NoChannel = NoChannel
  Kind <- OneOfEach
  SimulateOnly = {}
  LateFailures = FALSE
  TimeoutsSet = TRUE
  HorizonMayLag = FALSE
  OpenCalls = {o1}
  CloseCalls = {x1}
  Numbers = {0, 1, 2, 3}
  channelLimit = 2
SPECIFICATION FairLifecycleSpec
INVARIANTS
  NoSequenceClash
  ChannelsAreAccounts
PROPERTY TransactionsSettle
CHECK_DEADLOCK FALSE
