CONSTANTS
  e1 = e1
  e2 = e2
  c1 = c1
  c2 = c2
  Executions = {e1, e2}
  N = 1
  Implements <- ChannelPluginOnly
  Throws <- ReleaseThrows
  ChannelPlugin = 1
  Channels = {c1, c2}
  Batches <- OneChannel
  Ids = {e1, e2}
  IdOf <- FreshIds
  NoChannel = NoChannel
  Kind <- AllSoroban
  SimulateOnly = {}
  LateFailures = TRUE
  TimeoutsSet = TRUE
  HorizonMayLag = FALSE
SPECIFICATION ChannelSpec
INVARIANT NoSequenceClash
CHECK_DEADLOCK FALSE
