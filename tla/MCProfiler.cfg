CONSTANTS
  e1 = e1
  e2 = e2
  e3 = e3
  c1 = c1
  c2 = c2
  Executions = {e1, e2, e3}
  N = 3
  Implements <- MCImplements
  Throws <- MCThrows
  ChannelPlugin = 2
  Channels = {c1, c2}
  Batches <- MCBatches
  own = own
  reused = reused
  Ids = {own, reused}
  IdOf <- ReusedId
  NoChannel = NoChannel
  ProfilerPlugin = 3
  PipelinePlugins <- MCPipelinePlugins
  ExecutionPlugins <- MCExecutionPlugins
  TypeOf <- MCTypeOf
  SimulateOnly = {e3}
  Method <- MCMethod
  Resources = {"cpuInstructions", "returnValueSize"}
  Undefined = Undefined
  Cost <- MCCost
  Fee <- MCFee
  NoOne = NoOne
SYMMETRY ExecutionSymmetry
SPECIFICATION ProfilerSpec
INVARIANTS
  ProfilerTypeOK
  PoolDisjoint
  HookAccounting
  EntriesAreOwn
  EntryNeverMissing
  SplitReportsAddUp
CHECK_DEADLOCK FALSE
