CONSTANTS
  invoke = invoke
  read = read
  restoreTx = restoreTx
  pay = pay
  Executions = {invoke, read, restoreTx, pay}
  Accounts = {a1, a2}
  Kind <- MCKind
  SimulateOnly = {read}
  Outer = {invoke}
  RestoreOf <- MCRestoreOf
  LateFailures = TRUE
  TimeoutsSet = FALSE
  HorizonMayLag = TRUE
SPECIFICATION RestoreSpec
INVARIANTS
  RestoreTypeOK
  ReturnedMeansSucceeded
  OnlySignedReachNetwork
  RestoredBeforeUse
  SequenceFitsAfterRestore
CHECK_DEADLOCK FALSE
