CONSTANTS
  invoke = invoke
  read = read
  restoreTx = restoreTx
  pay = pay
  Executions = {invoke, read, restoreTx, pay}
  Accounts = {a1, a2}
  Kind <- MCKind
  SimulateOnly = {read}
  Outer = {read}
  RestoreOf <- MCRestoreOf
  LateFailures = TRUE
  TimeoutsSet = TRUE
  HorizonMayLag = FALSE
SPECIFICATION RestoreSpec
INVARIANTS
  SimulationsSubmitNothing
CHECK_DEADLOCK FALSE
