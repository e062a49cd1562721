CONSTANTS
  Second = 2
  MaxTimes = {0, 4}
  DefaultSecondsToWait = 3
  UseEnvelopeTimeout = TRUE
  Starts <- MCStarts
  MaxNow = 26
SPECIFICATION FairSpec
INVARIANTS
  TypeOK
  VerdictSound
  BackoffBounded
  NotFoundAfterDeadline
PROPERTY PollingEnds
CHECK_DEADLOCK FALSE
