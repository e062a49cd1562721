CONSTANTS
  alice = alice
  bob = bob
  ofAlice = ofAlice
  ofBob = ofBob
  ofSource = ofSource
  ofContract = ofContract
  Entries = {ofAlice, ofBob, ofSource, ofContract}
  Credential <- MCCredential
  SignerSets <- MCSignerSets
  Freighters = {bob}
  Sequences = {7, 8, 9}
  MaxSafe = 8
  MaxTimes = {0, 5}
  MaxLedgers = {0, 2}
  LedgerTime = 2
  DefaultTimeout = 3
  MaxNow = 6
SPECIFICATION Spec
INVARIANTS
  TypeOK
  FullyAuthorized
  SignaturesOutliveTransaction
  SafeSequenceKept
CHECK_DEADLOCK FALSE
