CONSTANTS
  alice = alice
  bob = bob
  ofAlice = ofAlice
  ofBob = ofBob
  ofSource = ofSource
  ofContract = ofContract
  Entries = {ofAlice, ofBob, ofSource, ofContract}
  Credential <- MCCredential
  SignerSets <- MCSignerSets
  Freighters = {}
  Sequences <- MCSequences
  MaxSafe = 8
  MaxTimes = {5}
  MaxLedgers = {0}
  LedgerTime = 2
  DefaultTimeout = 3
  MaxNow = 6
SPECIFICATION Spec
INVARIANTS
  SequenceKept
CHECK_DEADLOCK FALSE
