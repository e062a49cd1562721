CONSTANTS
  Calls = {c1, c2}
  Assets = {usd}
  Asset = usd
  ClassicCalls = {k1}
  rich = rich
  poor = poor
  Holders = {rich, poor}
  Payers = {rich}
  Issuer = issuer
  issuerAccount = TRUE
  NoOne = NoOne
  Opening <- MCOpening
  Opened = {rich}
  Amounts = {1}
  Stroops = {45}
  Functions <- MCFunctions
  Decimals = 2
  Significand = 8192
  Scale = 8192
SYMMETRY CallSymmetry
SPECIFICATION MCSpec
INVARIANTS
  AssetTypeOK
  RegisteredOnLedger
  DeployedRunsUploaded
  StoredIsRegistered
  BalancesAccountForCalls
  TokenIsTheAsset
  BalancesReadBack
CHECK_DEADLOCK FALSE
