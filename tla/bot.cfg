SPECIFICATION BotSpec
CONSTANTS
  FaultKinds <- AllFaults
  MaxFaults = 3
  MaxTrials = 1
  TagMod = 8
  Recovers = TRUE
INVARIANTS BotTypeOK StatusFaultsLeaveSync
PROPERTIES OkIsOwn RecoveryRestores StatusFaultsPass
