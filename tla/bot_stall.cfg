\* A drive that stalls one data phase and behaves ever after.
SPECIFICATION BotSpec
CONSTANTS
  FaultKinds <- MCDataStall
  MaxFaults = 1
  MaxTrials = 1
  TagMod = 8
  Recovers = FALSE
PROPERTY CommandsSucceedAgain
