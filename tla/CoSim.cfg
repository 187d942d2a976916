SPECIFICATION CoSpec
CONSTANTS
  ROBSize = 4
  NumRegs = 2
  NumTags = 4
  Width = 2
  DUOps <- CoUOps
  Outcome <- CoOutcome
  MaxWB = 1
  NumBranchPorts = 2
  AllowTimeout = FALSE
  Programs <- MCPrograms
  NumXRegs = 2
  NumVals = 2
  MinstretMod = 4
  BootRegs = {1}
  Backups <- MCBackups
VIEW CoView
INVARIANTS
  CoTypeOK
  NoCosimError
  ShadowFollowsCore
PROPERTIES
  ImplementsInOrder
