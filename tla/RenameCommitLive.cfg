SPECIFICATION ClockSpec
CONSTANTS
  ROBSize = 3
  NumRegs = 2
  NumTags = 3
  Width = 1
  DUOps <- LiveUOps
  Outcome <- LiveOutcome
  MaxWB = 1
  NumBranchPorts = 2
  AllowTimeout = FALSE
PROPERTIES
  RecoveryCompletes
