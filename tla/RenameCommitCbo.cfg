SPECIFICATION Spec
CONSTANTS
  ROBSize = 4
  NumRegs = 2
  NumTags = 3
  Width = 1
  DUOps <- CboUOps
  Outcome <- CboOutcome
  MaxWB = 1
  NumBranchPorts = 2
  AllowTimeout = FALSE
VIEW MCView
INVARIANTS
  LsqSqNAgree
