SPECIFICATION Spec
CONSTANTS
  ROBSize = 4
  NumRegs = 2
  NumTags = 2
  Width = 1
  DUOps <- MemUOps
  Outcome <- MemOutcome
  MaxWB = 1
  NumBranchPorts = 2
  AllowTimeout = FALSE
VIEW MCView
INVARIANTS
  LsqSqNAgree
  RedirectCovers
  TagPartition
  Window
  WakeupSound
  WakeupComplete
