SPECIFICATION Spec
CONSTANTS
  ROBSize = 4
  NumRegs = 2
  NumTags = 4
  Width = 2
  DUOps <- WideUOps
  Outcome <- WideOutcome
  MaxWB = 1
  NumBranchPorts = 2
  AllowTimeout = TRUE
VIEW MCView
INVARIANTS
  TypeOK
  CommittedProduced
  TagPartition
  CommittedFreeList
  SpecMapRecovered
  SourceTagLive
  WakeupSound
  WakeupComplete
  Window
  MispredictResolved
