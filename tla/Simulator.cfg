SPECIFICATION FairSimSpec
CONSTANTS
  Bits = 2
  HangInterval = 8
  BackupInterval = 16
  TimeMod = 32
  WFI_DELAY = 2
  RESET_DELAY = 1
  RunOn = 2
  FuzzTimeout = 5
  FuzzRuns = 2
  Memories <- MCMemories
  MaxMinstret = 2
  MaxKills = 1
CHECK_DEADLOCK FALSE
INVARIANTS
  SimTypeOK
  HangIsReal
  InStep
  BackupAtLowClock
  RunsLoadedCase
PROPERTIES
  StuckIsFound
