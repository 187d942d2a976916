SPECIFICATION WiresSpec
CONSTANTS
  ROB_SIZE_EXP = 6
  RF_SIZE_EXP = 6
  FSIZE_E = 4
  CACHE_SIZE_E = 14
  CLSIZE_E = 6
  AXI_WIDTH = 128
  AXI_NUM_TRANS = 4
  NUM_PORTS_TOTAL = 7
  RETURN_SIZE_EXP = 5
  TAGE_BASE = 4
  TAGE_STAGES = 6
  Types <- ReadTypes
  Values <- MCValues
INVARIANTS
  SeenIsDriven
  NeverThrows
