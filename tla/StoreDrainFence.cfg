SPECIFICATION FairSpec
CONSTANTS
  Blocks = {0, 1}
  MMIO = {}
  ExtMMIO = {}
  LineOf <- OneLine
  NumWords = 1
  Bytes = {0}
  Vals = {1}
  OpByte = OpByte
  NoByte = NoByte
  NoStore = NoStore
  NoFused = NoFused
  NoStOp = NoStOp
  NoAck = NoAck
  NumEvicted = 2
  NumNonces = 5
  Stores <- SlotStores
  NumPorts = 1
  Fences = {TRUE}
VIEW MCView
INVARIANTS
  OneEntryPerBlock
  IdleMeansDone
PROPERTIES
  FenceEnds

