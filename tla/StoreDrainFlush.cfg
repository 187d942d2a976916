SPECIFICATION Spec
CONSTANTS
  Blocks = {0}
  MMIO = {}
  ExtMMIO = {}
  LineOf <- OneLine
  NumWords = 1
  Bytes = {0}
  Vals = {0, 1}
  OpByte = OpByte
  NoByte = NoByte
  NoStore = NoStore
  NoFused = NoFused
  NoStOp = NoStOp
  NoAck = NoAck
  NumEvicted = 2
  NumNonces = 5
  Stores <- CboStores
  NumPorts = 2
  Fences = {}
VIEW MCView
INVARIANTS
  FlushReachesMemory
