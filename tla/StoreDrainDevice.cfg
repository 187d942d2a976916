SPECIFICATION MCSpec
CONSTANTS
  Blocks = {0, 2}
  MMIO = {2}
  ExtMMIO = {2}
  LineOf <- OneLine
  NumWords = 2
  Bytes = {0}
  Vals = {0, 1}
  OpByte = OpByte
  NoByte = NoByte
  NoStore = NoStore
  NoFused = NoFused
  NoStOp = NoStOp
  NoAck = NoAck
  NumEvicted = 2
  NumNonces = 5
  Stores <- DeviceStores
  NumPorts = 1
  Fences = {}
VIEW MCView
INVARIANTS
  DeviceStoresInOrder
  ExternalWrittenOnce
PROPERTIES
  ImplementsOrderedMemory
