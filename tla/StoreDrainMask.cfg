SPECIFICATION Spec
CONSTANTS
  Blocks = {0}
  MMIO = {}
  ExtMMIO = {}
  LineOf <- OneLine
  NumWords = 1
  Bytes = {0, 1}
  Vals = {0, 1}
  OpByte = OpByte
  NoByte = NoByte
  NoStore = NoStore
  NoFused = NoFused
  NoStOp = NoStOp
  NoAck = NoAck
  NumEvicted = 1
  NumNonces = 5
  Stores <- MaskStores
  NumPorts = 2
  Fences = {}
VIEW MCView
INVARIANTS
  TypeOK
  NonceNamesVersion
PROPERTIES
  ImplementsOrderedMemory
