CONSTANTS
  ByteBase = 4
  MAGIC_NUMBER <- MCMagic
  Packets <- MCPackets
  MaxFrames = 3
  BufSize = 6
  MaxLost = 2
  FifoDepth <- MCFifoDepth
  OutPackets <- MCOutPackets
  MaxOut = 0
  Chunk = 8
SPECIFICATION MCSpec
INVARIANT BufferIsLargeEnough
CHECK_DEADLOCK FALSE
