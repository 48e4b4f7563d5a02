CONSTANTS
  ByteBase = 4
  MAGIC_NUMBER <- MCMagic
  Packets <- MCPackets
  MaxFrames = 0
  BufSize = 6
  MaxLost = 2
  FifoDepth <- MCFifoDepth
  OutPackets <- MCOutPackets
  MaxOut = 2
  Chunk = 8
SPECIFICATION MCSpec
PROPERTY EveryPacketForwarded
CHECK_DEADLOCK FALSE
