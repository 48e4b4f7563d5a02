CONSTANTS
  ByteBase = 4
  MAGIC_NUMBER <- MCMagic
  Packets <- MCPackets
  MaxFrames = 3
  BufSize = 6
  MaxLost = 2
  FifoDepth <- MCFifoDepth
  OutPackets <- MCOutPackets
  MaxOut = 4
  Chunk = 8
SPECIFICATION MCSpec
INVARIANT OverrunsOnlyAfterLoss Resynchronises ModelIsTheChip NothingLost
PROPERTY ReliableChannel ForwardsInOrder LoneFrameForwarded
CHECK_DEADLOCK FALSE
