CONSTANTS
  Nibble = 8
  HostPackets <- MCHostPackets
  Foreign <- MCForeign
  Page <- MCPage
  BufSize = 64
  Cuts <- MCCuts
  MaxDamaged = 2
  MaxFrames = 6
SPECIFICATION Spec
INVARIANT TakesOnlyWhatWasMeant TakesEveryPlainPacket AnswersAsAHostWould
PROPERTY ImplementsWebServer
CHECK_DEADLOCK FALSE
