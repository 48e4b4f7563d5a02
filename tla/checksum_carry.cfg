CONSTANTS
  ByteBase = 3
  Headers <- MCHeaders
  Lengths = {2, 3, 4, 5}
SPECIFICATION Spec
INVARIANT AnswersAccepted
CHECK_DEADLOCK FALSE
