CONSTANTS
  VGA_WIDTH = 2
  VGA_HEIGHT = 3
  Chars <- MCChars
  Blank = " "
  Newline = "NL"
  MaxDirectives = 4
  Calls <- MCCalls
  INT_MAX = 7
  COLUMNS = 3
  LINES = 4
  WordSize = 4096
  Infos <- MCInfos
SPECIFICATION MachineSpec
INVARIANT TerminalTypeOK ShowsTheLastLines PrintsWhatTheFormatSays ReportWhole NumbersReadBack ShowsTheLastRound
PROPERTY PrintingEnds
CHECK_DEADLOCK FALSE
