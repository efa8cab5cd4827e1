CONSTANTS
  MaxSessions = 1
  MaxQueue = 2
  Sizes = {big, small}
  FirstSize = big
SPECIFICATION TerminalSpec
PROPERTIES
  ShellDiesWithTheTab
CHECK_DEADLOCK FALSE
