CONSTANTS
  Watchers = {w1}
  MaxLog = 4
  StoreMayFail = TRUE
SPECIFICATION FairSpec
INVARIANTS
  TypeOK
  StreamIsPrefix
  LinesAreWhole
  DoneIsTrue
  

  
CHECK_DEADLOCK FALSE
