CONSTANTS
  Watchers = {w1}
  MaxLog = 2
  StoreMayFail = FALSE
SPECIFICATION FairSpec
INVARIANTS
  NothingLost
CHECK_DEADLOCK FALSE
