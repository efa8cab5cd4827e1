CONSTANTS
  Clients = {c1, c2, c3}
  MaxJobs = 3
  MaxCrashes = 2
  StoreMayFail = TRUE
SPECIFICATION FairSpec
INVARIANTS
  TypeOK
  OneJobAtATime
  SlotNeverLeaks
  RunningRowOwned
  StatusMatchesExit
PROPERTIES
  OutcomeIsFinal
  ImplementsJobSlot
  EveryJobIsRecorded
CHECK_DEADLOCK FALSE
