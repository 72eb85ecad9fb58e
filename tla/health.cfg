CONSTANTS
  Never = Never
  SYNTHETIC_INTERVAL = 2
  OUTAGE_THRESHOLD = 3
  Retention = 4
  Hour = 4
  PruneEvery = 3
  MAX_DISPLAY = 2
  Falls <- SomeFall
  Windows = {2, 5}
  MaxClock = 5
  MaxCrashes = 2
  MaxRefusals = 1
SPECIFICATION Spec
CHECK_DEADLOCK FALSE
INVARIANTS
  TypeOK
  BreachIsTold
  OutageShows
PROPERTIES
  StartLeavesNoGap
  Resumes
