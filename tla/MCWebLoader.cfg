CONSTANTS
  Versions = {1, 4}
  Calls = {1, 2, 3, 4}
  Settings <- AllSettings
SPECIFICATION FairSpec
CHECK_DEADLOCK FALSE
INVARIANTS TypeOK LoopsAreOvertaken PatientUserIsServed NeverDead
PROPERTIES EventuallyRuns
