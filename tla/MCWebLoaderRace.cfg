CONSTANTS
  Versions = {1, 4}
  Calls = {1, 2, 3}
  Settings <- HastyUser
SPECIFICATION Spec
INVARIANTS SelectedRuns
