CONSTANTS
  Windows = {0, 1}
  d1 = d1
  d2 = d2
  none = none
  Data <- MCData
  NoPage <- none
  PageCounts = {0, 1, 2}
  MaxHandle = 2
  Aliases = FALSE
SPECIFICATION Spec
INVARIANTS TypeOK
PROPERTIES ContractSpec
