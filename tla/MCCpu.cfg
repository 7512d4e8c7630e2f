SPECIFICATION Spec
CONSTANTS
  Jobs <- MCJobs
  Requests = {8, 9}
INVARIANTS TypeOK InterruptsInvisible LongArithmetic DecimalSum StringsMatchLoops CallsReturn
CHECK_DEADLOCK FALSE
