CONSTANTS
  Irqs = {0, 1}
  ByteBase = 4
  PowerOnReload = 21
  TickInstructions = 12
  Vectors <- MCVectors
  GuestVectors = {33}
  TimerBytes = {1, 2}
  CountPeriod = 2
  TickWrap = 2
  MaxFrames = 5
  Wasm = TRUE
SPECIFICATION Spec
INVARIANTS TypeOK PollIsExact CounterInRange StubsUninterrupted TicksCountTimerIrqs
PROPERTIES TerminationIsFinal ContractSpec
