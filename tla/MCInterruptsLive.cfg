CONSTANTS
  Irqs = {0, 1}
  ByteBase = 2
  PowerOnReload = 3
  TickInstructions = 6
  Vectors <- MCHookedVectors
  GuestVectors = {33}
  TimerBytes = {1}
  CountPeriod = 2
  TickWrap = 1
  MaxFrames = 1
  Wasm = FALSE
SPECIFICATION FairSpec
PROPERTIES HaltEnds TimerIrqTaken
