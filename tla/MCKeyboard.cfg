CONSTANTS
  Irqs = {1}
  Keys = {"ShiftLeft", "KeyA", "KeyF", "ContextMenu"}
  Make <- NativeTable
  Sessions <- MCSessions
  MaxEvents = 6
SPECIFICATION Spec
CHECK_DEADLOCK FALSE
INVARIANTS TypeOK NewestEventReachesHandler NoPressReadTwice ReportIsAPress ReadGetsLastPress
