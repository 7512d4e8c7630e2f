CONSTANTS
  Irqs = {1}
  Keys = {"KeyA", "BracketRight"}
  Make <- BrowserTable
  Sessions <- MCSessions
  MaxEvents = 4
SPECIFICATION Spec
CHECK_DEADLOCK FALSE
PROPERTIES PressIsReported
