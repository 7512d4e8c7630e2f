CONSTANTS
  Bytes = {0, 12288}
  Programs <- MCPrograms
  PortRegisters = {8}
  PaintModes = {13, 16}
  Pages = {48}
  TextModes = {0, 3, 7}
  Chars <- MCChars
  Places <- MCPlaces
  Stored = {79}
  Written = {0, 1, 78, 79, 80, 81, 160, 1999, 2000, 20400}
  MaxTyped = 2
  BiosModes = {0, 1, 2, 3, 4, 5, 6, 7, 8, 13, 16, 19}
  VesaModes = {256}
  ColorModes = {0, 4, 14, 26, 30, 40, 46, 41}
  MonoModes <- MCMonoModes
  Starts = {0, 255}
SPECIFICATION Spec
CHECK_DEADLOCK FALSE
INVARIANTS MemoryOK TextIsShown
PROPERTIES EgaContractSpec
