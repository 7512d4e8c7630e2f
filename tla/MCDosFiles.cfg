CONSTANTS
  Names = {"a", "b", "c"}
  Bytes = {0, 1}
  Mounted <- MCMounted
  MaxFiles = 3
  Patterns = {{"a", "c"}, {"b"}, {"a"}}
  Areas = {d1, d2}
  Emm = "emmxxxx0"
  LastHandle = 6
  ReadSizes = {2}
  Chunks <- MCChunks
  SeekWords = {0, 1, 15}
  OffsetWord = 16
  MaxSize = 2
  FreshNames = TRUE
  FreeHandle = TRUE
SPECIFICATION SearchSpec
CHECK_DEADLOCK FALSE
INVARIANTS TypesOK OffsetInRange ListsEachMatchOnce
PROPERTIES ContractSpec EndsAfterTheLast
