SPECIFICATION Spec
CONSTANTS
  Files <- MCFiles
  Byte <- Bytes
  MaxSize = 10
  Skips <- MCSkips
  Rows = 2
  Long = 14
  Short = 2
  MaxScans = 4
  Trailing = {3, 8, 9, 14}
INVARIANTS TypeOK GivesFile WholeFilesShown
PROPERTIES ShownWhole UsesSource LoadEnds
