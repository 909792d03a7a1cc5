SPECIFICATION Spec
CONSTANTS
  Raw = "raw"
  Moved = "moved"
  Blank = "blank"
  NullArray = "nullptr"
  Values <- AllStrings
  Suite <- AllTests
  MaxBlock = 128
  SizeMax = 1000
CHECK_DEADLOCK FALSE
INVARIANTS AssertionsHold MisusedByInsertOnly
