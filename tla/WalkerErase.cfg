SPECIFICATION Spec
CONSTANTS
  Raw = Raw
  Moved = Moved
  Blank = Blank
  NullArray = NullArray
  x1 = x1
  x2 = x2
  Values = {x1, x2}
  Arrays <- MCArrays
  MaxSize = 3
  MaxBlock = 4
  SizeMax = 15
  KindsUsed <- OnlyMovable
  Spared <- AllButLongerTail
INVARIANTS MovesDoNotOverlap
