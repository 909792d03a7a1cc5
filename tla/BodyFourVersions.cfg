SPECIFICATION Spec
CONSTANTS
  Undefined = 9
  root = root
  n1 = n1
  n2 = n2
  m1 = m1
  RootType = "A"
  Builds <- FourBuilds
  Pairs <- FourPairs
  Graphs <- NoPointers
  Calls <- FourCalls
  Spared <- NoneSpared
INVARIANT AcceptedIsRead
