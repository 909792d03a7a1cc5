SPECIFICATION Spec
CONSTANTS
  Undefined = 9
  root = root
  n1 = n1
  n2 = n2
  m1 = m1
  RootType = "A"
  Builds <- MCBuilds
  Pairs <- AllPairs
  Graphs <- MCGraphs
  Calls <- MCCalls
  Spared <- ElementsSpared
INVARIANTS TypeOK BodyInv AcceptedIsRead ReceivedAsSent SharedStaysShared PointersAreLive
