-------------------------- MODULE MCContainerTests --------------------------
EXTENDS ContainerTests

AllStrings ==
  Range(Numbers) \cup Range(Data) \cup Range(Abc) \cup Range(Hash) \cup Range(Plus3) \cup Range(Double)
AllTests == VectorSuite \o WalkerSuite \o AllocationSuite
=============================================================================
