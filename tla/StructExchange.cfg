\* The full cycles of serialize and deserialize of the tests' structs, on all the platforms.
CONSTANTS
    Undefined = 9
    InterfaceVersion = 3
    Struct <- TestStruct
    Memory <- MCMemory
    InitFrom <- TestInit
    Cycles <- MCCycles
    Alignments <- MCAlignments
SPECIFICATION Spec
INVARIANT ReceivedAsSent
INVARIANT ReadToItsEnd
INVARIANT RefusedForAReason
INVARIANT PrefixRefused
\* An exchange ends.
CHECK_DEADLOCK FALSE
