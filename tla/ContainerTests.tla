--------------------------- MODULE ContainerTests ---------------------------
(***************************************************************************)
(* The unit tests of the containers and of the memory primitives below     *)
(* them, carried out on the model: a test is chosen, for one of the kinds  *)
(* of elements it is instantiated for, and its steps are taken in order.   *)
(* Test 0 is a call of a memory primitive for one layout of a block.       *)
(***************************************************************************)
EXTENDS WalkerTests, AllocationTests

(* The tests that are carried out.                                         *)
CONSTANT Suite

VARIABLES test, layout, kind, pc, objects, seen

vars == <<test, layout, kind, pc, objects, seen>>

Chosen == IF test = 0 THEN LayoutTest(layout) ELSE Suite[test]
Steps == Chosen.steps

KindsOf(t) == IF t.class = "Memory" THEN {t.memory.kind} ELSE t.kinds
Initially(t, k) ==
  IF t.class = "Memory" THEN [memory |-> t.memory]
  ELSE [name \in DOMAIN t.managers |-> Fresh(t.class, k, t.managers[name])]

Init ==
  /\ \/ test \in DOMAIN Suite /\ layout = NoLayout
     \/ test = 0 /\ layout \in Layouts
  /\ kind \in KindsOf(Chosen)
  /\ pc = 0
  /\ objects = Initially(Chosen, kind)
  /\ seen = <<>>

InContainer(step) ==
  /\ Chosen.class # "Memory"
  /\ \E performed \in {Performed(objects, step.on, step.call)} :
       /\ objects' = performed.objects
       /\ seen' = Seen(performed.objects[step.on], performed)

InMemory(step) ==
  /\ Chosen.class = "Memory"
  /\ \E after \in {MemoryAfter(objects.memory, step.call)} :
       /\ objects' = [memory |-> after]
       /\ seen' = SeenOfMemory(after)

Step ==
  /\ pc < Len(Steps)
  /\ pc' = pc + 1
  /\ InContainer(Steps[pc + 1]) \/ InMemory(Steps[pc + 1])
  /\ UNCHANGED <<test, layout, kind>>

Next == Step

Spec == Init /\ [][Next]_vars

(* Every EXPECT of the tests holds of the model, so the model answers what *)
(* the code does wherever its authors say what that is; and the loops over *)
(* the elements leave what ElementMemory says they leave.                  *)
AssertionsHold == pc > 0 => Holds(Steps[pc].expected, seen)

(* The tests misuse memory in one place only, which none of them notices:  *)
(* insert among elements that a move copies builds over them.              *)
MisusedByInsertOnly ==
  Chosen.class # "Memory" =>
    \A name \in DOMAIN objects :
      objects[name].vector.faults # {} =>
        /\ kind = "copied"
        /\ objects[name].vector.faults = {"built over"}
        /\ \E i \in 1 .. pc : Steps[i].call.op = "insert"
=============================================================================
