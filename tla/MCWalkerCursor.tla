--------------------------- MODULE MCWalkerCursor ---------------------------
(***************************************************************************)
(* Instances of WalkerCursor for TLC: two elements, arrays of up to two,   *)
(* sequences of up to MaxSize and blocks of up to MaxBlock.                *)
(***************************************************************************)
EXTENDS WalkerCursor

CONSTANTS x1, x2

MCArrays == {NullArray, <<>>, <<x1>>, <<x2, x1>>}

AllKinds == Kinds
OnlyMovable == {"movable"}

AllSpared == {"relocation", "positioned copy", "longer tail", "among copied", "displaced range"}
AllButLongerTail == AllSpared \ {"longer tail"}
=============================================================================
