------------------------------ MODULE MCLitmus ------------------------------
(***************************************************************************)
(* Program templates for the model checker.  Core A is linked out of       *)
(* order, so that its store, fence and load come in every order; core B,   *)
(* linked in order, has a store that its read-modify-write must wait for.  *)
(***************************************************************************)
EXTENDS FiniteSets, Integers, TLC

CONSTANTS A, B, a1, a2, a3, b1, b2, b3, x, y

\* A: x := 1 ; fence ; read x and y    B: y := 1 ; atomic_add x
MixInst == {a1, a2, a3, b1, b2}
MixCoreOf == a1 :> A @@ a2 :> A @@ a3 :> A @@ b1 :> B @@ b2 :> B
MixPos == a1 :> 1 @@ a2 :> 2 @@ a3 :> 3 @@ b1 :> 1 @@ b2 :> 2
MixRead == a1 :> {} @@ a2 :> {} @@ a3 :> {x, y} @@ b1 :> {} @@ b2 :> {x}
MixWrite == a1 :> {x} @@ a2 :> {} @@ a3 :> {} @@ b1 :> {y} @@ b2 :> {x}
MixFence == {a2}
MixRmw == {b2}

\* The same, and B reads x again.
Mix3Inst == MixInst \cup {b3}
Mix3CoreOf == MixCoreOf @@ b3 :> B
Mix3Pos == MixPos @@ b3 :> 3
Mix3Read == MixRead @@ b3 :> {x}
Mix3Write == MixWrite @@ b3 :> {}
=============================================================================
