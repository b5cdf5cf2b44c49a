----------------------------- MODULE MCUnroller -----------------------------
(***************************************************************************)
(* Three states; `inc' moves on from the first two of them, `rst' goes     *)
(* back from the second, `nop' has no decode function.                     *)
(***************************************************************************)
EXTENDS Unroller, TLC

CONSTANTS s0, s1, s2, inc, rst, nop

MCDecode == inc :> {s0, s1} @@ rst :> {s1} @@ nop :> {}
MCUpdate == inc :> (s0 :> s1 @@ s1 :> s2 @@ s2 :> s2)
            @@ rst :> (s0 :> s0 @@ s1 :> s0 @@ s2 :> s0)
            @@ nop :> (s0 :> s0 @@ s1 :> s1 @@ s2 :> s2)
MCPreds == {{s0, s1}, {s1, s2}}
MCSeqs == {<<inc>>, <<inc, rst>>}
MCTops == {{inc, rst}, {inc, nop}}
=============================================================================
