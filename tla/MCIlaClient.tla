---------------------------- MODULE MCIlaClient ----------------------------
(***************************************************************************)
(* Two names of each sort; which is which makes no difference.             *)
(***************************************************************************)
EXTENDS IlaClient

CONSTANTS x, y, i1, i2, m1, m2
Names == Permutations({x, y}) \cup Permutations({i1, i2}) \cup Permutations({m1, m2})
=============================================================================
