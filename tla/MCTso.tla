------------------------------- MODULE MCTso -------------------------------
(* TsoMachine on the program templates of MCLitmus. *)
EXTENDS TsoMachine, MCLitmus
=============================================================================
