------------------------------- MODULE MCSc -------------------------------
(* ScMachine on the program templates of MCLitmus. *)
EXTENDS ScMachine, MCLitmus
=============================================================================
