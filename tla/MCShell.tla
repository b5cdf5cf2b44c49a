------------------------------ MODULE MCShell ------------------------------
(* Two calls in a row, of programs that end with 0 or with 1. *)
EXTENDS Shell
=============================================================================
