----------------------------- MODULE MCCommDiag -----------------------------
(***************************************************************************)
(* B is an atomic specification whose apply function steps around a ring   *)
(* and which is always complete.  A ranges over implementations of it:     *)
(* any flush and apply functions, with any completion condition or with    *)
(* one that flushing keeps.                                                *)
(***************************************************************************)
EXTENDS CommDiag, TLC

CONSTANTS s0, s1, s2

Candidates(S) ==
    {[flush |-> f, appl |-> a, cmpl |-> c, step_orig |-> -1, step_appl |-> -1] :
       f \in [S -> S], a \in [S -> S], c \in SUBSET S \ {{}}}
\* A complete state is left as it is by flushing, as where completion means
\* that no instruction can fire.
Stable(r) == \A s \in r.cmpl : r.flush[s] = s

MCSpec3 == {[flush |-> s0 :> s0 @@ s1 :> s1 @@ s2 :> s2,
             appl |-> s0 :> s1 @@ s1 :> s2 @@ s2 :> s0,
             cmpl |-> {s0, s1, s2}, step_orig |-> 0, step_appl |-> 0]}
MCSpec2 == {[flush |-> s0 :> s0 @@ s1 :> s1, appl |-> s0 :> s1 @@ s1 :> s0,
             cmpl |-> {s0, s1}, step_orig |-> 0, step_appl |-> 0]}

MCStable3 == {r \in Candidates({s0, s1, s2}) : Stable(r)}
MCAll2 == Candidates({s0, s1})
MCStable2 == {r \in Candidates({s0, s1}) : Stable(r)}

MCMethods == "EqCheck" :> 0 @@ "IncEqCheck" :> 0 @@ "IncCheck" :> 1
MCEqCheck == "EqCheck" :> 0
MCIncEqCheck == "IncEqCheck" :> 0

MCEqual == {<<s0, s0>>, <<s1, s1>>, <<s2, s2>>}
MCEqual2 == {<<s0, s0>>, <<s1, s1>>}
=============================================================================
