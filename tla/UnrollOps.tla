----------------------------- MODULE UnrollOps ------------------------------
(***************************************************************************)
(* What the unrollers of src/src/ila-mngr/u_unroller.cc and of             *)
(* u_unroller_smt.cc generate: for given predicates, transition relation,  *)
(* length and starting frame, a set of constraints over named copies of    *)
(* the state of an ILA.                                                    *)
(*                                                                         *)
(* The vector vars_ of state variables is one variable that ranges over    *)
(* State.  A predicate is the set of states in which it holds.  A          *)
(* constraint says that the values of two copies are related.              *)
(***************************************************************************)
EXTENDS Integers

CONSTANTS
    State,     \* the values of the state variables of an ILA
    Instr,     \* instructions
    Decode,    \* the decode condition of an instruction
    Update,    \* its state update, completed by StateUpdCmpl
    NoDecode   \* instructions whose decode function is not set

ASSUME InstrAssumption ==
    /\ Decode \in [Instr -> SUBSET State]
    /\ Update \in [Instr -> [State -> State]]
    /\ NoDecode \subseteq Instr

\* Copies of the state: current state of a frame, its ".nxt" symbol, and the
\* expression that k_prev_z3_ holds after i steps of substitution.
SuffCurr(t) == <<"curr", t>>
SuffNext(t) == <<"nxt", t>>
Subst(i) == <<"subst", i>>

Related(R, a, b) == [from |-> a, to |-> b, rel |-> R]
Asserted(p, a) == Related({<<s, s>> : s \in p}, a, a)
Equal == {<<s, s>> : s \in State}

-----------------------------------------------------------------------------
(* Transition: the predicate k_pred_ and the update k_next_ of a step.      *)

DecodeCmpl(i) == IF i \in NoDecode THEN State ELSE Decode[i]

\* PathUnroll: the decode of the instruction is a step predicate.
PathTransition(i) ==
    [k_pred |-> Decode[i], k_next |-> {<<s, Update[i][s]>> : s \in State}]

\* No step when nothing decodes.
MonoTransition_Faulty(top) ==
    [k_pred |-> State,
     k_next |-> {st \in State \X State :
        \E i \in top : st[1] \in DecodeCmpl(i) /\ st[2] = Update[i][st[1]]}]

\* MonoUnroll for the instructions `top': the one-hot selection bits `sel', of
\* which dead.sel is one, are free variables of the frame.  Only the bits of
\* the instructions are mutually exclusive.
MonoTransition(top) ==
    [k_pred |-> State,
     k_next |-> {st \in State \X State :
        \E sel \in SUBSET top, dead \in BOOLEAN :
           /\ \A i \in sel : st[1] \in DecodeCmpl(i) /\ st[2] = Update[i][st[1]]
           /\ dead => st[1] = st[2] /\ \A i \in top : st[1] \notin DecodeCmpl(i)
           /\ dead \/ sel # {}
           /\ \A i, j \in sel : i = j}]

-----------------------------------------------------------------------------
(* Predicates are P = [g |-> g_pred_, i |-> i_pred_, s |-> s_pred_]; prog   *)
(* gives the result of Transition(k) for k in 0 .. len - 1.                 *)

StepPreds(P, prog, k, a) ==
    {Asserted(p, a) : p \in (IF k = 0 THEN P.i ELSE {}) \cup P.g
                             \cup P.s[k] \cup {prog[k].k_pred}}

\* The end state: the code names the frame `len', wherever the unrolling began.
EndPreds(P, len) == {Asserted(p, SuffCurr(len)) : p \in P.g \cup P.s[len]}

UnrollAssn(P, prog, len, pos) ==
    EndPreds(P, len) \cup
    UNION {StepPreds(P, prog, k, SuffCurr(pos + k))
           \cup {Related(prog[k].k_next, SuffCurr(pos + k), SuffCurr(pos + k + 1))}
             : k \in 0 .. len - 1}

\* The last expression is not tied to the last frame.
UnrollSubs_Faulty(P, prog, len, pos) ==
    LET prev(k) == IF k = 0 THEN SuffCurr(pos) ELSE Subst(k)
    IN  EndPreds(P, len) \cup
        UNION {StepPreds(P, prog, k, prev(k))
               \cup {Related(prog[k].k_next, prev(k), prev(k + 1))} : k \in 0 .. len - 1}

UnrollSubs(P, prog, len, pos) ==
    LET prev(k) == IF k = 0 THEN SuffCurr(pos) ELSE Subst(k)
    IN  EndPreds(P, len) \cup {Related(Equal, prev(len), SuffCurr(len))} \cup
        UNION {StepPreds(P, prog, k, prev(k))
               \cup {Related(prog[k].k_next, prev(k), prev(k + 1))} : k \in 0 .. len - 1}

UnrollNone(P, prog, len, pos) ==
    UNION {StepPreds(P, prog, k, SuffCurr(pos + k))
           \cup {Related(prog[k].k_next, SuffCurr(pos + k), SuffNext(pos + k))}
             : k \in 0 .. len - 1}

\* UnrollerSmt::Unroll_ asserts the same in another order.
Unroll_(P, prog, len, begin) == UnrollAssn(P, prog, len, begin)

-----------------------------------------------------------------------------
(* Solutions: the values of the copies `names' that satisfy C.              *)

Solutions(C, names) ==
    {e \in [names \cup {c.from : c \in C} \cup {c.to : c \in C} -> State] :
       \A c \in C : <<e[c.from], e[c.to]>> \in c.rel}
=============================================================================
