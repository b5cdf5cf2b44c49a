------------------------------ MODULE InterIla ------------------------------
(***************************************************************************)
(* InterIlaUnroller and the bookkeeping of MemoryModel behind it: the list *)
(* of solver constraints cstr_, the stack of Push and Pop, and the read    *)
(* sets of the trace steps, which properties extend and which LinkStates   *)
(* later turns into links.                                                 *)
(*                                                                         *)
(* A constraint is kept as the pairs (step, state) of solver variables it  *)
(* mentions.  "stamp" and "init" constraints mention none; a "prop"        *)
(* constraint uses variables; a "link" constraint, what LinkStates adds,   *)
(* ties variables to the writes they get their values from.  A solver      *)
(* variable is named after the state, its host and the position, so a      *)
(* facet event shares its variables with the instruction step.             *)
(***************************************************************************)
EXTENDS Integers, Sequences

CONSTANTS
    Inst,      \* the instruction steps of the program template
    FinalStep, \* the name __FINAL_STEP__
    Shared,    \* shared_states_
    Private,   \* the names of the private states of the ILAs
    StateRead, \* states an instruction reads (VarUseFinder)
    StateWrite,\* states an instruction updates
    Props,     \* read sets of the properties a client may add for trace steps
    FinalProps,\* read sets of the final properties it may set
    Filters,   \* the sets of steps a client's filters may select
    MaxCstr,   \* bound on the number of constraint groups
    MaxPush    \* bound on the depth of Push

ASSUME InterAssumption ==
    /\ FinalStep \notin Inst
    /\ Shared \cap Private = {}
    /\ StateRead \in [Inst -> SUBSET (Shared \cup Private)]
    /\ StateWrite \in [Inst -> SUBSET (Shared \cup Private)]
    /\ Props \cup FinalProps \subseteq SUBSET (Shared \cup Private)
    /\ Filters \subseteq SUBSET (Inst \X {"inst", "facet"})
    /\ MaxCstr \in Nat /\ MaxPush \in Nat

VARIABLES
    cstr,     \* cstr_: a sequence of constraint groups
    stk,      \* zexpr_vec_pos_stack_
    unrolled, \* Unroll has registered the steps
    readSet,  \* _inst_read_set of the instruction steps
    READ_list,\* the instruction steps that read a shared state
    finalRead,\* shared states read by final steps inserted into READ_list
    model     \* model_ptr_: a model is available

vars == <<cstr, stk, unrolled, readSet, READ_list, finalRead, model>>

Steps == Inst \cup {FinalStep}
States == Shared \cup Private
Pairs == Steps \X States
Group(k, p) == [kind |-> k, pairs |-> p]
Groups == [kind : {"init", "stamp", "prop", "link"}, pairs : SUBSET Pairs]

\* Tso::RegisterSteps creates a facet event for a step that writes shared state.
Facets == {i \in Inst : StateWrite[i] \cap Shared # {}}

TypeOK ==
    /\ cstr \in Seq(Groups)
    /\ stk \in Seq(Nat)
    /\ unrolled \in BOOLEAN
    /\ readSet \in [Inst -> SUBSET States]
    /\ READ_list \in SUBSET Inst
    /\ finalRead \in SUBSET Shared
    /\ model \in BOOLEAN

Init ==
    /\ cstr = <<>>
    /\ stk = <<>>
    /\ unrolled = FALSE
    /\ readSet = [i \in Inst |-> StateRead[i]]
    /\ READ_list = {}
    /\ finalRead = {}
    /\ model = FALSE

\* The init conditions of all ILAs; "should be called before unroll".
GenSysInitConstraints ==
    /\ ~unrolled /\ cstr = <<>>
    /\ Len(cstr) < MaxCstr
    /\ cstr' = Append(cstr, Group("init", {}))
    /\ UNCHANGED <<stk, unrolled, readSet, READ_list, finalRead, model>>

\* InitSize, RegisterSteps for every core, FinishRegisterSteps.
Unroll ==
    /\ ~unrolled
    /\ Len(cstr) < MaxCstr
    /\ unrolled' = TRUE
    /\ cstr' = Append(cstr, Group("stamp", {}))
    /\ READ_list' = {i \in Inst : readSet[i] \cap Shared # {}}
    /\ UNCHANGED <<stk, readSet, finalRead, model>>

\* The read sets of the selected steps are not extended.
AddSingleTraceStepProperty_Faulty(P, F) ==
    /\ unrolled
    /\ Len(cstr) < MaxCstr
    /\ cstr' = Append(cstr, Group("prop", {f[1] : f \in F} \X P))
    /\ UNCHANGED <<stk, unrolled, readSet, READ_list, finalRead, model>>

\* The property is asserted on every selected step, over the variables at the
\* position of the step, and the read set of each selected step is extended:
\* that of a facet event is its own, and nothing reads it later.  The set
\* READ_list stays as it is.
AddSingleTraceStepProperty(P, F) ==
    LET sel == {f \in F : f[2] = "inst" \/ f[1] \in Facets}
    IN  /\ unrolled
        /\ Len(cstr) < MaxCstr
        /\ cstr' = Append(cstr, Group("prop", {f[1] : f \in sel} \X P))
        /\ readSet' = [i \in Inst |->
              IF <<i, "inst">> \in sel THEN readSet[i] \cup P ELSE readSet[i]]
        /\ UNCHANGED <<stk, unrolled, READ_list, finalRead, model>>

\* The final step is registered with its private reads too.
SetFinalProperty_Faulty(P) ==
    /\ unrolled
    /\ Len(cstr) < MaxCstr
    /\ cstr' = Append(cstr, Group("prop", {FinalStep} \X P))
    /\ finalRead' = finalRead \cup P
    /\ UNCHANGED <<stk, unrolled, readSet, READ_list, model>>

\* A new final step; it enters READ_list if it reads a shared state.
SetFinalProperty(P) ==
    /\ unrolled
    /\ Len(cstr) < MaxCstr
    /\ cstr' = Append(cstr, Group("prop", {FinalStep} \X P))
    /\ finalRead' = finalRead \cup (P \cap Shared)
    /\ UNCHANGED <<stk, unrolled, readSet, READ_list, model>>

\* ApplyAxioms links the shared reads of the steps in READ_list, SetLocalState
\* the private reads of the instruction steps and every private state at the end.
LinkStates ==
    /\ unrolled
    /\ Len(cstr) < MaxCstr
    /\ cstr' = Append(cstr, Group("link",
          {p \in Pairs :
             \/ p[1] \in READ_list /\ p[2] \in Shared \cap readSet[p[1]]
             \/ p[1] \in Inst /\ p[2] \in Private \cap readSet[p[1]]
             \/ p[1] = FinalStep /\ p[2] \in Private \cup finalRead}))
    /\ UNCHANGED <<stk, unrolled, readSet, READ_list, finalRead, model>>

Push ==
    /\ Len(stk) < MaxPush
    /\ stk' = Append(stk, Len(cstr))
    /\ UNCHANGED <<cstr, unrolled, readSet, READ_list, finalRead, model>>

\* The oldest position is taken, not the last one pushed.
Pop_Faulty ==
    /\ stk # <<>>
    /\ cstr' = SubSeq(cstr, 1, stk[1])
    /\ stk' = Tail(stk)
    /\ UNCHANGED <<unrolled, readSet, READ_list, finalRead, model>>

\* Only the constraint list shrinks; read sets and READ_list keep what the
\* dropped properties added.
Pop ==
    /\ stk # <<>>
    /\ cstr' = SubSeq(cstr, 1, stk[Len(stk)])
    /\ stk' = SubSeq(stk, 1, Len(stk) - 1)
    /\ UNCHANGED <<unrolled, readSet, READ_list, finalRead, model>>

\* Every client links the states after its last property and before it checks.
Linked == \E k \in 1 .. Len(cstr) :
             /\ cstr[k].kind = "link"
             /\ \A j \in k + 1 .. Len(cstr) : cstr[j].kind # "prop"

CheckSat(sat) ==
    /\ Linked
    /\ model' = sat
    /\ UNCHANGED <<cstr, stk, unrolled, readSet, READ_list, finalRead>>

Next ==
    \/ GenSysInitConstraints
    \/ Unroll
    \/ \E P \in Props, F \in Filters : AddSingleTraceStepProperty(P, F)
    \/ \E P \in FinalProps : SetFinalProperty(P)
    \/ LinkStates
    \/ Push
    \/ Pop
    \/ \E sat \in BOOLEAN : CheckSat(sat)

Spec == Init /\ [][Next]_vars

-----------------------------------------------------------------------------
Used == UNION {cstr[k].pairs : k \in {j \in 1 .. Len(cstr) : cstr[j].kind = "prop"}}
Tied == UNION {cstr[k].pairs : k \in {j \in 1 .. Len(cstr) : cstr[j].kind = "link"}}

\* Whatever sequence of Push, Pop, properties and links came before: when
\* CheckSat runs, every solver variable a property mentions is tied to the
\* writes that can define it.  An untied variable takes any value, and the
\* solver then reports a property violated that no execution violates.  This
\* is what "we need to make sure that it is added to the read lists" in
\* GetSingleTraceStepProperty is for.
NoDanglingRead == Linked => Used \subseteq Tied

\* The assertions of Pop: a saved position never exceeds the length of the
\* list it will be cut to, and positions grow along the stack.
StackFits ==
    \A k \in 1 .. Len(stk) :
       stk[k] <= Len(cstr) /\ \A j \in 1 .. k : stk[j] <= stk[k]
=============================================================================
