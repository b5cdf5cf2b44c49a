---------------------------- MODULE MemoryModel ----------------------------
(***************************************************************************)
(* The memory-consistency axioms of src/src/mcm: the trace steps that      *)
(* Sc::RegisterSteps and Tso::RegisterSteps create, the instruction sets   *)
(* they sort the steps into, and the constraints that ApplyAxioms and      *)
(* SetFinalProperty hand to the SMT solver.                                *)
(*                                                                         *)
(* A solution of the constraints is an execution: `ts' gives the time      *)
(* stamp of every trace step, `g' the time stamp of the facet event        *)
(* wfe.global of a store, `dec' tells which steps decode, and `rf' names,  *)
(* for a step that reads a shared state, the write whose data it got.      *)
(*                                                                         *)
(* Data is symbolic: the value a write produces is named by the write, so  *)
(* SameData(w, r, s) is rf[r, s] = w.  A member of Shared is a shared      *)
(* bit-vector or Boolean state, or one address of a shared memory, so that *)
(* SameAddress is equality of members.                                     *)
(***************************************************************************)
EXTENDS Integers

CONSTANTS
    Cores,       \* the ILAs of the system (sys_ila_)
    GlobalIla,   \* host of the initial and of the final step
    Inst,        \* the instruction steps of the program template
    InitStep,    \* the step __INIT__ of CreateGlobalInitStep
    FinalStep,   \* the step __FINAL_STEP__ of CreateGlobalFinalStep
    CoreOf,      \* the host ILA of an instruction step
    Pos,         \* its position in its template, from 1 on
    Ordered,     \* the cores for which LinkStates is given `true'
    Shared,      \* m_shared_state_names
    InstRead,    \* the shared states an instruction step reads
    InstWrite,   \* the shared states an instruction step writes
    FinalRead,   \* the shared states the final property reads
    FENCE_list,  \* steps of an instruction named fence, Fence or FENCE
    RMW_list     \* steps of an instruction named atomic_add or atomic_and

(***************************************************************************)
(* What a program template is.  A read-modify-write step writes a shared   *)
(* state: for one that does not, the code has no facet event to            *)
(* synchronise with.                                                       *)
(***************************************************************************)
ASSUME TemplateAssumption ==
    /\ GlobalIla \notin Cores
    /\ InitStep \notin Inst /\ FinalStep \notin Inst /\ InitStep # FinalStep
    /\ CoreOf \in [Inst -> Cores]
    /\ Pos \in [Inst -> Nat \ {0}]
    /\ \A i, j \in Inst : CoreOf[i] = CoreOf[j] /\ Pos[i] = Pos[j] => i = j
    /\ Ordered \subseteq Cores
    /\ InstRead \in [Inst -> SUBSET Shared]
    /\ InstWrite \in [Inst -> SUBSET Shared]
    /\ FinalRead \subseteq Shared
    /\ FENCE_list \subseteq Inst
    /\ RMW_list \subseteq {i \in Inst : InstWrite[i] # {}}

Steps == Inst \cup {InitStep, FinalStep}

Host(x) == IF x \in Inst THEN CoreOf[x] ELSE GlobalIla
SameCore(x, y) == Host(x) = Host(y)

\* TraceStep::Access on the shared states: the dummy instruction __INIT__
\* updates every shared state, and only the final property reads on FinalStep.
ReadSet(x) == IF x \in Inst THEN InstRead[x]
              ELSE IF x = FinalStep THEN FinalRead ELSE {}
WriteSet(x) == IF x \in Inst THEN InstWrite[x]
               ELSE IF x = InitStep THEN Shared ELSE {}

\* Definitions named ..._Faulty, here and in the other modules, are no part of
\* the model: each is a plausible slip in the code, and a mutation run puts it in
\* the place of the definition it is named after.

\* The initial step is not registered as a write.
WRITE_list_Faulty == {i \in Inst : InstWrite[i] # {}}
\* The read-modify-writes are not taken out.
PureWrite_list_Faulty == WRITE_list_Faulty

READ_list == {x \in Inst \cup {FinalStep} : ReadSet(x) # {}}
WRITE_list == {x \in Inst \cup {InitStep} : WriteSet(x) # {}}
\* FinishRegisterSteps takes the difference before it adds the initial step.
PureWrite_list == {i \in Inst : InstWrite[i] # {}} \ RMW_list

\* The pairs (reading step, state) that axiom RF_CO_FR ranges over, and the
\* writes that a read of s on step r may take its data from.
Reads == {p \in READ_list \X Shared : p[2] \in ReadSet(p[1])}
Writers(r, s) == {w \in WRITE_list : w # r /\ s \in WriteSet(w)}

-----------------------------------------------------------------------------
(* Constraints both models share: the time stamps the constructors of       *)
(* TraceStep fix, and the ordering that SetLocalState imposes on the steps  *)
(* of a core that is linked in order.                                       *)

TimeStamps(ts, dec) ==
    /\ \A i \in Inst : ts[i] > 0
    /\ ts[InitStep] = 0 /\ dec[InitStep]

ProgramOrder(ts) ==
    \A i, j \in Inst : /\ SameCore(i, j) /\ CoreOf[i] \in Ordered
                       /\ Pos[j] = Pos[i] + 1
                       => ts[i] < ts[j]

\* SetFinalProperty orders the final step after the instruction steps and the
\* initial step (_all_inst_trace_steps), and after nothing else.
FinalOrder(ts) == \A x \in Inst \cup {InitStep} : ts[x] < ts[FinalStep]

-----------------------------------------------------------------------------
(* Sequential consistency: Sc::ApplyAxioms.                                 *)

ScRF(ts, w, r) == ts[w] < ts[r]
ScFR(ts, r, w) == ts[r] < ts[w]
ScCO(ts, w1, w2) == ts[w1] < ts[w2]

\* Writes that do not decode count as well.
ScRfCoFr_Faulty(ts, dec, rf) ==
    \A p \in Reads :
      /\ ScRF(ts, rf[p], p[1])
      /\ \A w2 \in Writers(p[1], p[2]) \ {rf[p]} :
            ScCO(ts, w2, rf[p]) \/ ScFR(ts, p[1], w2)

\* The read p may take its data from w.
ScReadsFrom(ts, dec, p, w) ==
    /\ dec[w]
    /\ ScRF(ts, w, p[1])
    /\ \A w2 \in Writers(p[1], p[2]) \ {w} :
          dec[w2] => ScCO(ts, w2, w) \/ ScFR(ts, p[1], w2)

ScRfCoFr(ts, dec, rf) ==
    \A p \in Reads :
      \E w \in Writers(p[1], p[2]) : rf[p] = w /\ ScReadsFrom(ts, dec, p, w)

ScAxioms(ts, dec, rf) ==
    /\ TimeStamps(ts, dec)
    /\ ProgramOrder(ts)
    /\ FinalOrder(ts)
    /\ ScRfCoFr(ts, dec, rf)

-----------------------------------------------------------------------------
(* Total store order: Tso::ApplyAxioms.  WfeGlobal(ts, g, w) is the time of *)
(* the facet event at which the store w reaches the other cores.            *)

WfeGlobal(ts, g, w) == IF w = InitStep THEN ts[w] ELSE g[w]

\* No store forwarding.
TsoRF_Faulty(ts, g, w, r) == WfeGlobal(ts, g, w) < ts[r]

TsoRF(ts, g, w, r) ==
    IF SameCore(w, r) THEN ts[w] < ts[r] ELSE WfeGlobal(ts, g, w) < ts[r]
TsoFR(ts, g, r, w) ==
    IF SameCore(r, w) THEN ts[r] < ts[w] ELSE ts[r] < WfeGlobal(ts, g, w)

\* The facet events in the wrong order.
TsoCO_Faulty(ts, g, w1, w2) == WfeGlobal(ts, g, w2) < WfeGlobal(ts, g, w1)

TsoCO(ts, g, w1, w2) ==
    IF SameCore(w1, w2) THEN ts[w1] < ts[w2]
    ELSE WfeGlobal(ts, g, w1) < WfeGlobal(ts, g, w2)

TsoReadsFrom(ts, g, dec, p, w) ==
    /\ dec[w]
    /\ TsoRF(ts, g, w, p[1])
    /\ \A w2 \in Writers(p[1], p[2]) \ {w} :
          dec[w2] => TsoCO(ts, g, w2, w) \/ TsoFR(ts, g, p[1], w2)

TsoRfCoFr(ts, g, dec, rf) ==
    \A p \in Reads :
      \E w \in Writers(p[1], p[2]) : rf[p] = w /\ TsoReadsFrom(ts, g, dec, p, w)

TSO_WriteFacetOrder(ts, g) == \A w \in PureWrite_list : ts[w] < g[w]

TSO_Store(ts, g) ==
    \A w1, w2 \in WRITE_list :
       w1 # w2 /\ SameCore(w1, w2) /\ ts[w1] < ts[w2]
          => WfeGlobal(ts, g, w1) < WfeGlobal(ts, g, w2)

\* Fences do not wait for the buffer.
TSO_Fence_Faulty(ts, g) == TRUE

TSO_Fence(ts, g) ==
    \A f \in FENCE_list, w \in WRITE_list :
       SameCore(w, f) /\ ts[w] < ts[f] => WfeGlobal(ts, g, w) < ts[f]

TSO_RMW(ts, g) == \A i \in RMW_list : ts[i] = g[i]

TsoAxioms(ts, g, dec, rf) ==
    /\ TimeStamps(ts, dec)
    /\ \A w \in PureWrite_list \cup RMW_list : g[w] > 0
    /\ ProgramOrder(ts)
    /\ FinalOrder(ts)
    /\ TsoRfCoFr(ts, g, dec, rf)
    /\ TSO_WriteFacetOrder(ts, g)
    /\ TSO_Store(ts, g)
    /\ TSO_Fence(ts, g)
    /\ TSO_RMW(ts, g)
=============================================================================
