----------------------------- MODULE LocalState -----------------------------
(***************************************************************************)
(* MemoryModel::SetLocalState for one core: the constraints that link the  *)
(* private states which the trace steps of a core read to the steps that   *)
(* define them, for a core linked in order and for one linked out of order.*)
(* As in McmReplay, an initial state is a solution, and the steps replay   *)
(* it in the order of the time stamps against a plain register file.       *)
(*                                                                         *)
(* For every step i and private state s there is a solver variable, s      *)
(* suffixed with the position of i; `val[i, s]' is its value in the        *)
(* solution, `fin[s]' that of the variable with the suffix "final".  The   *)
(* value an update computes is named by the step.                          *)
(***************************************************************************)
EXTENDS Integers

CONSTANTS
    CoreInst,    \* the trace steps of the core
    InstPos,     \* their positions, from 1 on
    Regs,        \* the private states of the core
    RegRead,     \* the private states a step reads (_inst_read_set)
    RegWrite,    \* the private states a step updates (_inst_write_set)
    InitVal,     \* the value constrained by the initial conditions (suffix 0)
    MayNotDecode,\* the steps whose decode no property enforces, if the core is
                 \* linked in order (TRUE) and if it is not (FALSE)
    MaxStamp     \* bound on the time stamps of a solution

ASSUME LocalAssumption ==
    /\ InitVal \notin CoreInst
    /\ InstPos \in [CoreInst -> Nat \ {0}]
    /\ \A i, j \in CoreInst : InstPos[i] = InstPos[j] => i = j
    /\ RegRead \in [CoreInst -> SUBSET Regs] /\ RegWrite \in [CoreInst -> SUBSET Regs]
    /\ MayNotDecode \in [BOOLEAN -> SUBSET CoreInst]
    /\ MaxStamp \in Nat

\* The positions have no gap (RegisterSteps numbers the steps of a core one after
\* the other, from 1 on), and the decode of a step that updates a private state
\* without reading it is enforced: the solver variable that stands for the old
\* value is tied to nothing unless the step reads it.
ASSUME OrderedAssumption ==
    /\ \A i \in CoreInst : InstPos[i] > 1 => \E j \in CoreInst : InstPos[i] = InstPos[j] + 1
    /\ \A i \in MayNotDecode[TRUE] : RegWrite[i] \subseteq RegRead[i]

VARIABLES
    ordered,           \* the flag given to LinkStates for this core
    stamp, decoded, val, fin, \* the solution
    regs,              \* the register file of the replay
    replayed,          \* the steps replayed
    wrong              \* reads whose value differs from the register file

assignment == <<ordered, stamp, decoded, val, fin>>
localVars == <<ordered, stamp, decoded, val, fin, regs, replayed, wrong>>

Values == CoreInst \cup {InitVal}
\* The solver variables that occur in a constraint.
Cells == {c \in CoreInst \X Regs : c[2] \in RegRead[c[1]] \cup RegWrite[c[1]]}

-----------------------------------------------------------------------------
(* In order.  last_update_of_a_state holds ITE(decode, update, state), the  *)
(* state being the solver variable at the position of the updating step.    *)

\* The value of s after the steps of S, in the order of their positions.
LastValue(s, S) ==
    LET W == {w \in S : s \in RegWrite[w]}
    IN  IF W = {} THEN InitVal
        ELSE LET w == CHOOSE w \in W : \A v \in W : InstPos[v] <= InstPos[w]
             IN  IF decoded[w] THEN w ELSE val[<<w, s>>]

LinkOrdered ==
    /\ \A i, j \in CoreInst : InstPos[j] = InstPos[i] + 1 => stamp[i] < stamp[j]
    /\ \A i \in CoreInst : \A s \in RegRead[i] :
          val[<<i, s>>] = LastValue(s, {j \in CoreInst : InstPos[j] < InstPos[i]})
    /\ \A s \in Regs : fin[s] = LastValue(s, CoreInst)

-----------------------------------------------------------------------------
(* Out of order.  all_update_of_a_state lists the definitions of a state;   *)
(* the first one is the initial value, at time 0.                           *)

Definitions(s) == {w \in CoreInst : s \in RegWrite[w]} \cup {InitVal}

\* The decode of a definition is not looked at.
Decodes_Faulty(w) == TRUE

Decodes(w) == IF w = InitVal THEN TRUE ELSE decoded[w]
StampOf(w) == IF w = InitVal THEN 0 ELSE stamp[w]

LinkUnordered ==
    /\ \A i \in CoreInst : \A s \in RegRead[i] :
          \E w \in Definitions(s) \ {i} :
             /\ val[<<i, s>>] = w /\ Decodes(w) /\ StampOf(w) < stamp[i]
             /\ \A v \in Definitions(s) \ {w, i} :
                   Decodes(v) => StampOf(v) < StampOf(w) \/ StampOf(v) > stamp[i]
    /\ \A s \in Regs :
          \E w \in Definitions(s) :
             /\ fin[s] = w /\ Decodes(w)
             /\ \A v \in Definitions(s) \ {w} : Decodes(v) => StampOf(v) < StampOf(w)

SetLocalState == IF ordered THEN LinkOrdered ELSE LinkUnordered

-----------------------------------------------------------------------------
(* Any solution, and its replay.                                            *)

\* The constructor of TraceStep: timestamp > 0.
Stamps == [CoreInst -> 1 .. MaxStamp]

\* No core is looked at.
LocalIdle ==
    /\ ordered = TRUE
    /\ stamp = [i \in CoreInst |-> 1]
    /\ decoded = [i \in CoreInst |-> TRUE]
    /\ val = [c \in Cells |-> InitVal]
    /\ fin = [s \in Regs |-> InitVal]
    /\ regs = [s \in Regs |-> InitVal]
    /\ replayed = {}
    /\ wrong = {}

LocalInit ==
    /\ ordered \in BOOLEAN
    /\ stamp \in Stamps
    /\ decoded \in {d \in [CoreInst -> BOOLEAN] :
                     \A i \in CoreInst \ MayNotDecode[ordered] : d[i]}
    /\ val \in [Cells -> Values]
    /\ fin \in [Regs -> Values]
    /\ SetLocalState
    /\ regs = [s \in Regs |-> InitVal]
    /\ replayed = {}
    /\ wrong = {}

Replay(i) ==
    /\ i \in CoreInst \ replayed
    /\ \A j \in CoreInst \ replayed : stamp[i] <= stamp[j]
    /\ wrong' = wrong \cup {c \in Cells : /\ c[1] = i /\ c[2] \in RegRead[i]
                                          /\ val[c] # regs[c[2]]}
    /\ regs' = [s \in Regs |-> IF decoded[i] /\ s \in RegWrite[i] THEN i ELSE regs[s]]
    /\ replayed' = replayed \cup {i}
    /\ UNCHANGED assignment

\* The final property sees the private states after every step.
ReplayEnd ==
    /\ replayed = CoreInst
    /\ wrong' = wrong \cup {s \in Regs : fin[s] # regs[s]}
    /\ UNCHANGED <<assignment, regs, replayed>>

LocalNext == (\E i \in CoreInst : Replay(i)) \/ ReplayEnd

LocalSpec == LocalInit /\ [][LocalNext]_localVars

-----------------------------------------------------------------------------
\* The value a step reads from a private state is the one the latest
\* definition left there ("for each use of unshared variable, find the latest
\* definition"), and so is the value the final property sees: a step that does
\* not decode leaves no trace, and the order is that of the time stamps.
ReadsLatestDefinition == wrong = {}
=============================================================================
