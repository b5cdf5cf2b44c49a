----------------------------- MODULE ScMachine ------------------------------
(***************************************************************************)
(* The reference for the SC axioms: a machine that executes one            *)
(* instruction at a time against a single shared memory and records the    *)
(* execution in the variables of MemoryModel.                              *)
(***************************************************************************)
EXTENDS MemoryModel

VARIABLES
    clock,   \* the last time stamp used
    ts, dec, rf,
    mem,     \* the write whose data the shared memory holds, per state
    done,    \* the instruction steps executed
    fin      \* the final step has been taken

vars == <<clock, ts, dec, rf, mem, done, fin>>

TypeOK ==
    /\ clock \in Nat
    /\ ts \in [Steps -> Nat]
    /\ dec \in [Steps -> BOOLEAN]
    /\ rf \in [Reads -> WRITE_list]
    /\ mem \in [Shared -> WRITE_list]
    /\ done \in SUBSET Inst
    /\ fin \in BOOLEAN

Init ==
    /\ clock = 0
    /\ ts = [x \in Steps |-> 0]
    /\ dec = [x \in Steps |-> x = InitStep]
    /\ rf = [p \in Reads |-> InitStep]
    /\ mem = [s \in Shared |-> InitStep]
    /\ done = {}
    /\ fin = FALSE

Ready(i) ==
    /\ i \in Inst \ done
    /\ CoreOf[i] \in Ordered =>
         \A j \in Inst : SameCore(i, j) /\ Pos[j] < Pos[i] => j \in done

\* Step i reads the memory and, if it decodes (d), writes it.
Execute(i, d) ==
    /\ Ready(i)
    /\ clock' = clock + 1
    /\ ts' = [ts EXCEPT ![i] = clock + 1]
    /\ dec' = [dec EXCEPT ![i] = d]
    /\ done' = done \cup {i}
    /\ rf' = [p \in Reads |-> IF p[1] = i THEN mem[p[2]] ELSE rf[p]]
    /\ mem' = [s \in Shared |-> IF d /\ s \in InstWrite[i] THEN i ELSE mem[s]]
    /\ UNCHANGED fin

Final ==
    /\ ~fin /\ done = Inst
    /\ clock' = clock + 1
    /\ ts' = [ts EXCEPT ![FinalStep] = clock + 1]
    /\ rf' = [p \in Reads |-> IF p[1] = FinalStep THEN mem[p[2]] ELSE rf[p]]
    /\ fin' = TRUE
    /\ UNCHANGED <<dec, mem, done>>

Terminated == fin /\ UNCHANGED vars

Next ==
    \/ \E i \in Inst, d \in BOOLEAN : Execute(i, d)
    \/ Final
    \/ Terminated

Spec == Init /\ [][Next]_vars

-----------------------------------------------------------------------------
\* Every complete run of the machine is a solution of the constraints that
\* sc_manual.cc generates.
ScSound == fin => ScAxioms(ts, dec, rf)

\* The schedule of an SC execution, with a facet event right behind every
\* store, is a solution of the constraints of tso_manual.cc: whatever the SC
\* model of ILAng allows, its TSO model allows.
ScWithinTso ==
    fin => TsoAxioms([x \in Steps |-> 2 * ts[x]],
                     [w \in PureWrite_list \cup RMW_list |->
                        IF w \in RMW_list THEN 2 * ts[w] ELSE 2 * ts[w] + 1],
                     dec, rf)
=============================================================================
