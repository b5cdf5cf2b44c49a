----------------------------- MODULE TsoMachine -----------------------------
(***************************************************************************)
(* The reference for the TSO axioms: a machine with one FIFO store buffer  *)
(* per core that runs the program template and records, in the variables   *)
(* of an execution of MemoryModel, the time stamps, the decode outcome and *)
(* the source of every read.  What tso_manual.cc promises is that its      *)
(* constraints admit each of these executions.                             *)
(*                                                                         *)
(* A step of the machine takes the next value of `clock'.  An instruction  *)
(* that does not decode still takes its place in the order (the code gives *)
(* its steps time stamps all the same) but writes nothing.                 *)
(***************************************************************************)
EXTENDS MemoryModel

VARIABLES
    clock,   \* the last time stamp used
    ts, g, dec, rf,
    mem,     \* the write whose data the shared memory holds, per state
    done,    \* the instruction steps executed
    flushed, \* the stores that have reached the shared memory
    fin      \* the final step has been taken

vars == <<clock, ts, g, dec, rf, mem, done, flushed, fin>>

Stores == PureWrite_list \cup RMW_list

TypeOK ==
    /\ clock \in Nat
    /\ ts \in [Steps -> Nat]
    /\ g \in [Stores -> Nat]
    /\ dec \in [Steps -> BOOLEAN]
    /\ rf \in [Reads -> WRITE_list]
    /\ mem \in [Shared -> WRITE_list]
    /\ done \in SUBSET Inst
    /\ flushed \in SUBSET (Stores \cap done)
    /\ fin \in BOOLEAN

Init ==
    /\ clock = 0
    /\ ts = [x \in Steps |-> 0]
    /\ g = [w \in Stores |-> 0]
    /\ dec = [x \in Steps |-> x = InitStep]
    /\ rf = [p \in Reads |-> InitStep]
    /\ mem = [s \in Shared |-> InitStep]
    /\ done = {}
    /\ flushed = {}
    /\ fin = FALSE

\* The stores of core c that wait in its buffer, and those of them that would
\* answer a read of s.
Pending(c) == {w \in (PureWrite_list \cap done) \ flushed : CoreOf[w] = c}
Forwardable(c, s) == {w \in Pending(c) : dec[w] /\ s \in InstWrite[w]}

\* A read of s by core c takes the youngest matching store of its own buffer
\* and, if there is none, what the memory holds.
Visible(c, s, w) ==
    IF Forwardable(c, s) = {} THEN w = mem[s]
    ELSE /\ w \in Forwardable(c, s)
         /\ \A v \in Forwardable(c, s) : ts[v] <= ts[w]

WriteBack(w, d) == [s \in Shared |-> IF d /\ s \in InstWrite[w] THEN w ELSE mem[s]]

Ready(i) ==
    /\ i \in Inst \ done
    /\ CoreOf[i] \in Ordered =>
         \A j \in Inst : SameCore(i, j) /\ Pos[j] < Pos[i] => j \in done
    /\ i \in FENCE_list \cup RMW_list => Pending(CoreOf[i]) = {}

\* Core CoreOf[i] executes step i, which decodes or not (d).
Execute(i, d) ==
    /\ Ready(i)
    /\ \E src \in [InstRead[i] -> WRITE_list] :
         /\ \A s \in InstRead[i] : Visible(CoreOf[i], s, src[s])
         /\ rf' = [p \in Reads |-> IF p[1] = i THEN src[p[2]] ELSE rf[p]]
    /\ clock' = clock + 1
    /\ ts' = [ts EXCEPT ![i] = clock + 1]
    /\ dec' = [dec EXCEPT ![i] = d]
    /\ done' = done \cup {i}
    /\ IF i \in RMW_list
         THEN /\ g' = [g EXCEPT ![i] = clock + 1]
              /\ flushed' = flushed \cup {i}
              /\ mem' = WriteBack(i, d)
         ELSE UNCHANGED <<g, flushed, mem>>
    /\ UNCHANGED fin

\* The oldest store of a buffer reaches the memory: its facet event.
Flush(w) ==
    /\ w \in Pending(CoreOf[w])
    /\ \A v \in Pending(CoreOf[w]) : ts[w] <= ts[v]
    /\ clock' = clock + 1
    /\ g' = [g EXCEPT ![w] = clock + 1]
    /\ flushed' = flushed \cup {w}
    /\ mem' = WriteBack(w, dec[w])
    /\ UNCHANGED <<ts, dec, rf, done, fin>>

\* The final property is evaluated once every instruction step is done; the
\* code does not order it after the facet events.
Final ==
    /\ ~fin /\ done = Inst
    /\ clock' = clock + 1
    /\ ts' = [ts EXCEPT ![FinalStep] = clock + 1]
    /\ rf' = [p \in Reads |-> IF p[1] = FinalStep THEN mem[p[2]] ELSE rf[p]]
    /\ fin' = TRUE
    /\ UNCHANGED <<g, dec, mem, done, flushed>>

Complete == fin /\ flushed = Stores

Terminated == Complete /\ UNCHANGED vars

Next ==
    \/ \E i \in Inst, d \in BOOLEAN : Execute(i, d)
    \/ \E w \in PureWrite_list : Flush(w)
    \/ Final
    \/ Terminated

Spec == Init /\ [][Next]_vars

-----------------------------------------------------------------------------
\* Every complete run of the store-buffer machine is a solution of the
\* constraints tso_manual.cc generates: RF_CO_FR with store forwarding, the
\* facet order, the store order, fences and read-modify-writes.  A constraint
\* that is too strong would make ILAng report an outcome impossible that the
\* hardware shows.
TsoSound == Complete => TsoAxioms(ts, g, dec, rf)

\* Coherence of one location, at every moment of a run: when a core has read
\* s twice, the second read never takes its data from a write that the
\* relation CO of tso_manual.cc puts before the source of the first.
CoherentReads ==
    \A p, q \in Reads :
       /\ p[1] \in done /\ q[1] \in done
       /\ p[2] = q[2] /\ SameCore(p[1], q[1]) /\ ts[p[1]] < ts[q[1]]
       /\ {rf[p], rf[q]} \subseteq flushed \cup {InitStep}
       => ~ TsoCO(ts, g, rf[q], rf[p])
=============================================================================
