------------------------------ MODULE AddrData ------------------------------
(***************************************************************************)
(* The address and data formulas of the memory models, MemoryModel::       *)
(* SameAddress and SameData, for one shared state under the axiom RF_CO_FR *)
(* of Sc.  The state is a memory or a bit-vector.  McmReplay takes a       *)
(* location for granted; here a step has the address and the data of its   *)
(* store and those of each of its loads.                                   *)
(*                                                                         *)
(* The steps are in the order of their time stamps.  Under Sc a later      *)
(* write satisfies FR, so a solution for a longer trace extends one for    *)
(* its prefix, and an action appends a step with any values that the       *)
(* axiom allows.  `cells' is what an ordinary memory holds by then.        *)
(***************************************************************************)
EXTENDS Integers, Sequences

CONSTANTS
    Addrs,     \* the addresses
    Data,      \* the values
    MaxTrace   \* bound on the steps, the initial one included

ASSUME AddrAssumption == Addrs # {} /\ Data # {} /\ MaxTrace \in Nat

VARIABLES
    isMem,     \* the sort of the shared state
    trace,     \* the steps
    cells,     \* the contents of the shared state
    stray      \* <<step, address>> of the loads that do not return them

addrVars == <<isMem, trace, cells, stray>>

\* The contents of the state before every step.
Zero == [a \in Addrs |-> CHOOSE d \in Data : TRUE]

\* A bit-vector is a state with a single cell.
MemCells == IF isMem THEN Addrs ELSE {CHOOSE a \in Addrs : TRUE}

\* The pair that CheckAndPeel takes from an update STORE(s, addr, data) without
\* a memory operation inside; any other update of a memory stops the program.
StorePairs == {{}} \cup {{<<a, d>>} : a \in MemCells, d \in Data}
\* The pairs of FindAddrDataPairVecInInst: LOAD(s, addr) is a selection from
\* the variable of the step, so that equal addresses give equal data.
Loads == UNION {[S -> Data] : S \in SUBSET MemCells}
Pairs(f) == {<<a, f[a]>> : a \in DOMAIN f}

InstSteps == [init : {FALSE}, store : StorePairs, loads : {Pairs(f) : f \in Loads}]

\* Each shared state is updated to itself: a STORE only for a bit-vector.
InitialStep ==
    [init |-> TRUE, loads |-> {},
     store |-> IF isMem THEN {} ELSE {<<c, Zero[c]>> : c \in MemCells}]

\* AxiomFuncHint: a step is looked at as a read or as a write.
Hinted(step, hint) ==
    CASE hint = "READ"  -> [step EXCEPT !.store = {}]
      [] hint = "WRITE" -> [step EXCEPT !.loads = {}]

SomeSameAddr(P, Q) == \E p \in P, q \in Q : p[1] = q[1]
DataAgree(P, Q) == \A p \in P, q \in Q : p[1] = q[1] => p[2] = q[2]

\* The match of the addresses starts from true, not from false.
MemVarSameAddress_Faulty(l, r) == TRUE

\* A store is matched with the loads of the other step; without such a pair,
\* store with store; loads with loads add nothing (`true || ...').
MemVarSameAddress(l, r) ==
    LET LR == l.store # {} /\ r.loads # {}
        RL == r.store # {} /\ l.loads # {}
    IN  /\ LR => SomeSameAddr(l.store, r.loads)
        /\ RL => SomeSameAddr(r.store, l.loads)
        /\ ~LR /\ ~RL /\ l.store # {} /\ r.store # {} => SomeSameAddr(l.store, r.store)

\* Data are matched in the same pairs, where the addresses are equal.
PairsAgree(l, r) ==
    LET LR == l.store # {} /\ r.loads # {}
        RL == r.store # {} /\ l.loads # {}
    IN  /\ LR => DataAgree(l.store, r.loads)
        /\ RL => DataAgree(r.store, l.loads)
        /\ ~LR /\ ~RL => IF l.store # {} /\ r.store # {}
                         THEN DataAgree(l.store, r.store)
                         ELSE DataAgree(l.loads, r.loads)

\* The initial step has no store; the other step is compared with the memory
\* variable with the suffix 0.
MemVarSameData(l, r) ==
    LET FromInitial(s) == \A p \in s.store \cup s.loads : Zero[p[1]] = p[2]
    IN  CASE l.init /\ r.init -> TRUE
          [] l.init /\ ~r.init -> FromInitial(r)
          [] r.init /\ ~l.init -> FromInitial(l)
          [] OTHER -> PairsAgree(l, r)

\* Of a bit-vector the updates and the variables of the steps are compared.
NonMemVarSameData(l, r) == PairsAgree(l, r)

SameAddress(l, r, lhint, rhint) ==
    IF ~isMem \/ l.init \/ r.init THEN TRUE
    ELSE MemVarSameAddress(Hinted(l, lhint), Hinted(r, rhint))
SameData(l, r, lhint, rhint) ==
    IF isMem THEN MemVarSameData(Hinted(l, lhint), Hinted(r, rhint))
    ELSE NonMemVarSameData(Hinted(l, lhint), Hinted(r, rhint))

\* The candidate w of a read r at the end of the trace t: only earlier writes
\* are RF, and another one at an address of r must be CO before w.
ReadFrom(t, w, r) ==
    LET Write == {k \in DOMAIN t : t[k].init \/ t[k].store # {}}
    IN  /\ w \in Write
        /\ SameAddress(t[w], r, "WRITE", "READ")
        /\ SameData(t[w], r, "WRITE", "READ")
        /\ \A w2 \in Write \ {w} : SameAddress(r, t[w2], "READ", "WRITE") => w2 < w

AddrInit ==
    /\ isMem \in BOOLEAN
    /\ trace = <<InitialStep>>
    /\ cells = Zero
    /\ stray = {}

\* No trace is looked at.
AddrIdle == isMem = TRUE /\ trace = <<InitialStep>> /\ cells = Zero /\ stray = {}

AppendStep(step) ==
    /\ Len(trace) < MaxTrace
    /\ step.store # {} \/ step.loads # {}
    /\ step.loads # {} => \E w \in DOMAIN trace : ReadFrom(trace, w, step)
    /\ trace' = Append(trace, step)
    /\ cells' = [a \in Addrs |-> IF \E p \in step.store : p[1] = a
                                 THEN (CHOOSE p \in step.store : TRUE)[2] ELSE cells[a]]
    /\ stray' = stray \cup {<<Len(trace) + 1, p[1]>> : p \in {q \in step.loads : cells[q[1]] # q[2]}}
    /\ UNCHANGED isMem

\* The bound is reached.
AddrEnd == Len(trace) = MaxTrace /\ UNCHANGED addrVars

AddrNext == (\E step \in InstSteps : AppendStep(step)) \/ AddrEnd

AddrSpec == AddrInit /\ [][AddrNext]_addrVars

-----------------------------------------------------------------------------
\* A load returns what the latest store to its address left there (SameAddress
\* and SameData "should handle memory things"), except in a step that loads
\* from several addresses: there the axiom asks for one write for the whole
\* memory, and only the loads from the address stored to last are tied to it.
LoadsLatestStore ==
    \A s \in stray :
        LET loads == trace[s[1]].loads
            Before(a) == {k \in 1 .. s[1] - 1 : \E p \in trace[k].store : p[1] = a}
        IN  \E p \in loads : \E k \in Before(p[1]) : \A j \in Before(s[2]) : j < k
=============================================================================
