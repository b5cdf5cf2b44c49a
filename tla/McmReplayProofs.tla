-------------------------- MODULE McmReplayProofs ---------------------------
(***************************************************************************)
(* Every solution of the constraints of src/src/mcm can be replayed, for   *)
(* every program template, both memory models and any time stamps.  With   *)
(* the theorems of ScMachineProofs and TsoMachineProofs, which prove the   *)
(* converse, the constraints describe exactly the executions of the        *)
(* machines.  The same for the two links below them: the private states of *)
(* a core (SetLocalState), and the addresses and data of a shared state    *)
(* (SameAddress and SameData).                                             *)
(***************************************************************************)
EXTENDS McmReplay, LocalState, AddrData, TLAPS

-----------------------------------------------------------------------------
(* Facts about the step sets.                                               *)

LEMMA StepFacts ==
    /\ InitStep \in Steps /\ FinalStep \in Steps
    /\ Inst \subseteq Steps
    /\ InitStep \notin Inst /\ FinalStep \notin Inst /\ InitStep # FinalStep
    /\ READ_list \subseteq Inst \cup {FinalStep}
    /\ WRITE_list \subseteq Inst \cup {InitStep}
    /\ \A i \in Inst : ReadSet(i) = InstRead[i] /\ WriteSet(i) = InstWrite[i]
    /\ WriteSet(InitStep) = Shared /\ ReadSet(FinalStep) = FinalRead
    /\ \A i \in Inst : InstWrite[i] \subseteq Shared
BY TemplateAssumption DEF Steps, READ_list, WRITE_list, ReadSet, WriteSet

LEMMA ReadsFacts ==
    \A p \in Reads : /\ p[1] \in Inst \cup {FinalStep}
                     /\ p[2] \in Shared
                     /\ p[2] \in ReadSet(p[1])
BY StepFacts DEF Reads

-----------------------------------------------------------------------------
\* The event at which a store reaches the memory, and the time of it.
Complete(w) == <<w, IF w \in Buffered THEN "global" ELSE "local">>
Done(w) == w = InitStep \/ Complete(w) \in happened
Visible(w) == IF w = InitStep THEN 0 ELSE Time(Complete(w))
WrittenTo(s) == {w \in Stores \cup {InitStep} : dec[w] /\ s \in WriteSet(w)}

\* The solution; no step of the replay changes it.
Solution ==
    /\ model \in {"SC", "TSO"}
    /\ ts \in [Steps -> Nat] /\ g \in [Stores -> Nat] /\ dec \in [Steps -> BOOLEAN]
    /\ Axioms

\* The replay goes in the order of Precedes.
InOrder ==
    /\ happened \subseteq Events
    /\ \A e \in happened, f \in Events \ happened : ~ Precedes(f, e)

\* The memory holds the latest of the stores that have reached it.
LatestInMemory ==
    \A s \in Shared :
        /\ mem[s] \in WrittenTo(s) /\ Done(mem[s])
        /\ \A w \in WrittenTo(s) : Done(w) => Visible(w) <= Visible(mem[s])

ReplayInv == Solution /\ InOrder /\ LatestInMemory /\ Replayable

-----------------------------------------------------------------------------
LEMMA StoreFacts ==
    /\ Stores \subseteq Inst /\ PureWrite_list \subseteq Stores /\ RMW_list \subseteq Stores
    /\ \A w \in Stores : w \in PureWrite_list <=> w \notin RMW_list
    /\ \A r, s : Writers(r, s) = {w \in Stores \cup {InitStep} : w # r /\ s \in WriteSet(w)}
    /\ \A w \in Stores : w \in WRITE_list
    /\ \A w \in Stores : WriteSet(w) = InstWrite[w] /\ w # InitStep /\ w # FinalStep
    /\ Stores \cup {InitStep} \subseteq Steps
<1>1. Stores = {i \in Inst : InstWrite[i] # {}}
  BY TemplateAssumption DEF Stores, PureWrite_list
<1>2. \A w \in Stores : WriteSet(w) = InstWrite[w] /\ w # InitStep /\ w # FinalStep
  BY <1>1, StepFacts
<1>3. \A w \in Stores : w \in WRITE_list
  BY <1>1, StepFacts DEF WRITE_list
<1>4. \A w \in WRITE_list : w \in Stores \cup {InitStep}
  BY <1>1, StepFacts DEF WRITE_list
<1>5. \A r, s : Writers(r, s) = {w \in Stores \cup {InitStep} : w # r /\ s \in WriteSet(w)}
  <2> SUFFICES ASSUME NEW r, NEW s, NEW w \in Stores \cup {InitStep}, s \in WriteSet(w)
               PROVE  w \in WRITE_list
    BY <1>4 DEF Writers
  <2> QED
    BY <1>3 DEF WRITE_list
<1> QED
  BY <1>2, <1>3, <1>5, StepFacts DEF Stores, PureWrite_list

\* The times of the events of a solution.
LEMMA TimeFacts ==
    ASSUME Solution
    PROVE  /\ \A e \in Events : Time(e) \in Nat
           /\ \A x \in Steps : ts[x] \in Nat
           /\ \A w \in Stores \cup {InitStep} : Visible(w) \in Nat /\ ts[w] <= Visible(w)
           /\ \A w \in Buffered : /\ w \in Stores /\ ts[w] < g[w]
                                  /\ Visible(w) = Time(<<w, "global">>)
                                  /\ Time(<<w, "global">>) = g[w]
           /\ \A w \in Stores \ Buffered : Visible(w) = ts[w]
           /\ \A x : Time(<<x, "local">>) = ts[x]
           /\ Visible(InitStep) = 0
           /\ \A x \in Inst \cup {FinalStep} : ts[x] > 0 /\ <<x, "local">> \in Events
           /\ \A w \in Buffered : <<w, "global">> \in Events
           /\ \A w \in Stores : Complete(w) \in Events /\ Visible(w) = Time(Complete(w))
           /\ model = "TSO" =>
                \A w \in Stores \cup {InitStep} : Visible(w) = WfeGlobal(ts, g, w)
<1> USE DEF Solution
<1>1. Buffered \subseteq Stores /\ Buffered \subseteq PureWrite_list
  BY StoreFacts DEF Buffered
<1>2. \A x \in Steps : ts[x] \in Nat
  OBVIOUS
<1>3. \A x : Time(<<x, "local">>) = ts[x] /\ Time(<<x, "global">>) = g[x]
  BY DEF Time
<1>4. \A e \in Events : Time(e) \in Nat
  BY <1>1, StepFacts DEF Events, Time
<1>5. /\ \A x \in Inst \cup {FinalStep} : <<x, "local">> \in Events
      /\ \A w \in Buffered : <<w, "global">> \in Events
  BY DEF Events
<1>6. /\ ts[InitStep] = 0 /\ \A i \in Inst : ts[i] > 0
      /\ ts[InitStep] < ts[FinalStep]
  BY DEF Axioms, ScAxioms, TsoAxioms, TimeStamps, FinalOrder
<1>7. \A w \in Buffered : ts[w] < g[w]
  BY DEF Axioms, TsoAxioms, TSO_WriteFacetOrder, Buffered
<1>8. \A w \in Buffered : Visible(w) = Time(<<w, "global">>)
  BY <1>1, StoreFacts DEF Visible, Complete
<1>9. \A w \in Stores \ Buffered : Visible(w) = ts[w]
  BY <1>3, StoreFacts DEF Visible, Complete
<1>10. Visible(InitStep) = 0
  BY DEF Visible
<1>11. \A w \in Stores : Complete(w) \in Events /\ Visible(w) = Time(Complete(w))
  BY <1>5, StoreFacts DEF Complete, Visible
<1>12. \A w \in Stores \cup {InitStep} : Visible(w) \in Nat /\ ts[w] <= Visible(w)
  <2> SUFFICES ASSUME NEW w \in Stores \cup {InitStep}
               PROVE  Visible(w) \in Nat /\ ts[w] <= Visible(w)
    OBVIOUS
  <2>1. w \in Steps /\ ts[w] \in Nat
    BY StoreFacts
  <2>2. CASE w = InitStep
    BY <1>6, <1>10, <2>2
  <2>3. CASE w \in Buffered
    <3>1. g[w] \in Nat /\ ts[w] < g[w] /\ Visible(w) = g[w]
      BY <1>1, <1>3, <1>7, <1>8, <2>3
    <3> QED
      BY <2>1, <3>1
  <2>4. CASE w \in Stores \ Buffered
    BY <1>9, <2>1, <2>4
  <2> QED
    BY <2>2, <2>3, <2>4
<1>13. ASSUME model = "TSO", NEW w \in Stores \cup {InitStep}
       PROVE  Visible(w) = WfeGlobal(ts, g, w)
  <2>1. CASE w = InitStep
    BY <1>6, <1>10, <2>1 DEF WfeGlobal
  <2>2. CASE w \in PureWrite_list
    BY <1>3, <1>8, <1>13, <2>2, StoreFacts DEF WfeGlobal, Buffered
  <2>3. CASE w \in RMW_list
    BY <1>9, <1>13, <2>3, StoreFacts DEF WfeGlobal, Buffered, Axioms, TsoAxioms, TSO_RMW
  <2> QED
    BY <2>1, <2>2, <2>3 DEF Stores
<1> QED
  BY <1>1, <1>3, <1>4, <1>5, <1>6, <1>7, <1>8, <1>9, <1>10, <1>11, <1>12, <1>13

\* What both axioms RF_CO_FR say of a read, in terms of the times at which the
\* stores reach the memory.
LEMMA ReadFacts ==
    ASSUME Solution, NEW p \in Reads
    PROVE  /\ rf[p] \in WrittenTo(p[2]) \ {p[1]}
           /\ \/ Visible(rf[p]) < ts[p[1]]
              \/ rf[p] \in Buffered /\ SameCore(rf[p], p[1]) /\ ts[rf[p]] < ts[p[1]]
           /\ \A w \in WrittenTo(p[2]) \ {rf[p], p[1]} :
                \/ /\ Visible(w) < Visible(rf[p])
                   /\ SameCore(w, rf[p]) => ts[w] < ts[rf[p]]
                \/ /\ ts[p[1]] < Visible(w)
                   /\ SameCore(p[1], w) => ts[p[1]] < ts[w]
<1> DEFINE r == p[1]
           s == p[2]
           w == rf[p]
<1>1. r \in Steps /\ ts[r] \in Nat
  BY ReadsFacts, StepFacts, TimeFacts
<1>2. /\ w \in Writers(r, s)
      /\ dec[w] /\ ReadsFrom(p, w)
  BY DEF Solution, Axioms, ScAxioms, TsoAxioms, ScRfCoFr, TsoRfCoFr, ReadsFrom, ScReadsFrom,
     TsoReadsFrom
<1>3. w \in WrittenTo(s) \ {r}
  BY <1>2, StoreFacts DEF WrittenTo
<1>4. \A v \in WrittenTo(s) : /\ v \in Stores \cup {InitStep} /\ Visible(v) \in Nat
                              /\ v \in Steps /\ ts[v] \in Nat /\ ts[v] <= Visible(v)
                              /\ dec[v] /\ (v # r => v \in Writers(r, s))
  BY StoreFacts, TimeFacts DEF WrittenTo
<1> HIDE DEF w, r, s
<1>5. CASE model = "SC"
  <2>1. \A v \in WrittenTo(s) : Visible(v) = ts[v]
    BY <1>5, TimeFacts, StoreFacts DEF WrittenTo, Buffered
  <2>2. ScReadsFrom(ts, dec, p, w)
    BY <1>2, <1>5 DEF ReadsFrom
  <2> QED
    BY <1>3, <1>4, <2>1, <2>2 DEF ScReadsFrom, ScRF, ScCO, ScFR, w, r, s
<1>6. CASE model = "TSO"
  <2>1. \A v \in WrittenTo(s) : Visible(v) = WfeGlobal(ts, g, v)
    BY <1>4, <1>6, TimeFacts
  <2>2. TsoReadsFrom(ts, g, dec, p, w)
    BY <1>2, <1>6 DEF ReadsFrom
  <2>3. \/ Visible(w) < ts[r]
        \/ w \in Buffered /\ SameCore(w, r) /\ ts[w] < ts[r]
    BY <1>3, <1>4, <2>1, <2>2, TimeFacts DEF TsoReadsFrom, TsoRF, r
  <2>4. ASSUME NEW v \in WrittenTo(s) \ {w, r}
        PROVE  \/ Visible(v) < Visible(w) /\ (SameCore(v, w) => ts[v] < ts[w])
               \/ ts[r] < Visible(v) /\ (SameCore(r, v) => ts[r] < ts[v])
    <3>1. TsoCO(ts, g, v, w) \/ TsoFR(ts, g, r, v)
      BY <1>4, <2>2 DEF TsoReadsFrom, r, s
    <3>2. CASE TsoCO(ts, g, v, w)
      <4>1. v \in WRITE_list /\ w \in WRITE_list
        BY <1>2, <1>4 DEF Writers
      <4> QED
        BY <1>3, <1>6, <2>1, <3>2, <4>1 DEF TsoCO, TSO_Store, Solution, Axioms, TsoAxioms
    <3>3. CASE TsoFR(ts, g, r, v)
      BY <1>1, <1>4, <2>1, <3>3 DEF TsoFR
    <3> QED
      BY <3>1, <3>2, <3>3
  <2> QED
    BY <1>3, <2>3, <2>4 DEF w, r, s
<1> QED
  BY <1>5, <1>6 DEF Solution

-----------------------------------------------------------------------------
\* The initial state of the replay.
LEMMA ReplayInit == Init => ReplayInv
<1> SUFFICES ASSUME Init PROVE ReplayInv
  OBVIOUS
<1>1. ts \in [Steps -> Nat]
  <2>1. PICK u \in [Inst \cup {FinalStep} -> 1 .. MaxTime] :
           ts = [x \in Steps |-> IF x = InitStep THEN 0 ELSE u[x]]
    BY DEF Init, Stampings
  <2> QED
    BY <2>1 DEF Steps
<1>2. g \in [Stores -> Nat]
  BY <1>1, StoreFacts DEF Init
<1>3. Solution
  BY <1>1, <1>2, ModelAssumption DEF Init, Solution, Decodings
<1>4. InOrder
  BY DEF Init, InOrder
<1>5. LatestInMemory
  <2> SUFFICES ASSUME NEW s \in Shared
               PROVE  /\ mem[s] \in WrittenTo(s) /\ Done(mem[s])
                      /\ \A w \in WrittenTo(s) : Done(w) => Visible(w) <= Visible(mem[s])
    BY DEF LatestInMemory
  <2>1. mem[s] = InitStep /\ dec[InitStep]
    BY DEF Init, Decodings
  <2>2. InitStep \in WrittenTo(s)
    BY <2>1, StepFacts DEF WrittenTo
  <2>3. ASSUME NEW w \in WrittenTo(s), Done(w) PROVE w = InitStep
    BY <2>3 DEF Done, Init
  <2> QED
    BY <1>3, <2>1, <2>2, <2>3, TimeFacts DEF Done
<1>6. Replayable
  BY DEF Init, Replayable
<1> QED
  BY <1>3, <1>4, <1>5, <1>6 DEF ReplayInv

-----------------------------------------------------------------------------
\* Taking an earliest event keeps the order.
LEMMA OrderStep ==
    ASSUME InOrder, NEW e, Earliest(e), happened' = happened \cup {e}, UNCHANGED solution
    PROVE  InOrder'
<1>1. Events' = Events /\ \A f, h : Precedes(f, h)' = Precedes(f, h)
  BY DEF solution, Events, Buffered, Precedes, Time
<1>2. e \in Events /\ \A f \in Events \ happened : ~ Precedes(f, e)
  BY DEF Earliest
<1> QED
  BY <1>1, <1>2 DEF InOrder

\* A step that brings no store to the memory keeps what the memory holds.
LEMMA MemoryKept ==
    ASSUME ReplayInv, NEW e \in Events, \A w \in Stores : Complete(w) # e,
           happened' = happened \cup {e}, mem' = mem, UNCHANGED solution
    PROVE  LatestInMemory'
<1>1. /\ \A s : WrittenTo(s)' = WrittenTo(s)
      /\ \A w : Visible(w)' = Visible(w) /\ Complete(w)' = Complete(w)
  BY DEF solution, WrittenTo, Visible, Complete, Time, Buffered
<1>2. \A s : \A w \in WrittenTo(s) : Done(w)' <=> Done(w)
  BY <1>1 DEF WrittenTo, Done
<1> QED
  BY <1>1, <1>2 DEF ReplayInv, LatestInMemory

\* A store that reaches the memory is the latest.
LEMMA MemoryWritten ==
    ASSUME ReplayInv, NEW w \in Stores, Earliest(Complete(w)),
           happened' = happened \cup {Complete(w)}, mem' = WriteBack(w), UNCHANGED solution
    PROVE  LatestInMemory'
<1>1. /\ \A s : WrittenTo(s)' = WrittenTo(s)
      /\ \A v : Visible(v)' = Visible(v) /\ Complete(v)' = Complete(v)
  BY DEF solution, WrittenTo, Visible, Complete, Time, Buffered
<1>2. \A v : Done(v)' <=> Done(v) \/ Complete(v) = Complete(w)
  BY <1>1 DEF Done
<1>3. \A v : Complete(v) = Complete(w) => v = w
  BY DEF Complete
<1>4. ASSUME NEW s, NEW v \in WrittenTo(s), Done(v) PROVE Visible(v) <= Visible(w)
  <2>1. CASE v = InitStep
    BY <2>1, TimeFacts DEF ReplayInv
  <2>2. CASE v # InitStep
    <3>1. v \in Stores /\ Complete(v) \in happened
      BY <1>4, <2>2 DEF WrittenTo, Done
    <3>2. ~ (Time(Complete(w)) < Time(Complete(v)))
      BY <3>1 DEF ReplayInv, InOrder, Earliest, Precedes
    <3> QED
      BY <3>1, <3>2, TimeFacts DEF ReplayInv
  <2> QED
    BY <2>1, <2>2
<1>5. SUFFICES ASSUME NEW s \in Shared
               PROVE  /\ mem'[s] \in WrittenTo(s) /\ Done(mem[s])'
                      /\ \A v \in WrittenTo(s) : Done(v)' => Visible(v) <= Visible(mem'[s])
  BY <1>1 DEF LatestInMemory
<1>6. CASE dec[w] /\ s \in InstWrite[w]
  <2>1. mem'[s] = w /\ w \in WrittenTo(s)
    BY <1>6, StoreFacts DEF WriteBack, WrittenTo
  <2>2. Visible(w) \in Nat
    BY TimeFacts DEF ReplayInv
  <2> QED
    BY <1>2, <1>3, <1>4, <2>1, <2>2
<1>7. CASE ~(dec[w] /\ s \in InstWrite[w])
  <2>1. mem'[s] = mem[s] /\ w \notin WrittenTo(s)
    BY <1>7, StoreFacts DEF WriteBack, WrittenTo
  <2> QED
    BY <1>2, <1>3, <2>1 DEF ReplayInv, LatestInMemory
<1> QED
  BY <1>6, <1>7

-----------------------------------------------------------------------------
\* The machine lets a step read what the solution gives it.
LEMMA ReadAnswered ==
    ASSUME ReplayInv, NEW p \in Reads, Earliest(<<p[1], "local">>)
    PROVE  rf[p] \in Answers(p[1], p[2])
<1> DEFINE r == p[1]
           s == p[2]
           w == rf[p]
           own == Forwardable(Host(r), s)
<1>0. Solution /\ InOrder /\ LatestInMemory
  BY DEF ReplayInv
<1>1. /\ w \in WrittenTo(s) \ {r}
      /\ \/ Visible(w) < ts[r]
         \/ w \in Buffered /\ SameCore(w, r) /\ ts[w] < ts[r]
      /\ \A v \in WrittenTo(s) \ {w, r} :
           \/ Visible(v) < Visible(w) /\ (SameCore(v, w) => ts[v] < ts[w])
           \/ ts[r] < Visible(v) /\ (SameCore(r, v) => ts[r] < ts[v])
  BY <1>0, ReadFacts
<1>2. r \in Inst \cup {FinalStep} /\ s \in Shared /\ r \in Steps /\ ts[r] \in Nat /\ r # InitStep
  BY <1>0, ReadsFacts, StepFacts, TimeFacts
<1>3. <<r, "local">> \in Events \ happened
  BY DEF Earliest
<1> HIDE DEF r, s, w
\* What has happened is not later than r, and what has not is not earlier.
<1>4. \A f \in happened : f \in Events /\ Time(f) <= ts[r]
  BY <1>0, <1>3, TimeFacts DEF InOrder, Precedes
<1>5. \A f \in Events \ happened : ts[r] <= Time(f)
  BY <1>0, TimeFacts DEF Earliest, Precedes, r
<1>6. \A v \in WrittenTo(s) : /\ v \in Stores \cup {InitStep} /\ Visible(v) \in Nat
                              /\ v \in Steps /\ ts[v] \in Nat
  BY <1>0, StoreFacts, TimeFacts DEF WrittenTo
\* Stores of r's own core that are in the buffer.
<1>7. ASSUME NEW v \in own
      PROVE  /\ v \in WrittenTo(s) \ {r} /\ v \in Buffered /\ SameCore(r, v)
             /\ ts[v] <= ts[r] /\ ts[r] <= Visible(v)
             /\ <<v, "local">> \in happened /\ <<v, "global">> \notin happened
  <2>1. /\ v \in Buffered /\ CoreOf[v] = Host(r) /\ dec[v] /\ s \in InstWrite[v]
        /\ <<v, "local">> \in happened /\ <<v, "global">> \notin happened
    BY DEF Forwardable, Pending
  <2>2. v \in Stores /\ v \in Inst /\ <<v, "global">> \in Events
        /\ Visible(v) = Time(<<v, "global">>) /\ Time(<<v, "local">>) = ts[v]
    BY <1>0, <2>1, TimeFacts, StoreFacts
  <2>3. v \in WrittenTo(s)
    BY <2>1, <2>2, StoreFacts DEF WrittenTo
  <2> QED
    BY <1>3, <1>4, <1>5, <2>1, <2>2, <2>3 DEF SameCore, Host
\* A source that has reached the memory is still there.
<1>8. ASSUME Done(w) PROVE mem[s] = w
  <2> SUFFICES ASSUME mem[s] # w PROVE FALSE
    OBVIOUS
  <2>1. mem[s] \in WrittenTo(s) /\ Done(mem[s]) /\ Visible(w) <= Visible(mem[s])
    BY <1>0, <1>1, <1>2, <1>8 DEF LatestInMemory
  <2>2. mem[s] = InitStep \/ (mem[s] \in Stores /\ Complete(mem[s]) \in happened)
    BY <1>6, <2>1 DEF Done
  <2>3. Visible(mem[s]) <= ts[r]
    BY <1>0, <1>2, <1>4, <2>2, TimeFacts
  <2>4. mem[s] # r
    <3> SUFFICES ASSUME r \in Stores, Complete(r) \in happened PROVE FALSE
      BY <1>2, <2>2
    <3>1. Complete(r) = <<r, "global">> /\ r \in Buffered
      BY <1>3 DEF Complete
    <3> QED
      BY <1>0, <1>2, <1>4, <3>1, TimeFacts
  <2> QED
    BY <1>1, <1>2, <1>6, <2>1, <2>3, <2>4
<1>9. CASE Visible(w) < ts[r]
  <2>1. own = {}
    <3> SUFFICES ASSUME NEW v \in own PROVE FALSE
      OBVIOUS
    <3>1. /\ v \in WrittenTo(s) \ {r} /\ SameCore(r, v) /\ ts[v] <= ts[r] /\ ts[r] <= Visible(v)
          /\ Visible(v) \in Nat /\ ts[v] \in Nat /\ Visible(w) \in Nat /\ ts[w] \in Nat
      BY <1>1, <1>6, <1>7
    <3>2. CASE v = w
      BY <1>2, <1>9, <3>1, <3>2
    <3>3. CASE v # w
      BY <1>1, <1>2, <1>9, <3>1
    <3> QED
      BY <3>2, <3>3
  <2>2. Done(w)
    <3> SUFFICES ASSUME w # InitStep, Complete(w) \notin happened PROVE FALSE
      BY DEF Done
    <3>1. w \in Stores
      BY <1>1, <1>6
    <3> QED
      BY <1>0, <1>2, <1>5, <1>9, <3>1, TimeFacts
  <2> QED
    BY <1>8, <2>1, <2>2 DEF Answers, r, s, w
<1>10. CASE w \in Buffered /\ SameCore(w, r) /\ ts[w] < ts[r]
  <2>1. /\ w \in Stores /\ w \in Inst /\ dec[w] /\ s \in InstWrite[w]
        /\ Time(<<w, "local">>) = ts[w] /\ <<w, "local">> \in Events
        /\ Complete(w) = <<w, "global">> /\ Visible(w) = Time(<<w, "global">>)
    BY <1>0, <1>1, <1>10, StoreFacts, TimeFacts DEF WrittenTo, Complete
  <2>2. <<w, "local">> \in happened
    BY <1>1, <1>2, <1>5, <1>6, <1>10, <2>1
  <2>3. \A v \in own \ {w} : ts[v] < ts[w] /\ Visible(v) < Visible(w)
    <3> SUFFICES ASSUME NEW v \in own \ {w} PROVE ts[v] < ts[w] /\ Visible(v) < Visible(w)
      OBVIOUS
    <3>1. SameCore(v, w)
      BY <1>7, <1>10 DEF SameCore
    <3>2. /\ v \in WrittenTo(s) \ {r} /\ SameCore(r, v) /\ ts[v] <= ts[r] /\ ts[r] <= Visible(v)
          /\ Visible(v) \in Nat /\ ts[v] \in Nat /\ Visible(w) \in Nat /\ ts[w] \in Nat
      BY <1>1, <1>6, <1>7
    <3> QED
      BY <1>1, <1>2, <3>1, <3>2
  <2>4. CASE <<w, "global">> \notin happened
    <3>1. w \in own
      BY <1>10, <2>1, <2>2, <2>4 DEF Forwardable, Pending, SameCore, Host
    <3>2. \A v \in own : ts[v] <= ts[w]
      <4> SUFFICES ASSUME NEW v \in own PROVE ts[v] <= ts[w]
        OBVIOUS
      <4>1. ts[v] \in Nat /\ ts[w] \in Nat
        BY <1>1, <1>6, <1>7
      <4> QED
        BY <2>3, <4>1
    <3> QED
      BY <3>1, <3>2 DEF Answers, r, s, w
  <2>5. CASE <<w, "global">> \in happened
    <3>1. own = {}
      <4> SUFFICES ASSUME NEW v \in own PROVE FALSE
        OBVIOUS
      <4>1. v # w
        BY <1>7, <2>5
      <4>2. Visible(w) <= ts[r]
        BY <1>4, <2>1, <2>5
      <4> QED
        <5>1. /\ v \in WrittenTo(s) \ {r} /\ SameCore(r, v) /\ ts[v] <= ts[r] /\ ts[r] <= Visible(v)
              /\ Visible(v) \in Nat /\ ts[v] \in Nat /\ Visible(w) \in Nat /\ ts[w] \in Nat
          BY <1>1, <1>6, <1>7
        <5> QED
          BY <1>2, <2>3, <4>1, <4>2, <5>1
    <3> QED
      BY <1>8, <2>1, <2>5, <3>1 DEF Answers, Done, r, s, w
  <2> QED
    BY <2>4, <2>5
<1> QED
  BY <1>1, <1>9, <1>10

\* A fence or a read-modify-write finds the buffer of its core empty.
LEMMA BufferEmpty ==
    ASSUME ReplayInv, NEW i \in FENCE_list \cup RMW_list, Earliest(<<i, "local">>)
    PROVE  Pending(CoreOf[i]) = {}
<1> SUFFICES ASSUME NEW v \in Pending(CoreOf[i]) PROVE FALSE
  OBVIOUS
<1>0. Solution /\ InOrder
  BY DEF ReplayInv
<1>1. /\ v \in Buffered /\ CoreOf[v] = CoreOf[i]
      /\ <<v, "local">> \in happened /\ <<v, "global">> \notin happened
  BY DEF Pending
<1>2. /\ i \in Inst /\ v \in Inst /\ v \in Stores /\ v \in WRITE_list
      /\ SameCore(v, i) /\ SameCore(i, v)
      /\ ts[i] \in Nat /\ ts[v] \in Nat /\ v \in PureWrite_list /\ model = "TSO"
      /\ <<i, "local">> \in Events \ happened /\ <<v, "global">> \in Events \ happened
      /\ Time(<<v, "global">>) = WfeGlobal(ts, g, v) /\ WfeGlobal(ts, g, v) \in Nat
  BY <1>0, <1>1, TemplateAssumption, StoreFacts, TimeFacts DEF Buffered, SameCore, Host, Earliest
<1>3. ts[i] <= Time(<<v, "global">>)
  BY <1>2 DEF Earliest, Precedes, Time
<1>4. ts[v] <= ts[i]
  BY <1>0, <1>1, <1>2 DEF InOrder, Precedes, Time
<1>5. ts[v] # ts[i]
  <2> SUFFICES ASSUME ts[v] = ts[i] PROVE FALSE
    OBVIOUS
  <2>1. Waits(<<i, "local">>) /\ ~ Waits(<<v, "local">>)
    BY <1>2, FenceAssumption DEF Waits, PureWrite_list
  <2>2. Precedes(<<i, "local">>, <<v, "local">>)
    BY <1>2, <2>1 DEF Precedes, Time
  <2> QED
    BY <1>0, <1>1, <1>2, <2>2 DEF InOrder
<1>6. CASE i \in FENCE_list
  <2>1. WfeGlobal(ts, g, v) < ts[i]
    BY <1>0, <1>2, <1>4, <1>5, <1>6 DEF Solution, Axioms, TsoAxioms, TSO_Fence
  <2> QED
    BY <1>2, <1>3, <2>1
<1>7. CASE i \in RMW_list
  <2>1. i \in WRITE_list /\ i # InitStep /\ i # v
    BY <1>2, <1>7, StoreFacts
  <2>2. WfeGlobal(ts, g, v) < WfeGlobal(ts, g, i)
    BY <1>0, <1>2, <1>4, <1>5, <2>1 DEF Solution, Axioms, TsoAxioms, TSO_Store
  <2>3. WfeGlobal(ts, g, i) = ts[i]
    BY <1>0, <1>2, <1>7 DEF Solution, Axioms, TsoAxioms, TSO_RMW, WfeGlobal
  <2> QED
    BY <1>2, <1>3, <2>2, <2>3
<1> QED
  BY <1>6, <1>7

\* The buffers are emptied in order.
LEMMA OldestFirst ==
    ASSUME ReplayInv, NEW w \in Buffered, Earliest(<<w, "global">>),
           NEW v \in Pending(CoreOf[w])
    PROVE  ts[w] <= ts[v]
<1> SUFFICES ASSUME ~(ts[w] <= ts[v]) PROVE FALSE
  OBVIOUS
<1>0. Solution
  BY DEF ReplayInv
<1>1. /\ v \in Buffered /\ CoreOf[v] = CoreOf[w] /\ <<v, "global">> \notin happened
  BY DEF Pending
<1>2. /\ w \in Stores /\ v \in Stores /\ w \in Inst /\ v \in Inst
      /\ ts[w] \in Nat /\ ts[v] \in Nat /\ model = "TSO"
      /\ v \in WRITE_list /\ w \in WRITE_list /\ v # InitStep /\ w # InitStep
      /\ <<v, "global">> \in Events
  BY <1>0, <1>1, StoreFacts, TimeFacts DEF Buffered
<1>3. ts[v] < ts[w] /\ SameCore(v, w)
  BY <1>1, <1>2 DEF SameCore, Host
<1>4. g[v] < g[w]
  BY <1>0, <1>2, <1>3 DEF Solution, Axioms, TsoAxioms, TSO_Store, WfeGlobal
<1> QED
  BY <1>1, <1>2, <1>4 DEF Earliest, Precedes, Time

-----------------------------------------------------------------------------
\* Every step of the replay keeps the invariant.
LEMMA ReplayStep == ReplayInv /\ [Next]_vars => ReplayInv'
<1> SUFFICES ASSUME ReplayInv, [Next]_vars PROVE ReplayInv'
  OBVIOUS
<1>1. ASSUME UNCHANGED solution PROVE Solution'
  BY <1>1 DEF ReplayInv, Solution, solution, Axioms
<1>2. ASSUME NEW i \in Inst \cup {FinalStep}, ReplayLocal(i) PROVE ReplayInv'
  <2>1. /\ Earliest(<<i, "local">>) /\ happened' = happened \cup {<<i, "local">>}
        /\ UNCHANGED solution
    BY <1>2 DEF ReplayLocal
  <2>2. Solution' /\ InOrder'
    BY <1>1, <2>1, OrderStep DEF ReplayInv
  <2>3. LatestInMemory'
    <3>1. CASE i \in Stores \ Buffered
      BY <1>2, <3>1, MemoryWritten DEF ReplayLocal, Complete
    <3>2. CASE i \notin Stores \ Buffered
      <4>1. \A w \in Stores : Complete(w) # <<i, "local">>
        BY <3>2 DEF Complete
      <4>2. <<i, "local">> \in Events
        BY <2>1 DEF Earliest
      <4> QED
        BY <1>2, <3>2, <4>1, <4>2, MemoryKept DEF ReplayLocal
    <3> QED
      BY <3>1, <3>2
  <2>4. Replayable'
    <3>1. {p \in Reads : p[1] = i /\ rf[p] \notin Answers(i, p[2])} = {}
      BY <2>1, ReadAnswered
    <3>2. ~(i \in FENCE_list \cup RMW_list /\ Pending(CoreOf[i]) # {})
      BY <2>1, BufferEmpty
    <3> QED
      BY <1>2, <3>1, <3>2 DEF ReplayLocal, ReplayInv, Replayable
  <2> QED
    BY <2>2, <2>3, <2>4 DEF ReplayInv
<1>3. ASSUME NEW w \in PureWrite_list, ReplayGlobal(w) PROVE ReplayInv'
  <2>1. /\ Earliest(<<w, "global">>) /\ happened' = happened \cup {<<w, "global">>}
        /\ UNCHANGED solution /\ w \in Buffered
    BY <1>3 DEF ReplayGlobal
  <2>2. Solution' /\ InOrder'
    BY <1>1, <2>1, OrderStep DEF ReplayInv
  <2>3. LatestInMemory'
    BY <1>3, StoreFacts, MemoryWritten DEF ReplayGlobal, Complete
  <2>4. Replayable'
    BY <1>3, OldestFirst DEF ReplayGlobal, ReplayInv, Replayable
  <2> QED
    BY <2>2, <2>3, <2>4 DEF ReplayInv
<1>4. CASE UNCHANGED vars
  <2>1. UNCHANGED solution /\ UNCHANGED <<mem, happened, refused>>
    BY <1>4 DEF vars, solution
  <2>2. InOrder'
    BY <2>1 DEF ReplayInv, InOrder, solution, Events, Buffered, Precedes, Time
  <2>3. LatestInMemory'
    BY <2>1 DEF ReplayInv, LatestInMemory, solution, WrittenTo, Visible, Done, Complete, Time,
       Buffered
  <2> QED
    BY <1>1, <2>1, <2>2, <2>3 DEF ReplayInv, Replayable
<1> QED
  BY <1>2, <1>3, <1>4 DEF Next, Terminated

\* Every solution of the SC and of the TSO constraints can be run on the machine,
\* for every program template and any time stamps: each read finds the data the
\* solution gives it, fences and read-modify-writes find an empty buffer, and the
\* buffers are emptied in order.
THEOREM SolutionsReplayable == Spec => []Replayable
<1>1. ReplayInv => Replayable
  BY DEF ReplayInv
<1> QED
  BY ReplayInit, ReplayStep, <1>1, PTL DEF Spec

-----------------------------------------------------------------------------
(* Private states: the solution, and the replay in the order of the stamps. *)

LocalSolution ==
    /\ ordered \in BOOLEAN
    /\ stamp \in [CoreInst -> Nat \ {0}] /\ decoded \in [CoreInst -> BOOLEAN]
    /\ \A i \in CoreInst \ MayNotDecode[ordered] : decoded[i]
    /\ SetLocalState

ReplayOrder ==
    /\ replayed \subseteq CoreInst
    /\ \A i \in replayed, j \in CoreInst \ replayed : stamp[i] <= stamp[j]

\* In order, the steps replayed are those up to a position, and a register holds
\* what the last of them left there.
OrderedReplay ==
    /\ \E k \in Nat : replayed = {j \in CoreInst : InstPos[j] <= k}
    /\ \A s \in Regs : regs[s] = LastValue(s, replayed)

\* Out of order, a register holds the latest definition among those replayed.
UnorderedReplay ==
    \A s \in Regs :
        /\ regs[s] \in Definitions(s) /\ Decodes(regs[s])
        /\ regs[s] = InitVal \/ regs[s] \in replayed
        /\ \A v \in Definitions(s) \cap replayed : decoded[v] => StampOf(v) <= StampOf(regs[s])

LocalInv ==
    /\ LocalSolution /\ ReplayOrder
    /\ IF ordered THEN OrderedReplay ELSE UnorderedReplay
    /\ ReadsLatestDefinition

LEMMA LocalInitial == LocalInit => LocalInv
<1> SUFFICES ASSUME LocalInit PROVE LocalInv
  OBVIOUS
<1>1. LocalSolution
  BY LocalAssumption DEF LocalInit, LocalSolution, Stamps
<1>2. ReplayOrder /\ ReadsLatestDefinition
  BY DEF LocalInit, ReplayOrder, ReadsLatestDefinition
<1>3. OrderedReplay
  <2>1. replayed = {j \in CoreInst : InstPos[j] <= 0}
    BY LocalAssumption DEF LocalInit
  <2>2. \A s \in Regs : regs[s] = LastValue(s, replayed)
    BY DEF LocalInit, LastValue
  <2> QED
    BY <2>1, <2>2 DEF OrderedReplay
<1>4. UnorderedReplay
  BY DEF LocalInit, UnorderedReplay, Definitions, Decodes
<1> QED
  BY <1>1, <1>2, <1>3, <1>4 DEF LocalInv

\* In order, the next step replayed is the one at the next position.
LEMMA NextPosition ==
    ASSUME LocalInv, ordered, NEW i \in CoreInst \ replayed,
           \A j \in CoreInst \ replayed : stamp[i] <= stamp[j]
    PROVE  /\ replayed = {j \in CoreInst : InstPos[j] < InstPos[i]}
           /\ replayed \cup {i} = {j \in CoreInst : InstPos[j] <= InstPos[i]}
<1>1. PICK k \in Nat : replayed = {j \in CoreInst : InstPos[j] <= k}
  BY DEF LocalInv, OrderedReplay
<1>2. \A j \in CoreInst : InstPos[j] \in Nat \ {0} /\ stamp[j] \in Nat
  BY LocalAssumption DEF LocalInv, LocalSolution
<1>3. InstPos[i] = k + 1
  <2> SUFFICES ASSUME InstPos[i] # k + 1 PROVE FALSE
    OBVIOUS
  <2>1. InstPos[i] > k + 1
    BY <1>1, <1>2
  <2>2. PICK j \in CoreInst : InstPos[i] = InstPos[j] + 1
    BY <1>2, <2>1, OrderedAssumption
  <2>3. j \in CoreInst \ replayed
    BY <1>1, <1>2, <2>1, <2>2
  <2>4. stamp[j] < stamp[i]
    BY <2>2 DEF LocalInv, LocalSolution, SetLocalState, LinkOrdered
  <2> QED
    BY <1>2, <2>3, <2>4
<1>4. \A j \in CoreInst : InstPos[j] = InstPos[i] => j = i
  BY LocalAssumption
<1> QED
  BY <1>1, <1>2, <1>3, <1>4

\* The last value after one more step, in order.
LEMMA LastValueStep ==
    ASSUME NEW s \in Regs, NEW i \in CoreInst, NEW S \in SUBSET CoreInst,
           \A j \in S : InstPos[j] < InstPos[i]
    PROVE  LastValue(s, S \cup {i}) =
             IF s \notin RegWrite[i] THEN LastValue(s, S)
             ELSE IF decoded[i] THEN i ELSE val[<<i, s>>]
<1> DEFINE W(T) == {w \in T : s \in RegWrite[w]}
           Latest(U) == CHOOSE w \in U : \A v \in U : InstPos[v] <= InstPos[w]
<1>1. \A T : LastValue(s, T) = IF W(T) = {} THEN InitVal
                             ELSE IF decoded[Latest(W(T))] THEN Latest(W(T))
                                  ELSE val[<<Latest(W(T)), s>>]
  BY DEF LastValue
<1>2. \A j \in CoreInst : InstPos[j] \in Nat
  BY LocalAssumption
<1>3. CASE s \notin RegWrite[i]
  <2>1. W(S \cup {i}) = W(S)
    BY <1>3
  <2> HIDE DEF W, Latest
  <2> QED
    BY <1>1, <1>3, <2>1
<1>4. CASE s \in RegWrite[i]
  <2>1. i \in W(S \cup {i}) /\ \A v \in W(S \cup {i}) : InstPos[v] <= InstPos[i]
    BY <1>2, <1>4
  <2>2. \A w \in W(S \cup {i}) : (\A v \in W(S \cup {i}) : InstPos[v] <= InstPos[w]) => w = i
    BY <1>2, <2>1
  <2>3. Latest(W(S \cup {i})) = i
    BY <2>1, <2>2
  <2> HIDE DEF W, Latest
  <2> QED
    BY <1>1, <1>4, <2>1, <2>3
<1> QED
  BY <1>3, <1>4

\* A step reads what the register file holds.
LEMMA ReadsRegister ==
    ASSUME LocalInv, NEW i \in CoreInst \ replayed,
           \A j \in CoreInst \ replayed : stamp[i] <= stamp[j], NEW s \in RegRead[i]
    PROVE  val[<<i, s>>] = regs[s]
<1>0. s \in Regs
  BY LocalAssumption
<1>1. CASE ordered
  <2>1. val[<<i, s>>] = LastValue(s, {j \in CoreInst : InstPos[j] < InstPos[i]})
    BY <1>1 DEF LocalInv, LocalSolution, SetLocalState, LinkOrdered
  <2>2. replayed = {j \in CoreInst : InstPos[j] < InstPos[i]}
    BY <1>1, NextPosition
  <2>3. regs[s] = LastValue(s, replayed)
    BY <1>0, <1>1 DEF LocalInv, OrderedReplay
  <2> QED
    BY <2>1, <2>2, <2>3
<1>2. CASE ~ordered
  <2>1. PICK w \in Definitions(s) \ {i} :
           /\ val[<<i, s>>] = w /\ Decodes(w) /\ StampOf(w) < stamp[i]
           /\ \A v \in Definitions(s) \ {w, i} :
                Decodes(v) => StampOf(v) < StampOf(w) \/ StampOf(v) > stamp[i]
    BY <1>2 DEF LocalInv, LocalSolution, SetLocalState, LinkUnordered
  <2>2. \A v \in Definitions(s) : /\ StampOf(v) \in Nat
                                  /\ v = InitVal \/ (v \in CoreInst /\ StampOf(v) = stamp[v])
                                  /\ v # InitVal => (Decodes(v) <=> decoded[v])
    BY LocalAssumption DEF LocalInv, LocalSolution, Definitions, StampOf, Decodes
  <2>3. stamp[i] \in Nat \ {0} /\ i # InitVal
    BY LocalAssumption DEF LocalInv, LocalSolution
  <2>4. /\ regs[s] \in Definitions(s) /\ Decodes(regs[s])
        /\ regs[s] = InitVal \/ regs[s] \in replayed
        /\ \A v \in Definitions(s) \cap replayed : decoded[v] => StampOf(v) <= StampOf(regs[s])
    BY <1>0, <1>2 DEF LocalInv, UnorderedReplay
  <2>5. StampOf(w) <= StampOf(regs[s])
    <3>1. CASE w = InitVal
      BY <2>2, <2>4, <3>1 DEF StampOf
    <3>2. CASE w # InitVal
      <4>1. w \in replayed
        BY <2>1, <2>2, <2>3, <3>2
      <4> QED
        BY <2>1, <2>2, <2>4, <3>2, <4>1
    <3> QED
      BY <3>1, <3>2
  <2>6. regs[s] # i /\ StampOf(regs[s]) <= stamp[i]
    BY <2>2, <2>3, <2>4 DEF LocalInv, ReplayOrder, StampOf
  <2> QED
    BY <2>1, <2>2, <2>3, <2>4, <2>5, <2>6
<1> QED
  BY <1>1, <1>2 DEF LocalInv, LocalSolution

LEMMA LocalStep == LocalInv /\ [LocalNext]_localVars => LocalInv'
<1> SUFFICES ASSUME LocalInv, [LocalNext]_localVars PROVE LocalInv'
  OBVIOUS
<1>1. ASSUME UNCHANGED assignment
      PROVE  /\ LocalSolution' /\ ordered' = ordered
             /\ \A s, S : LastValue(s, S)' = LastValue(s, S)
             /\ \A w : StampOf(w)' = StampOf(w) /\ (Decodes(w)' <=> Decodes(w))
  <2>1. \A s, S : LastValue(s, S)' = LastValue(s, S)
    BY <1>1 DEF assignment, LastValue
  <2>2. \A w : StampOf(w)' = StampOf(w) /\ (Decodes(w)' <=> Decodes(w))
    BY <1>1 DEF assignment, StampOf, Decodes
  <2>3. SetLocalState' <=> SetLocalState
    BY <1>1, <2>1, <2>2 DEF assignment, SetLocalState, LinkOrdered, LinkUnordered
  <2> QED
    BY <1>1, <2>1, <2>2, <2>3 DEF assignment, LocalInv, LocalSolution
<1>2. ASSUME NEW i \in CoreInst, Replay(i) PROVE LocalInv'
  <2>1. /\ i \in CoreInst \ replayed /\ \A j \in CoreInst \ replayed : stamp[i] <= stamp[j]
        /\ replayed' = replayed \cup {i} /\ UNCHANGED assignment
        /\ regs' = [s \in Regs |-> IF decoded[i] /\ s \in RegWrite[i] THEN i ELSE regs[s]]
    BY <1>2 DEF Replay
  <2>2. stamp' = stamp /\ decoded' = decoded
    BY <2>1 DEF assignment
  <2>3. ReplayOrder'
    BY <2>1, <2>2 DEF LocalInv, ReplayOrder
  <2>4. ReadsLatestDefinition'
    <3>1. {c \in Cells : c[1] = i /\ c[2] \in RegRead[i] /\ val[c] # regs[c[2]]} = {}
      <4> SUFFICES ASSUME NEW c \in Cells, c[1] = i, c[2] \in RegRead[i]
                   PROVE  val[c] = regs[c[2]]
        OBVIOUS
      <4>1. c = <<i, c[2]>>
        BY DEF Cells
      <4> QED
        BY <2>1, <4>1, ReadsRegister
    <3> QED
      BY <1>2, <3>1 DEF Replay, LocalInv, ReadsLatestDefinition
  <2>5. CASE ordered
    <3>1. /\ replayed = {j \in CoreInst : InstPos[j] < InstPos[i]}
          /\ replayed' = {j \in CoreInst : InstPos[j] <= InstPos[i]}
      BY <2>1, <2>5, NextPosition
    <3>2. ASSUME NEW s \in Regs PROVE regs'[s] = LastValue(s, replayed')
      <4>1. regs[s] = LastValue(s, replayed)
        BY <2>5 DEF LocalInv, OrderedReplay
      <4>2. LastValue(s, replayed') =
              IF s \notin RegWrite[i] THEN LastValue(s, replayed)
              ELSE IF decoded[i] THEN i ELSE val[<<i, s>>]
        BY <2>1, <3>1, LastValueStep
      <4>3. CASE s \in RegWrite[i] /\ ~decoded[i]
        <5>1. s \in RegRead[i]
          BY <2>5, <4>3, OrderedAssumption DEF LocalInv, LocalSolution
        <5> QED
          BY <2>1, <4>2, <4>3, <5>1, ReadsRegister
      <4>4. CASE ~(s \in RegWrite[i] /\ ~decoded[i])
        BY <2>1, <4>1, <4>2, <4>4
      <4> QED
        BY <4>3, <4>4
    <3>3. InstPos[i] \in Nat
      BY LocalAssumption
    <3>4. OrderedReplay'
      BY <1>1, <2>1, <3>1, <3>2, <3>3 DEF OrderedReplay
    <3> QED
      BY <1>1, <2>1, <2>3, <2>4, <2>5, <3>4 DEF LocalInv
  <2>6. CASE ~ordered
    <3>1. ASSUME NEW s \in Regs
          PROVE  /\ regs'[s] \in Definitions(s) /\ Decodes(regs'[s])
                 /\ regs'[s] = InitVal \/ regs'[s] \in replayed'
                 /\ \A v \in Definitions(s) \cap replayed' :
                       decoded[v] => StampOf(v) <= StampOf(regs'[s])
      <4>0. /\ regs[s] \in Definitions(s) /\ Decodes(regs[s])
            /\ regs[s] = InitVal \/ regs[s] \in replayed
            /\ \A v \in Definitions(s) \cap replayed : decoded[v] => StampOf(v) <= StampOf(regs[s])
        BY <2>6 DEF LocalInv, UnorderedReplay
      <4>1. /\ i # InitVal /\ StampOf(i) = stamp[i] /\ stamp[i] \in Nat
            /\ \A v \in replayed : StampOf(v) = stamp[v] /\ stamp[v] <= stamp[i]
        BY <2>1, LocalAssumption DEF LocalInv, LocalSolution, ReplayOrder, StampOf
      <4>2. CASE decoded[i] /\ s \in RegWrite[i]
        <5>1. regs'[s] = i
          BY <2>1, <4>2
        <5> QED
          BY <2>1, <4>1, <4>2, <5>1 DEF Definitions, Decodes
      <4>3. CASE ~(decoded[i] /\ s \in RegWrite[i])
        <5>1. regs'[s] = regs[s]
          BY <2>1, <4>3
        <5> QED
          BY <2>1, <4>0, <4>1, <4>3, <5>1 DEF Definitions
      <4> QED
        BY <4>2, <4>3
    <3>2. UnorderedReplay'
      BY <1>1, <2>1, <2>2, <3>1 DEF UnorderedReplay, Definitions
    <3> QED
      BY <1>1, <2>1, <2>3, <2>4, <2>6, <3>2 DEF LocalInv
  <2> QED
    BY <2>5, <2>6
<1>3. CASE ReplayEnd
  <2>1. UNCHANGED <<assignment, regs, replayed>> /\ replayed = CoreInst
    BY <1>3 DEF ReplayEnd
  <2>2. \A s \in Regs : fin[s] = regs[s]
    <3>1. CASE ordered
      BY <2>1, <3>1 DEF LocalInv, OrderedReplay, LocalSolution, SetLocalState, LinkOrdered
    <3>2. CASE ~ordered
      <4> SUFFICES ASSUME NEW s \in Regs PROVE fin[s] = regs[s]
        OBVIOUS
      <4>1. PICK w \in Definitions(s) :
               /\ fin[s] = w /\ Decodes(w)
               /\ \A v \in Definitions(s) \ {w} : Decodes(v) => StampOf(v) < StampOf(w)
        BY <3>2 DEF LocalInv, LocalSolution, SetLocalState, LinkUnordered
      <4>2. /\ regs[s] \in Definitions(s) /\ Decodes(regs[s])
            /\ \A v \in Definitions(s) \cap replayed :
                 decoded[v] => StampOf(v) <= StampOf(regs[s])
        BY <3>2 DEF LocalInv, UnorderedReplay
      <4>3. \A v \in Definitions(s) : /\ StampOf(v) \in Nat
                                      /\ v = InitVal => StampOf(v) = 0
                                      /\ v # InitVal => /\ v \in replayed
                                                        /\ Decodes(v) <=> decoded[v]
        BY <2>1, LocalAssumption DEF LocalInv, LocalSolution, Definitions, StampOf, Decodes
      <4>4. StampOf(w) <= StampOf(regs[s])
        BY <4>1, <4>2, <4>3
      <4> QED
        BY <4>1, <4>2, <4>3, <4>4
    <3> QED
      BY <3>1, <3>2 DEF LocalInv, LocalSolution
  <2>3. ReadsLatestDefinition'
    BY <1>3, <2>2 DEF ReplayEnd, LocalInv, ReadsLatestDefinition
  <2>4. ReplayOrder' /\ (OrderedReplay => OrderedReplay') /\ (UnorderedReplay => UnorderedReplay')
    BY <1>1, <2>1 DEF LocalInv, ReplayOrder, OrderedReplay, UnorderedReplay, Definitions, assignment
  <2> QED
    BY <1>1, <2>1, <2>3, <2>4 DEF LocalInv
<1>4. CASE UNCHANGED localVars
  <2>1. UNCHANGED <<assignment, regs, replayed, wrong>>
    BY <1>4 DEF localVars, assignment
  <2>2. ReplayOrder' /\ (OrderedReplay => OrderedReplay') /\ (UnorderedReplay => UnorderedReplay')
    BY <1>1, <2>1 DEF LocalInv, ReplayOrder, OrderedReplay, UnorderedReplay, Definitions, assignment
  <2> QED
    BY <1>1, <2>1, <2>2 DEF LocalInv, ReadsLatestDefinition
<1> QED
  BY <1>2, <1>3, <1>4 DEF LocalNext

\* The value a step reads from a private state is the one that the latest step
\* that decodes and updates it has left there, and so is the value that the
\* final property sees: for every core, linked in order or not, any decode
\* failures the constraints allow and any time stamps.
THEOREM LocalReadsLatest == LocalSpec => []ReadsLatestDefinition
<1>1. LocalInv => ReadsLatestDefinition
  BY DEF LocalInv
<1> QED
  BY LocalInitial, LocalStep, <1>1, PTL DEF LocalSpec

-----------------------------------------------------------------------------
(* Addresses and data: what the cells hold after the stores of the trace.   *)

Pair == Addrs \X Data
StepType == [init : BOOLEAN, store : SUBSET Pair, loads : SUBSET Pair]
StoresTo(k, a) == \E p \in trace[k].store : p[1] = a

TraceShape ==
    /\ isMem \in BOOLEAN
    /\ trace \in Seq(StepType) /\ Len(trace) >= 1
    /\ \A k \in 1 .. Len(trace) : /\ trace[k].init <=> k = 1
                                  /\ trace[k].store \in StorePairs
    /\ isMem => trace[1].store = {}
    /\ ~isMem => trace[1].store # {} /\ \A p \in trace[1].store : p[2] = Zero[p[1]]

\* A cell holds the data of the latest store to it, or the initial contents.
CellsLatest ==
    \A a \in Addrs :
        /\ (\A k \in 1 .. Len(trace) : ~StoresTo(k, a)) => cells[a] = Zero[a]
        /\ \A k \in 1 .. Len(trace) : \A p \in trace[k].store :
              p[1] = a /\ (\A j \in 1 .. Len(trace) : StoresTo(j, a) => j <= k) => cells[a] = p[2]

StrayInTrace == \A s \in stray : s[1] \in 1 .. Len(trace)

AddrInv == TraceShape /\ CellsLatest /\ StrayInTrace /\ LoadsLatestStore

LEMMA CellFacts ==
    /\ MemCells \subseteq Addrs /\ (~isMem => \A a, b \in MemCells : a = b)
    /\ \A a \in Addrs : Zero[a] \in Data
    /\ \A P \in StorePairs : /\ P \in SUBSET Pair
                             /\ \A p, q \in P : p = q
                             /\ \A p \in P : p = <<p[1], p[2]>> /\ p[1] \in MemCells
<1>1. MemCells \subseteq Addrs /\ (~isMem => \A a, b \in MemCells : a = b)
  BY AddrAssumption DEF MemCells
<1>2. \A a \in Addrs : Zero[a] \in Data
  BY AddrAssumption DEF Zero
<1> QED
  BY <1>1, <1>2 DEF StorePairs, Pair

LEMMA InstStepFacts ==
    ASSUME NEW step \in InstSteps
    PROVE  /\ step \in StepType /\ step.init = FALSE /\ step.store \in StorePairs
           /\ \A p \in step.loads : p[1] \in MemCells
<1>1. step.init = FALSE /\ step.store \in StorePairs
  BY DEF InstSteps
<1>2. PICK f \in Loads : step.loads = Pairs(f)
  BY DEF InstSteps
<1>3. PICK S \in SUBSET MemCells : f \in [S -> Data]
  BY DEF Loads
<1>4. step.loads = {<<a, f[a]>> : a \in S}
  BY <1>2, <1>3 DEF Pairs
<1>5. step.loads \in SUBSET Pair /\ \A p \in step.loads : p[1] \in MemCells
  BY <1>3, <1>4, CellFacts DEF Pair
<1> QED
  BY <1>1, <1>5, CellFacts DEF InstSteps, StepType

LEMMA InitialStepFacts ==
    /\ InitialStep \in StepType /\ InitialStep.init = TRUE /\ InitialStep.store \in StorePairs
    /\ InitialStep.loads = {} /\ (isMem => InitialStep.store = {})
    /\ ~isMem => InitialStep.store # {} /\ \A p \in InitialStep.store : p[2] = Zero[p[1]]
<1>1. InitialStep = [init |-> TRUE, loads |-> {}, store |-> InitialStep.store]
  BY DEF InitialStep
<1>2. InitialStep.store = IF isMem THEN {} ELSE {<<c, Zero[c]>> : c \in MemCells}
  BY DEF InitialStep
<1>3. CASE isMem
  <2>1. InitialStep = [init |-> TRUE, loads |-> {}, store |-> {}]
    BY <1>3 DEF InitialStep
  <2> QED
    BY <1>3, <2>1 DEF StepType, StorePairs
<1>4. CASE ~isMem
  <2>1. PICK c : MemCells = {c} /\ c \in Addrs
    BY <1>4, AddrAssumption DEF MemCells
  <2>2. InitialStep.store = {<<c, Zero[c]>>}
    BY <1>2, <1>4, <2>1
  <2>3. InitialStep.store \in StorePairs
    BY <2>1, <2>2, CellFacts DEF StorePairs
  <2>4. <<c, Zero[c]>> \in Pair
    BY <2>1, CellFacts DEF Pair
  <2>5. InitialStep = [init |-> TRUE, loads |-> {}, store |-> {<<c, Zero[c]>>}]
    BY <1>1, <2>2
  <2>6. InitialStep \in StepType
    BY <2>4, <2>5 DEF StepType
  <2> QED
    BY <1>1, <1>4, <2>2, <2>3, <2>6
<1> QED
  BY <1>1, <1>3, <1>4

\* The hints of AxiomFuncHint.
LEMMA HintFacts ==
    ASSUME NEW step \in StepType
    PROVE  /\ Hinted(step, "READ").init = step.init /\ Hinted(step, "READ").store = {}
           /\ Hinted(step, "READ").loads = step.loads
           /\ Hinted(step, "WRITE").init = step.init /\ Hinted(step, "WRITE").loads = {}
           /\ Hinted(step, "WRITE").store = step.store
<1>1. Hinted(step, "READ") = [step EXCEPT !.store = {}]
  BY DEF Hinted
<1>2. Hinted(step, "WRITE") = [step EXCEPT !.loads = {}]
  BY DEF Hinted
<1> QED
  BY <1>1, <1>2 DEF StepType

LEMMA TraceFacts ==
    ASSUME TraceShape
    PROVE  /\ Len(trace) \in Nat /\ DOMAIN trace = 1 .. Len(trace)
           /\ \A k \in 1 .. Len(trace) : trace[k] \in StepType
<1>1. trace \in Seq(StepType)
  BY DEF TraceShape
<1> QED
  BY <1>1

\* A write whose address one of the loads has comes before the source.
LEMMA SourceIsLast ==
    ASSUME AddrInv, NEW step \in InstSteps, NEW w, ReadFrom(trace, w, step),
           NEW q \in step.loads, NEW k \in 1 .. Len(trace), StoresTo(k, q[1]), k # w
    PROVE  k < w
<1>1. /\ trace[k] \in StepType /\ step \in StepType /\ trace[k].store # {}
      /\ DOMAIN trace = 1 .. Len(trace)
  BY TraceFacts, InstStepFacts DEF AddrInv, StoresTo
<1>2. SomeSameAddr(trace[k].store, step.loads)
  BY DEF StoresTo, SomeSameAddr
<1>3. MemVarSameAddress(Hinted(step, "READ"), Hinted(trace[k], "WRITE"))
  BY <1>1, <1>2, HintFacts DEF MemVarSameAddress
<1>4. SameAddress(step, trace[k], "READ", "WRITE")
  BY <1>3 DEF SameAddress
<1> QED
  BY <1>1, <1>4 DEF ReadFrom

\* What the axiom says of a source that is not the initial step of a memory.
LEMMA SourceIsStore ==
    ASSUME AddrInv, NEW step \in InstSteps, NEW w, ReadFrom(trace, w, step),
           step.loads # {}, isMem => w # 1
    PROVE  /\ w \in 1 .. Len(trace) /\ trace[w].store # {}
           /\ isMem => SomeSameAddr(trace[w].store, step.loads)
           /\ DataAgree(trace[w].store, step.loads)
<1>1. /\ w \in 1 .. Len(trace) /\ trace[w] \in StepType /\ step \in StepType /\ step.init = FALSE
      /\ trace[w].init \/ trace[w].store # {}
      /\ SameAddress(trace[w], step, "WRITE", "READ")
      /\ SameData(trace[w], step, "WRITE", "READ")
  BY TraceFacts, InstStepFacts DEF AddrInv, ReadFrom
<1>2. trace[w].store # {} /\ (isMem => ~trace[w].init)
  BY <1>1 DEF AddrInv, TraceShape
<1>3. PairsAgree(Hinted(trace[w], "WRITE"), Hinted(step, "READ"))
  <2>1. CASE isMem
    BY <1>1, <1>2, <2>1, HintFacts DEF SameData, MemVarSameData
  <2>2. CASE ~isMem
    BY <1>1, <2>2 DEF SameData, NonMemVarSameData
  <2> QED
    BY <2>1, <2>2
<1>4. DataAgree(trace[w].store, step.loads)
  BY <1>1, <1>2, <1>3, HintFacts DEF PairsAgree
<1>5. ASSUME isMem PROVE SomeSameAddr(trace[w].store, step.loads)
  <2>1. MemVarSameAddress(Hinted(trace[w], "WRITE"), Hinted(step, "READ"))
    BY <1>1, <1>2, <1>5 DEF SameAddress
  <2> QED
    BY <1>1, <1>2, <2>1, HintFacts DEF MemVarSameAddress
<1> QED
  BY <1>1, <1>2, <1>4, <1>5

\* A load returns what the cell holds, or the step has another load, from the
\* address that was stored to later than any store to the address of this one.
LEMMA LoadTied ==
    ASSUME AddrInv, NEW step \in InstSteps, NEW w, ReadFrom(trace, w, step), NEW q \in step.loads
    PROVE  \/ cells[q[1]] = q[2]
           \/ \E p \in step.loads : \E k \in 1 .. Len(trace) :
                /\ StoresTo(k, p[1])
                /\ \A j \in 1 .. Len(trace) : StoresTo(j, q[1]) => j < k
<1>1. q[1] \in MemCells /\ q[1] \in Addrs /\ step \in StepType /\ step.init = FALSE
  BY InstStepFacts, CellFacts
<1>2. CASE isMem /\ w = 1
  <2>1. /\ trace[1] \in StepType /\ trace[1].init /\ trace[1].store = {}
        /\ SameData(trace[1], step, "WRITE", "READ")
    BY <1>2 DEF AddrInv, TraceShape, ReadFrom
  <2>2. Zero[q[1]] = q[2]
    BY <1>1, <1>2, <2>1, HintFacts DEF SameData, MemVarSameData
  <2>3. \A k \in 1 .. Len(trace) : ~StoresTo(k, q[1])
    <3> SUFFICES ASSUME NEW k \in 1 .. Len(trace), StoresTo(k, q[1]) PROVE FALSE
      OBVIOUS
    <3>1. k # 1
      BY <2>1 DEF StoresTo
    <3> QED
      BY <1>2, <3>1, SourceIsLast
  <2> QED
    BY <1>1, <2>2, <2>3 DEF AddrInv, CellsLatest
<1>3. CASE ~(isMem /\ w = 1)
  <2>1. /\ w \in 1 .. Len(trace) /\ trace[w].store # {} /\ trace[w].store \in StorePairs
        /\ isMem => SomeSameAddr(trace[w].store, step.loads)
        /\ DataAgree(trace[w].store, step.loads)
    BY <1>3, SourceIsStore DEF AddrInv, TraceShape
  <2>2. PICK s \in trace[w].store : trace[w].store = {s}
    BY <2>1, CellFacts
  <2>3. s[1] \in MemCells
    BY <2>1, CellFacts
  <2>4. CASE s[1] = q[1]
    <3>1. s[2] = q[2]
      BY <2>1, <2>4 DEF DataAgree
    <3>2. \A j \in 1 .. Len(trace) : StoresTo(j, q[1]) => j <= w
      BY <2>1, SourceIsLast
    <3> QED
      BY <1>1, <2>1, <2>4, <3>1, <3>2 DEF AddrInv, CellsLatest
  <2>5. CASE s[1] # q[1]
    <3>1. isMem
      BY <1>1, <2>3, <2>5, CellFacts DEF AddrInv, TraceShape
    <3>2. PICK p \in step.loads : s[1] = p[1]
      BY <2>1, <2>2, <3>1 DEF SomeSameAddr
    <3>3. StoresTo(w, p[1])
      BY <3>2 DEF StoresTo
    <3>4. \A j \in 1 .. Len(trace) : StoresTo(j, q[1]) => j < w
      BY <2>2, <2>5, SourceIsLast DEF StoresTo
    <3> QED
      BY <2>1, <3>3, <3>4
  <2> QED
    BY <2>4, <2>5
<1> QED
  BY <1>2, <1>3

-----------------------------------------------------------------------------
LEMMA AddrInitial == AddrInit => AddrInv
<1> SUFFICES ASSUME AddrInit PROVE AddrInv
  OBVIOUS
<1>1. /\ trace = <<InitialStep>> /\ isMem \in BOOLEAN /\ cells = Zero /\ stray = {}
      /\ trace \in Seq(StepType) /\ Len(trace) = 1 /\ trace[1] = InitialStep
  BY InitialStepFacts DEF AddrInit
<1>2. TraceShape
  BY <1>1, InitialStepFacts DEF TraceShape
<1>3. CellsLatest
  <2> SUFFICES ASSUME NEW p \in trace[1].store PROVE Zero[p[1]] = p[2]
    BY <1>1 DEF CellsLatest
  <2> QED
    BY <1>2 DEF TraceShape
<1>4. StrayInTrace /\ LoadsLatestStore
  BY <1>1 DEF StrayInTrace, LoadsLatestStore
<1> QED
  BY <1>2, <1>3, <1>4 DEF AddrInv

LEMMA AddrStep == AddrInv /\ [AddrNext]_addrVars => AddrInv'
<1> SUFFICES ASSUME AddrInv, [AddrNext]_addrVars PROVE AddrInv'
  OBVIOUS
<1>1. ASSUME NEW step \in InstSteps, AppendStep(step) PROVE AddrInv'
  <2> DEFINE n == Len(trace)
  <2>1. /\ trace' = Append(trace, step) /\ isMem' = isMem
        /\ cells' = [a \in Addrs |-> IF \E p \in step.store : p[1] = a
                                     THEN (CHOOSE p \in step.store : TRUE)[2] ELSE cells[a]]
        /\ stray' = stray \cup
              {<<n + 1, p[1]>> : p \in {q \in step.loads : cells[q[1]] # q[2]}}
    BY <1>1 DEF AppendStep
  <2>2. /\ step \in StepType /\ step.init = FALSE /\ step.store \in StorePairs
        /\ trace \in Seq(StepType) /\ n \in Nat /\ n >= 1
    BY TraceFacts, InstStepFacts DEF AddrInv, TraceShape
  <2>3. /\ trace' \in Seq(StepType) /\ Len(trace') = n + 1 /\ trace'[n + 1] = step
        /\ \A k \in 1 .. n : trace'[k] = trace[k]
    BY <2>1, <2>2
  <2> HIDE DEF n
  <2>4. TraceShape'
    <3>1. StorePairs' = StorePairs /\ Zero' = Zero
      BY <2>1 DEF StorePairs, MemCells, Zero
    <3>2. ASSUME NEW k \in 1 .. n + 1
          PROVE  (trace'[k].init <=> k = 1) /\ trace'[k].store \in StorePairs
      <4>1. CASE k = n + 1
        BY <2>2, <2>3, <4>1
      <4>2. CASE k \in 1 .. n
        BY <2>3, <4>2 DEF AddrInv, TraceShape, n
      <4> QED
        BY <2>2, <4>1, <4>2
    <3>3. trace'[1] = trace[1]
      BY <2>2, <2>3
    <3> QED
      BY <2>1, <2>2, <2>3, <3>1, <3>2, <3>3 DEF AddrInv, TraceShape
  <2> DEFINE After(k, a) == \E p \in trace'[k].store : p[1] = a
  <2>5. \A a : /\ \A k \in 1 .. n : After(k, a) <=> StoresTo(k, a)
               /\ After(n + 1, a) <=> \E p \in step.store : p[1] = a
    BY <2>3 DEF StoresTo
  <2>6. CellsLatest'
    <3> SUFFICES ASSUME NEW a \in Addrs
                 PROVE  /\ (\A k \in 1 .. n + 1 : ~After(k, a)) => cells'[a] = Zero[a]
                        /\ \A k \in 1 .. n + 1 : \A p \in trace'[k].store :
                             p[1] = a /\ (\A j \in 1 .. n + 1 : After(j, a) => j <= k)
                               => cells'[a] = p[2]
      BY <2>3 DEF CellsLatest, StoresTo, Zero
    <3> HIDE DEF After
    <3>1. CASE \E p \in step.store : p[1] = a
      <4>1. PICK p \in step.store : step.store = {p} /\ p[1] = a
        BY <2>2, <3>1, CellFacts
      <4>2. cells'[a] = p[2]
        BY <2>1, <3>1, <4>1
      <4>3. After(n + 1, a)
        BY <2>5, <3>1
      <4>4. \A k \in 1 .. n + 1 : (\A j \in 1 .. n + 1 : After(j, a) => j <= k) => k = n + 1
        BY <2>2, <4>3
      <4> QED
        BY <2>2, <2>3, <4>1, <4>2, <4>3, <4>4
    <3>2. CASE ~ \E p \in step.store : p[1] = a
      <4>1. cells'[a] = cells[a]
        BY <2>1, <3>2
      <4>2. \A k \in 1 .. n + 1 : After(k, a) <=> k \in 1 .. n /\ StoresTo(k, a)
        <5> SUFFICES ASSUME NEW k \in 1 .. n + 1
                     PROVE  After(k, a) <=> k \in 1 .. n /\ StoresTo(k, a)
          OBVIOUS
        <5>1. CASE k \in 1 .. n
          BY <2>5, <5>1
        <5>2. CASE k = n + 1
          <6>1. ~ After(n + 1, a)
            BY <2>5, <3>2
          <6>2. n + 1 \notin 1 .. n
            BY <2>2
          <6> QED
            BY <5>2, <6>1, <6>2
        <5> QED
          BY <2>2, <5>1, <5>2
      <4>3. (\A k \in 1 .. n + 1 : ~After(k, a)) => cells'[a] = Zero[a]
        BY <2>2, <4>1, <4>2 DEF AddrInv, CellsLatest, n
      <4>4. ASSUME NEW k \in 1 .. n + 1, NEW p \in trace'[k].store, p[1] = a,
                   \A j \in 1 .. n + 1 : After(j, a) => j <= k
            PROVE  cells'[a] = p[2]
        <5>1. k \in 1 .. n
          BY <2>2, <2>3, <3>2, <4>4
        <5>2. p \in trace[k].store
          BY <2>3, <4>4, <5>1
        <5>3. \A j \in 1 .. n : StoresTo(j, a) => j <= k
          BY <2>2, <4>2, <4>4
        <5> QED
          BY <4>1, <4>4, <5>1, <5>2, <5>3 DEF AddrInv, CellsLatest, n
      <4> QED
        BY <4>3, <4>4
    <3> QED
      BY <3>1, <3>2
  <2>7. StrayInTrace'
    BY <2>1, <2>2, <2>3 DEF AddrInv, StrayInTrace, n
  <2>8. LoadsLatestStore'
    <3> DEFINE Tied(s, t) ==
                 \E p \in t[s[1]].loads :
                   \E k \in {i \in 1 .. s[1] - 1 : \E x \in t[i].store : x[1] = p[1]} :
                     \A j \in {i \in 1 .. s[1] - 1 : \E x \in t[i].store : x[1] = s[2]} : j < k
    <3>1. ASSUME NEW s \in stray PROVE Tied(s, trace')
      <4>1. Tied(s, trace)
        BY DEF AddrInv, LoadsLatestStore
      <4>2. s[1] \in 1 .. n
        BY DEF AddrInv, StrayInTrace, n
      <4>3. trace'[s[1]] = trace[s[1]] /\ \A k \in 1 .. s[1] - 1 : trace'[k] = trace[k]
        BY <2>2, <2>3, <4>2
      <4> QED
        BY <4>1, <4>3
    <3>2. ASSUME NEW q \in step.loads, cells[q[1]] # q[2] PROVE Tied(<<n + 1, q[1]>>, trace')
      <4>1. PICK w : ReadFrom(trace, w, step)
        BY <1>1, <3>2 DEF AppendStep
      <4>2. PICK p \in step.loads : \E k \in 1 .. n :
              StoresTo(k, p[1]) /\ \A j \in 1 .. n : StoresTo(j, q[1]) => j < k
        BY <3>2, <4>1, LoadTied DEF n
      <4>3. PICK k \in 1 .. n :
              StoresTo(k, p[1]) /\ \A j \in 1 .. n : StoresTo(j, q[1]) => j < k
        BY <4>2
      <4>4. (n + 1) - 1 = n /\ \A i \in 1 .. n : trace'[i] = trace[i]
        BY <2>2, <2>3
      <4>5. p \in trace'[n + 1].loads
        BY <2>3
      <4>6. k \in {i \in 1 .. n : \E x \in trace'[i].store : x[1] = p[1]}
        BY <4>3, <4>4 DEF StoresTo
      <4>7. \A j \in {i \in 1 .. n : \E x \in trace'[i].store : x[1] = q[1]} : j < k
        BY <4>3, <4>4 DEF StoresTo
      <4> QED
        BY <4>4, <4>5, <4>6, <4>7
    <3>3. \A s \in stray' : Tied(s, trace')
      <4> HIDE DEF Tied
      <4> QED
        BY <2>1, <3>1, <3>2
    <3> QED
      BY <3>3 DEF LoadsLatestStore
  <2> QED
    BY <2>4, <2>6, <2>7, <2>8 DEF AddrInv
<1>2. CASE UNCHANGED addrVars
  BY <1>2 DEF addrVars, AddrInv, TraceShape, CellsLatest, StrayInTrace, LoadsLatestStore, StoresTo,
     StorePairs, MemCells, Zero
<1> QED
  BY <1>1, <1>2 DEF AddrNext, AddrEnd

\* A load returns what the latest store to its address has left there, except
\* in a step with several loads, where only those from the address stored to
\* last are tied: for any addresses, any data and traces of any length.
THEOREM AddrLoadsLatest == AddrSpec => []LoadsLatestStore
<1>1. AddrInv => LoadsLatestStore
  BY DEF AddrInv
<1> QED
  BY AddrInitial, AddrStep, <1>1, PTL DEF AddrSpec
=============================================================================
