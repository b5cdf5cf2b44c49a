-------------------------- MODULE ScMachineProofs ---------------------------
(***************************************************************************)
(* For every program template: the runs of ScMachine satisfy the           *)
(* constraints of sc_manual.cc, and a solution of those is, after          *)
(* stretching the time stamps, a solution of the constraints of            *)
(* tso_manual.cc.                                                          *)
(***************************************************************************)
EXTENDS ScMachine, TLAPS

-----------------------------------------------------------------------------
(* Facts about the step sets.                                               *)

LEMMA StepFacts ==
    /\ InitStep \in Steps /\ FinalStep \in Steps
    /\ Inst \subseteq Steps
    /\ InitStep \notin Inst /\ FinalStep \notin Inst /\ InitStep # FinalStep
    /\ READ_list \subseteq Inst \cup {FinalStep}
    /\ WRITE_list \subseteq Inst \cup {InitStep}
    /\ \A i \in Inst : ReadSet(i) = InstRead[i] /\ WriteSet(i) = InstWrite[i]
    /\ WriteSet(InitStep) = Shared /\ ReadSet(FinalStep) = FinalRead
    /\ \A i \in Inst : InstWrite[i] \subseteq Shared
BY TemplateAssumption DEF Steps, READ_list, WRITE_list, ReadSet, WriteSet

LEMMA WriteListFacts ==
    /\ \A s \in Shared : InitStep \in WRITE_list
    /\ \A s \in Shared, i \in Inst : s \in InstWrite[i] => i \in WRITE_list
BY TemplateAssumption, StepFacts DEF WRITE_list

LEMMA ReadsFacts ==
    \A p \in Reads : /\ p[1] \in Inst \cup {FinalStep}
                     /\ p[2] \in Shared
                     /\ p[2] \in ReadSet(p[1])
BY StepFacts DEF Reads

-----------------------------------------------------------------------------
\* A solution of the SC constraints is one of the TSO constraints once the
\* time stamps are doubled and every store's facet event is put directly
\* behind the store (a read-modify-write keeps its own time stamp).
THEOREM ScAxiomsWithinTso ==
    ASSUME NEW t \in [Steps -> Nat], NEW dc \in [Steps -> BOOLEAN],
           NEW f \in [Reads -> WRITE_list], ScAxioms(t, dc, f)
    PROVE  TsoAxioms([x \in Steps |-> 2 * t[x]],
                     [w \in PureWrite_list \cup RMW_list |->
                        IF w \in RMW_list THEN 2 * t[w] ELSE 2 * t[w] + 1],
                     dc, f)
<1> DEFINE T == [x \in Steps |-> 2 * t[x]]
           G == [w \in PureWrite_list \cup RMW_list |->
                   IF w \in RMW_list THEN 2 * t[w] ELSE 2 * t[w] + 1]
<1> USE StepFacts
<1>0. /\ \A x \in Steps : t[x] \in Nat /\ T[x] = 2 * t[x]
      /\ \A w \in RMW_list : w \in Inst /\ G[w] = 2 * t[w]
      /\ \A w \in PureWrite_list : w \in Inst /\ G[w] = 2 * t[w] + 1
  BY TemplateAssumption DEF PureWrite_list
<1>a. \A w \in WRITE_list : w = InitStep \/ w \in PureWrite_list \/ w \in RMW_list
  BY DEF WRITE_list, PureWrite_list
<1>w. \A w \in WRITE_list : /\ w \in Steps
                            /\ WfeGlobal(T, G, w) \in Nat
                            /\ 2 * t[w] <= WfeGlobal(T, G, w)
                            /\ WfeGlobal(T, G, w) <= 2 * t[w] + 1
  BY <1>0, <1>a DEF WfeGlobal
<1> HIDE DEF T, G
<1>1. TimeStamps(T, dc) /\ \A w \in PureWrite_list \cup RMW_list : G[w] > 0
  BY <1>0 DEF ScAxioms, TimeStamps
<1>2. ProgramOrder(T) /\ FinalOrder(T)
  BY <1>0 DEF ScAxioms, ProgramOrder, FinalOrder
<1>3. TsoRfCoFr(T, G, dc, f)
  <2> SUFFICES ASSUME NEW p \in Reads
               PROVE  \E w \in Writers(p[1], p[2]) :
                         /\ f[p] = w
                         /\ dc[w]
                         /\ TsoRF(T, G, w, p[1])
                         /\ \A w2 \in Writers(p[1], p[2]) \ {w} :
                               dc[w2] => TsoCO(T, G, w2, w) \/ TsoFR(T, G, p[1], w2)
    BY DEF TsoRfCoFr, TsoReadsFrom
  <2>1. PICK w \in Writers(p[1], p[2]) :
           /\ f[p] = w
           /\ dc[w]
           /\ t[w] < t[p[1]]
           /\ \A w2 \in Writers(p[1], p[2]) \ {w} :
                 dc[w2] => t[w2] < t[w] \/ t[p[1]] < t[w2]
    BY DEF ScAxioms, ScRfCoFr, ScReadsFrom, ScRF, ScCO, ScFR
  <2>2. p[1] \in Steps /\ Writers(p[1], p[2]) \subseteq WRITE_list
    BY ReadsFacts DEF Writers
  <2>3. TsoRF(T, G, w, p[1])
    BY <1>0, <1>w, <2>1, <2>2 DEF TsoRF
  <2>4. ASSUME NEW w2 \in Writers(p[1], p[2]) \ {w}, dc[w2]
        PROVE  TsoCO(T, G, w2, w) \/ TsoFR(T, G, p[1], w2)
    <3>1. w \in WRITE_list /\ w2 \in WRITE_list
      BY <2>2
    <3>2. CASE t[w2] < t[w]
      BY <1>0, <1>w, <3>1, <3>2 DEF TsoCO
    <3>3. CASE t[p[1]] < t[w2]
      BY <1>0, <1>w, <2>2, <3>1, <3>3 DEF TsoFR
    <3> QED BY <2>1, <2>4, <3>2, <3>3
  <2> QED BY <2>1, <2>3, <2>4
<1>4. TSO_WriteFacetOrder(T, G)
  BY <1>0 DEF TSO_WriteFacetOrder
<1>5. TSO_Store(T, G)
  BY <1>0, <1>w DEF TSO_Store
<1>6. TSO_Fence(T, G)
  BY <1>0, <1>w, TemplateAssumption DEF TSO_Fence
<1>7. TSO_RMW(T, G)
  BY <1>0 DEF TSO_RMW
<1>8. TsoAxioms(T, G, dc, f)
  BY <1>1, <1>2, <1>3, <1>4, <1>5, <1>6, <1>7 DEF TsoAxioms
<1> QED BY <1>8 DEF T, G

-----------------------------------------------------------------------------
(* The inductive invariant.                                                 *)

\* Time stamps are handed out once each, in increasing order.
StampInv ==
    /\ ts[InitStep] = 0 /\ dec[InitStep]
    /\ \A i \in done : 0 < ts[i] /\ ts[i] <= clock
    /\ \A i \in Inst \ done : ~ dec[i]
    /\ \A i, j \in done : i # j => ts[i] # ts[j]
    /\ fin => /\ done = Inst
              /\ \A x \in Inst \cup {InitStep} : ts[x] < ts[FinalStep]

\* A core that is linked in order executes its template from the front.
OrderInv ==
    \A i, j \in Inst :
       CoreOf[i] = CoreOf[j] /\ CoreOf[i] \in Ordered /\ Pos[i] < Pos[j] /\ j \in done
          => i \in done /\ ts[i] < ts[j]

\* The memory holds the data of the latest write.
MemInv ==
    \A s \in Shared :
       /\ mem[s] \in done \cup {InitStep}
       /\ s \in WriteSet(mem[s])
       /\ dec[mem[s]]
       /\ \A w \in done : dec[w] /\ s \in InstWrite[w] /\ w # mem[s]
                            => ts[w] < ts[mem[s]]

\* A read that has happened got its data from the latest write before it.
ReadInv ==
    \A p \in Reads :
       p[1] \in done \/ (p[1] = FinalStep /\ fin) =>
         /\ rf[p] \in done \cup {InitStep}
         /\ rf[p] # p[1]
         /\ p[2] \in WriteSet(rf[p])
         /\ dec[rf[p]]
         /\ ts[rf[p]] < ts[p[1]]
         /\ \A w \in done : dec[w] /\ p[2] \in InstWrite[w] /\ w # rf[p] /\ w # p[1]
                              => ts[w] < ts[rf[p]] \/ ts[p[1]] < ts[w]

IInv == TypeOK /\ StampInv /\ OrderInv /\ MemInv /\ ReadInv

-----------------------------------------------------------------------------
LEMMA InitIInv == Init => IInv
<1> SUFFICES ASSUME Init PROVE IInv
  OBVIOUS
<1>1. TypeOK
  <2>1. rf \in [Reads -> WRITE_list]
    <3> SUFFICES ASSUME NEW p \in Reads PROVE InitStep \in WRITE_list
      BY DEF Init
    <3> QED BY ReadsFacts, WriteListFacts
  <2>2. mem \in [Shared -> WRITE_list]
    BY WriteListFacts DEF Init
  <2> QED BY <2>1, <2>2 DEF Init, TypeOK
<1>2. StampInv
  BY StepFacts DEF Init, StampInv
<1>3. OrderInv
  BY DEF Init, OrderInv
<1>4. MemInv
  BY StepFacts DEF Init, MemInv
<1>5. ReadInv
  BY StepFacts, ReadsFacts DEF Init, ReadInv
<1> QED BY <1>1, <1>2, <1>3, <1>4, <1>5 DEF IInv

LEMMA ExecuteIInv ==
    ASSUME IInv, NEW i \in Inst, NEW d \in BOOLEAN, Execute(i, d)
    PROVE  IInv'
<1> USE StepFacts, WriteListFacts, ReadsFacts
<1> USE DEF IInv
<1>0. /\ i \notin done /\ i \in Steps
      /\ clock' = clock + 1 /\ clock \in Nat
      /\ ts \in [Steps -> Nat] /\ ts' = [ts EXCEPT ![i] = clock + 1]
      /\ dec \in [Steps -> BOOLEAN] /\ dec' = [dec EXCEPT ![i] = d]
      /\ done' = done \cup {i} /\ done \subseteq Inst
      /\ fin' = fin /\ ~fin
  BY DEF Execute, Ready, TypeOK, StampInv
<1>1. TypeOK'
  <2>1. rf' \in [Reads -> WRITE_list]
    BY DEF Execute, TypeOK
  <2>2. mem' \in [Shared -> WRITE_list]
    BY DEF Execute, TypeOK
  <2> QED BY <1>0, <2>1, <2>2 DEF TypeOK
<1>2. StampInv'
  BY <1>0 DEF StampInv, TypeOK
<1>3. OrderInv'
  <2> SUFFICES ASSUME NEW j \in Inst, NEW k \in Inst,
                      CoreOf[j] = CoreOf[k], CoreOf[j] \in Ordered,
                      Pos[j] < Pos[k], k \in done'
               PROVE  j \in done' /\ ts'[j] < ts'[k]
    BY DEF OrderInv
  <2>1. CASE k = i
    <3>1. j \in done
      BY <2>1, TemplateAssumption DEF Execute, Ready, SameCore, Host
    <3>2. ts[j] <= clock
      BY <3>1 DEF StampInv
    <3> QED BY <1>0, <2>1, <3>1, <3>2
  <2>2. CASE k # i
    <3>1. k \in done
      BY <2>2, <1>0
    <3>2. j \in done /\ ts[j] < ts[k]
      BY <3>1 DEF OrderInv
    <3> QED BY <1>0, <2>2, <3>2
  <2> QED BY <2>1, <2>2
<1>4. MemInv'
  <2> SUFFICES ASSUME NEW s \in Shared
               PROVE  /\ mem'[s] \in done' \cup {InitStep}
                      /\ s \in WriteSet(mem'[s])
                      /\ dec'[mem'[s]]
                      /\ \A w \in done' : dec'[w] /\ s \in InstWrite[w] /\ w # mem'[s]
                                            => ts'[w] < ts'[mem'[s]]
    BY DEF MemInv
  <2>1. mem'[s] = IF d /\ s \in InstWrite[i] THEN i ELSE mem[s]
    BY DEF Execute
  <2>2. /\ mem[s] \in done \cup {InitStep} /\ s \in WriteSet(mem[s]) /\ dec[mem[s]]
        /\ \A w \in done : dec[w] /\ s \in InstWrite[w] /\ w # mem[s]
                             => ts[w] < ts[mem[s]]
    BY DEF MemInv
  <2>3. CASE d /\ s \in InstWrite[i]
    <3>1. \A w \in done : ts[w] <= clock
      BY DEF StampInv
    <3> QED BY <1>0, <2>1, <2>3, <3>1
  <2>4. CASE ~ (d /\ s \in InstWrite[i])
    <3>1. mem'[s] = mem[s] /\ mem[s] # i /\ mem[s] \in Steps
      BY <1>0, <2>1, <2>2, <2>4
    <3>2. \A w \in done' : dec'[w] /\ s \in InstWrite[w] => w \in done /\ w # i
      BY <1>0, <2>4
    <3> QED BY <1>0, <2>2, <3>1, <3>2
  <2> QED BY <2>3, <2>4
<1>5. ReadInv'
  <2> SUFFICES ASSUME NEW p \in Reads, p[1] \in done' \/ (p[1] = FinalStep /\ fin')
               PROVE  /\ rf'[p] \in done' \cup {InitStep}
                      /\ rf'[p] # p[1]
                      /\ p[2] \in WriteSet(rf'[p])
                      /\ dec'[rf'[p]]
                      /\ ts'[rf'[p]] < ts'[p[1]]
                      /\ \A w \in done' :
                            dec'[w] /\ p[2] \in InstWrite[w] /\ w # rf'[p] /\ w # p[1]
                              => ts'[w] < ts'[rf'[p]] \/ ts'[p[1]] < ts'[w]
    BY DEF ReadInv
  <2>0. rf'[p] = IF p[1] = i THEN mem[p[2]] ELSE rf[p]
    BY DEF Execute
  <2>1. CASE p[1] = i
    <3>1. rf'[p] = mem[p[2]]
      BY <2>0, <2>1
    <3>2. /\ mem[p[2]] \in done \cup {InitStep} /\ p[2] \in WriteSet(mem[p[2]])
          /\ dec[mem[p[2]]]
          /\ \A w \in done : dec[w] /\ p[2] \in InstWrite[w] /\ w # mem[p[2]]
                               => ts[w] < ts[mem[p[2]]]
      BY DEF MemInv
    <3>3. ts[mem[p[2]]] <= clock /\ mem[p[2]] \in Steps /\ mem[p[2]] # i
      BY <1>0, <3>2 DEF StampInv
    <3> QED BY <1>0, <2>1, <3>1, <3>2, <3>3
  <2>2. CASE p[1] # i
    <3>1. rf'[p] = rf[p] /\ p[1] \in done
      BY <1>0, <2>0, <2>2
    <3>2. /\ rf[p] \in done \cup {InitStep} /\ rf[p] # p[1]
          /\ p[2] \in WriteSet(rf[p]) /\ dec[rf[p]] /\ ts[rf[p]] < ts[p[1]]
          /\ \A w \in done : dec[w] /\ p[2] \in InstWrite[w] /\ w # rf[p] /\ w # p[1]
                               => ts[w] < ts[rf[p]] \/ ts[p[1]] < ts[w]
      BY <3>1 DEF ReadInv
    <3>3. rf[p] # i /\ rf[p] \in Steps /\ p[1] \in Steps /\ ts[p[1]] <= clock
      BY <1>0, <3>1, <3>2 DEF StampInv
    <3> QED BY <1>0, <2>2, <3>1, <3>2, <3>3
  <2> QED BY <2>1, <2>2
<1> QED BY <1>1, <1>2, <1>3, <1>4, <1>5

LEMMA FinalIInv ==
    ASSUME IInv, Final
    PROVE  IInv'
<1> USE StepFacts, WriteListFacts, ReadsFacts
<1> USE DEF IInv
<1>0. /\ FinalStep \notin done /\ done = Inst
      /\ clock' = clock + 1 /\ clock \in Nat
      /\ ts \in [Steps -> Nat] /\ ts' = [ts EXCEPT ![FinalStep] = clock + 1]
      /\ dec' = dec /\ done' = done /\ mem' = mem /\ fin' /\ ~fin
  BY DEF Final, TypeOK
<1>1. TypeOK'
  <2>1. rf' \in [Reads -> WRITE_list]
    BY DEF Final, TypeOK
  <2> QED BY <1>0, <2>1 DEF TypeOK
<1>2. StampInv'
  BY <1>0 DEF StampInv, TypeOK
<1>3. OrderInv'
  BY <1>0 DEF OrderInv
<1>4. MemInv'
  BY <1>0 DEF MemInv
<1>5. ReadInv'
  <2> SUFFICES ASSUME NEW p \in Reads
               PROVE  /\ rf'[p] \in done \cup {InitStep}
                      /\ rf'[p] # p[1]
                      /\ p[2] \in WriteSet(rf'[p])
                      /\ dec[rf'[p]]
                      /\ ts'[rf'[p]] < ts'[p[1]]
                      /\ \A w \in done :
                            dec[w] /\ p[2] \in InstWrite[w] /\ w # rf'[p] /\ w # p[1]
                              => ts'[w] < ts'[rf'[p]] \/ ts'[p[1]] < ts'[w]
    BY <1>0 DEF ReadInv
  <2>0. rf'[p] = IF p[1] = FinalStep THEN mem[p[2]] ELSE rf[p]
    BY DEF Final
  <2>1. CASE p[1] = FinalStep
    BY <1>0, <2>0, <2>1 DEF MemInv, StampInv
  <2>2. CASE p[1] # FinalStep
    BY <1>0, <2>0, <2>2 DEF ReadInv
  <2> QED BY <2>1, <2>2
<1> QED BY <1>1, <1>2, <1>3, <1>4, <1>5

LEMMA NextIInv == IInv /\ [Next]_vars => IInv'
<1> SUFFICES ASSUME IInv, [Next]_vars PROVE IInv'
  OBVIOUS
<1>1. CASE \E i \in Inst, d \in BOOLEAN : Execute(i, d)
  BY <1>1, ExecuteIInv
<1>2. CASE Final
  BY <1>2, FinalIInv
<1>3. CASE Terminated \/ UNCHANGED vars
  BY <1>3 DEF Terminated, vars, IInv, TypeOK, StampInv, OrderInv, MemInv, ReadInv
<1> QED BY <1>1, <1>2, <1>3 DEF Next

-----------------------------------------------------------------------------
\* The machine keeps its variables in their types.
THEOREM TypeCorrect == Spec => []TypeOK
<1>1. IInv => TypeOK
  BY DEF IInv
<1> QED BY InitIInv, NextIInv, <1>1, PTL DEF Spec

LEMMA IInvGivesAxioms == IInv /\ fin => ScAxioms(ts, dec, rf)
<1> SUFFICES ASSUME IInv, fin PROVE ScAxioms(ts, dec, rf)
  OBVIOUS
<1> USE StepFacts, WriteListFacts, ReadsFacts
<1> USE DEF IInv
<1>0. done = Inst /\ ts \in [Steps -> Nat]
  BY DEF StampInv, TypeOK
<1>1. TimeStamps(ts, dec)
  BY <1>0 DEF StampInv, TimeStamps
<1>2. ProgramOrder(ts)
  BY <1>0, TemplateAssumption DEF OrderInv, ProgramOrder, SameCore, Host
<1>3. FinalOrder(ts)
  BY DEF StampInv, FinalOrder
<1>4. ScRfCoFr(ts, dec, rf)
  <2> SUFFICES ASSUME NEW p \in Reads
               PROVE  /\ rf[p] \in Writers(p[1], p[2])
                      /\ dec[rf[p]]
                      /\ ts[rf[p]] < ts[p[1]]
                      /\ \A w2 \in Writers(p[1], p[2]) \ {rf[p]} :
                            dec[w2] => ts[w2] < ts[rf[p]] \/ ts[p[1]] < ts[w2]
    BY DEF ScRfCoFr, ScReadsFrom, ScRF, ScCO, ScFR
  <2>1. /\ rf[p] \in Inst \cup {InitStep} /\ rf[p] # p[1]
        /\ p[2] \in WriteSet(rf[p]) /\ dec[rf[p]] /\ ts[rf[p]] < ts[p[1]]
        /\ \A w \in Inst : dec[w] /\ p[2] \in InstWrite[w] /\ w # rf[p] /\ w # p[1]
                             => ts[w] < ts[rf[p]] \/ ts[p[1]] < ts[w]
    BY <1>0 DEF ReadInv
  <2>2. rf[p] \in Writers(p[1], p[2])
    BY <2>1 DEF Writers
  <2>3. ASSUME NEW w2 \in Writers(p[1], p[2]) \ {rf[p]}, dec[w2]
        PROVE  ts[w2] < ts[rf[p]] \/ ts[p[1]] < ts[w2]
    <3>1. w2 \in Inst \cup {InitStep} /\ w2 # p[1] /\ p[2] \in WriteSet(w2)
      BY DEF Writers
    <3>2. CASE w2 \in Inst
      BY <2>1, <2>3, <3>1, <3>2
    <3>3. CASE w2 = InitStep
      <4>1. rf[p] \in Inst
        BY <2>1, <3>3
      <4> QED BY <1>0, <3>3, <4>1 DEF StampInv
    <3> QED BY <3>1, <3>2, <3>3
  <2> QED BY <2>1, <2>2, <2>3
<1> QED BY <1>1, <1>2, <1>3, <1>4 DEF ScAxioms

\* Every complete run of the sequentially consistent machine, for every
\* program template, solves the constraints of Sc::ApplyAxioms.
THEOREM ScSoundness == Spec => []ScSound
<1>1. IInv => ScSound
  BY IInvGivesAxioms DEF ScSound
<1> QED BY InitIInv, NextIInv, <1>1, PTL DEF Spec

-----------------------------------------------------------------------------
\* Along every run of the machine the stretched schedule solves the TSO
\* constraints: the SC model never allows what the TSO model forbids.
THEOREM ScRunsWithinTso == Spec => []ScWithinTso
<1>1. IInv => ScWithinTso
  <2> SUFFICES ASSUME IInv, fin
               PROVE  TsoAxioms([x \in Steps |-> 2 * ts[x]],
                                [w \in PureWrite_list \cup RMW_list |->
                                   IF w \in RMW_list THEN 2 * ts[w] ELSE 2 * ts[w] + 1],
                                dec, rf)
    BY DEF ScWithinTso
  <2>1. ts \in [Steps -> Nat] /\ dec \in [Steps -> BOOLEAN] /\ rf \in [Reads -> WRITE_list]
    BY DEF IInv, TypeOK
  <2> QED BY <2>1, IInvGivesAxioms, ScAxiomsWithinTso
<1> QED BY InitIInv, NextIInv, <1>1, PTL DEF Spec
=============================================================================
