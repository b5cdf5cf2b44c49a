-------------------------- MODULE TsoMachineProofs --------------------------
(***************************************************************************)
(* For every program template, the runs of the store-buffer machine        *)
(* satisfy the constraints of tso_manual.cc.  The axioms speak of complete *)
(* executions; the invariant says the same of the part that has happened,  *)
(* where a store that is still in a buffer counts as later than any facet  *)
(* event so far.  Coherence is a consequence of the axioms alone.          *)
(***************************************************************************)
EXTENDS TsoMachine, TLAPS

-----------------------------------------------------------------------------
(* Facts about the step sets.                                               *)

LEMMA StepFacts ==
    /\ InitStep \in Steps /\ FinalStep \in Steps
    /\ Inst \subseteq Steps
    /\ InitStep \notin Inst /\ FinalStep \notin Inst /\ InitStep # FinalStep
    /\ READ_list \subseteq Inst \cup {FinalStep}
    /\ WRITE_list \subseteq Inst \cup {InitStep}
    /\ \A i \in Inst : ReadSet(i) = InstRead[i] /\ WriteSet(i) = InstWrite[i]
    /\ WriteSet(InitStep) = Shared /\ ReadSet(FinalStep) = FinalRead
    /\ \A i \in Inst : InstWrite[i] \subseteq Shared
BY TemplateAssumption DEF Steps, READ_list, WRITE_list, ReadSet, WriteSet

LEMMA WriteListFacts ==
    /\ \A s \in Shared : InitStep \in WRITE_list
    /\ \A s \in Shared, i \in Inst : s \in InstWrite[i] => i \in WRITE_list
BY TemplateAssumption, StepFacts DEF WRITE_list

LEMMA ReadsFacts ==
    \A p \in Reads : /\ p[1] \in Inst \cup {FinalStep}
                     /\ p[2] \in Shared
                     /\ p[2] \in ReadSet(p[1])
BY StepFacts DEF Reads

-----------------------------------------------------------------------------
\* Coherence follows from the TSO constraints alone: if a core reads the same
\* state twice and the two reads take their data from different writes, then
\* CO orders the source of the earlier read before the source of the later.
THEOREM TsoCoherence ==
    ASSUME NEW t \in [Steps -> Nat], NEW h \in [PureWrite_list \cup RMW_list -> Nat],
           NEW dc \in [Steps -> BOOLEAN], NEW f \in [Reads -> WRITE_list],
           TsoAxioms(t, h, dc, f),
           NEW p \in Reads, NEW q \in Reads,
           p[2] = q[2], SameCore(p[1], q[1]), t[p[1]] < t[q[1]], f[p] # f[q]
    PROVE  TsoCO(t, h, f[p], f[q])
<1> USE StepFacts
<1>1. /\ f[p] \in Writers(p[1], p[2]) /\ dc[f[p]] /\ TsoRF(t, h, f[p], p[1])
      /\ f[q] \in Writers(q[1], q[2])
      /\ \A w2 \in Writers(q[1], q[2]) \ {f[q]} :
            dc[w2] => TsoCO(t, h, w2, f[q]) \/ TsoFR(t, h, q[1], w2)
  BY DEF TsoAxioms, TsoRfCoFr, TsoReadsFrom
<1>2. f[p] \in WRITE_list /\ f[p] \in Steps /\ p[2] \in WriteSet(f[p])
  BY <1>1 DEF Writers
<1>3. WfeGlobal(t, h, f[p]) \in Nat
  BY <1>2 DEF WfeGlobal, WRITE_list, PureWrite_list
<1>4. p[1] \in Steps /\ q[1] \in Steps
  BY ReadsFacts
<1>5. f[p] # q[1]
  BY <1>1, <1>2, <1>4 DEF TsoRF, SameCore
<1>6. f[p] \in Writers(q[1], q[2]) \ {f[q]}
  BY <1>2, <1>5 DEF Writers
<1>7. ~ TsoFR(t, h, q[1], f[p])
  BY <1>1, <1>2, <1>3, <1>4 DEF TsoRF, TsoFR, SameCore
<1> QED BY <1>1, <1>6, <1>7

-----------------------------------------------------------------------------
(* The inductive invariant.                                                 *)

Happened(x) == x \in done \/ (x = FinalStep /\ fin)

\* Every event takes a time stamp of its own; a read-modify-write and its
\* facet event are one event.
StampInv ==
    /\ ts[InitStep] = 0 /\ dec[InitStep]
    /\ \A i \in done : 0 < ts[i] /\ ts[i] <= clock
    /\ \A i \in Inst \ done : ~ dec[i]
    /\ \A i, j \in done : i # j => ts[i] # ts[j]
    /\ RMW_list \cap done \subseteq flushed
    /\ \A w \in flushed : /\ 0 < g[w] /\ g[w] <= clock
                          /\ IF w \in RMW_list THEN g[w] = ts[w] ELSE ts[w] < g[w]
    /\ fin => /\ done = Inst
              /\ \A x \in Inst \cup {InitStep} : ts[x] < ts[FinalStep]
              /\ ts[FinalStep] <= clock

OrderInv ==
    \A i, j \in Inst :
       CoreOf[i] = CoreOf[j] /\ CoreOf[i] \in Ordered /\ Pos[i] < Pos[j] /\ j \in done
          => i \in done /\ ts[i] < ts[j]

\* The buffer of a core is emptied from its old end.
FifoInv ==
    \A v, w \in Stores \cap done :
       CoreOf[v] = CoreOf[w] /\ ts[v] < ts[w] /\ w \in flushed
          => v \in flushed /\ g[v] < g[w]

\* A fence is passed with an empty buffer.
FenceInv ==
    \A f \in FENCE_list \cap done, w \in Stores \cap done :
       CoreOf[w] = CoreOf[f] /\ ts[w] < ts[f] => w \in flushed /\ g[w] < ts[f]

\* The memory holds the data of the last store to be flushed.
MemInv ==
    \A s \in Shared :
       /\ mem[s] \in flushed \cup {InitStep}
       /\ s \in WriteSet(mem[s])
       /\ dec[mem[s]]
       /\ \A w \in flushed : dec[w] /\ s \in InstWrite[w] /\ w # mem[s]
                               => mem[s] \in flushed /\ g[w] < g[mem[s]]

\* RF, CO and FR of tso_manual.cc for the events so far.
PartRF(w, r) ==
    IF SameCore(w, r) THEN ts[w] < ts[r]
    ELSE w = InitStep \/ (w \in flushed /\ g[w] < ts[r])
PartCO(v, w) ==
    IF SameCore(v, w) THEN ts[v] < ts[w]
    ELSE /\ v \in flushed
         /\ w \in done /\ (w \in flushed => g[v] < g[w])
PartFR(r, w) ==
    IF SameCore(r, w) THEN ts[r] < ts[w]
    ELSE w \in flushed => ts[r] < g[w]

ReadInv ==
    \A p \in Reads :
       Happened(p[1]) =>
         /\ rf[p] \in done \cup {InitStep}
         /\ rf[p] # p[1]
         /\ p[2] \in WriteSet(rf[p])
         /\ dec[rf[p]]
         /\ PartRF(rf[p], p[1])
         /\ \A w \in done : dec[w] /\ p[2] \in InstWrite[w] /\ w # rf[p] /\ w # p[1]
                              => PartCO(w, rf[p]) \/ PartFR(p[1], w)

IInv == /\ TypeOK /\ StampInv /\ OrderInv
        /\ FifoInv /\ FenceInv /\ MemInv /\ ReadInv

-----------------------------------------------------------------------------
LEMMA StoreFacts ==
    /\ Stores \subseteq Inst
    /\ RMW_list \subseteq Stores /\ PureWrite_list \subseteq Stores
    /\ \A w \in Stores : w \in RMW_list \/ w \in PureWrite_list
    /\ \A w \in PureWrite_list : w \notin RMW_list
    /\ \A i \in Inst, s \in Shared : s \in InstWrite[i] => i \in Stores
    /\ WRITE_list \ {InitStep} \subseteq Stores
    /\ FENCE_list \subseteq Inst
BY TemplateAssumption DEF Stores, PureWrite_list, WRITE_list, WriteSet

LEMMA HostFacts ==
    /\ \A i, j \in Inst : SameCore(i, j) <=> CoreOf[i] = CoreOf[j]
    /\ \A i \in Inst : ~ SameCore(i, InitStep) /\ ~ SameCore(InitStep, i)
                    /\ ~ SameCore(i, FinalStep) /\ ~ SameCore(FinalStep, i)
    /\ SameCore(InitStep, FinalStep)
BY TemplateAssumption DEF SameCore, Host

LEMMA InitIInv == Init => IInv
<1> SUFFICES ASSUME Init PROVE IInv
  OBVIOUS
<1>1. TypeOK
  <2>1. rf \in [Reads -> WRITE_list]
    <3> SUFFICES ASSUME NEW p \in Reads PROVE InitStep \in WRITE_list
      BY DEF Init
    <3> QED BY ReadsFacts, WriteListFacts
  <2>2. mem \in [Shared -> WRITE_list]
    BY WriteListFacts DEF Init
  <2> QED BY <2>1, <2>2 DEF Init, TypeOK
<1>2. StampInv
  BY StepFacts DEF Init, StampInv
<1>3. OrderInv /\ FifoInv /\ FenceInv
  BY DEF Init, OrderInv, FifoInv, FenceInv
<1>4. MemInv
  BY StepFacts DEF Init, MemInv
<1>5. ReadInv
  BY StepFacts, ReadsFacts DEF Init, ReadInv, Happened
<1> QED BY <1>1, <1>2, <1>3, <1>4, <1>5 DEF IInv

-----------------------------------------------------------------------------
\* What a read finds, be it in the buffer of core c or in the memory, is the
\* latest write that core c can see.
LEMMA VisibleIsLatest ==
    ASSUME IInv, NEW c \in Cores, NEW s \in Shared, NEW w, Visible(c, s, w)
    PROVE  /\ w \in done \cup {InitStep}
           /\ s \in WriteSet(w)
           /\ dec[w]
           /\ w \in flushed \/ w = InitStep \/ (w \in Inst /\ CoreOf[w] = c)
           /\ \A v \in done : dec[v] /\ s \in InstWrite[v] /\ v # w
                => PartCO(v, w) \/ (CoreOf[v] # c /\ v \notin flushed)
<1> USE StepFacts, StoreFacts, HostFacts
<1>t. /\ ts \in [Steps -> Nat] /\ g \in [Stores -> Nat] /\ done \subseteq Inst
      /\ flushed \subseteq Stores /\ flushed \subseteq done
  BY DEF IInv, TypeOK
<1>1. CASE Forwardable(c, s) = {}
  <2>1. w = mem[s]
    BY <1>1 DEF Visible
  <2>2. /\ w \in flushed \cup {InitStep} /\ s \in WriteSet(w) /\ dec[w]
        /\ \A v \in flushed : dec[v] /\ s \in InstWrite[v] /\ v # w
                                => w \in flushed /\ g[v] < g[w]
    BY <2>1 DEF IInv, MemInv
  <2>3. ASSUME NEW v \in done, dec[v], s \in InstWrite[v], v # w
        PROVE  PartCO(v, w) \/ (CoreOf[v] # c /\ v \notin flushed)
    <3>1. CASE v \in flushed
      <4>1. w \in flushed /\ g[v] < g[w]
        BY <2>2, <2>3, <3>1
      <4>2. CASE CoreOf[v] = CoreOf[w]
        <5>1. ts[v] # ts[w]
          BY <1>t, <2>3, <4>1 DEF IInv, StampInv
        <5>2. ~ (ts[w] < ts[v])
          BY <1>t, <3>1, <4>1, <4>2 DEF IInv, FifoInv
        <5>3. ts[v] < ts[w]
          BY <1>t, <4>1, <5>1, <5>2
        <5> QED BY <1>t, <4>1, <4>2, <5>3 DEF PartCO
      <4>3. CASE CoreOf[v] # CoreOf[w]
        BY <1>t, <3>1, <4>1, <4>3 DEF PartCO
      <4> QED BY <4>2, <4>3
    <3>2. CASE v \notin flushed
      <4>1. v \in PureWrite_list
        BY <1>t, <2>3, <3>2 DEF IInv, StampInv
      <4>2. CoreOf[v] # c
        BY <1>1, <2>3, <3>2, <4>1 DEF Forwardable, Pending
      <4> QED BY <3>2, <4>2
    <3> QED BY <3>1, <3>2
  <2> QED BY <1>t, <2>2, <2>3
<1>2. CASE Forwardable(c, s) # {}
  <2>1. /\ w \in PureWrite_list /\ w \in done /\ w \notin flushed /\ CoreOf[w] = c
        /\ dec[w] /\ s \in InstWrite[w]
        /\ \A v \in Forwardable(c, s) : ts[v] <= ts[w]
    BY <1>2 DEF Visible, Forwardable, Pending
  <2>2. ASSUME NEW v \in done, dec[v], s \in InstWrite[v], v # w
        PROVE  PartCO(v, w) \/ (CoreOf[v] # c /\ v \notin flushed)
    <3>1. v \in Inst /\ w \in Inst /\ v \in Stores /\ ts[v] \in Nat /\ ts[w] \in Nat
      BY <1>t, <2>1, <2>2
    <3>2. ts[v] # ts[w]
      BY <2>1, <2>2 DEF IInv, StampInv
    <3>3. CASE CoreOf[v] = c
      <4>1. CASE v \in flushed
        <5>1. ~ (ts[w] < ts[v])
          BY <2>1, <2>2, <3>1, <3>3, <4>1 DEF IInv, FifoInv
        <5> QED BY <2>1, <3>1, <3>2, <3>3, <5>1 DEF PartCO
      <4>2. CASE v \notin flushed
        <5>1. v \in PureWrite_list
          BY <3>1, <2>2, <4>2 DEF IInv, StampInv
        <5>2. v \in Forwardable(c, s)
          BY <2>2, <3>3, <4>2, <5>1 DEF Forwardable, Pending
        <5>3. ts[v] < ts[w]
          BY <2>1, <3>1, <3>2, <5>2
        <5> QED BY <2>1, <3>1, <3>3, <5>3 DEF PartCO
      <4> QED BY <4>1, <4>2
    <3>4. CASE CoreOf[v] # c
      BY <2>1, <3>1, <3>4 DEF PartCO
    <3> QED BY <3>3, <3>4
  <2> QED BY <1>t, <2>1, <2>2
<1> QED BY <1>1, <1>2

-----------------------------------------------------------------------------
LEMMA ExecuteIInv ==
    ASSUME IInv, NEW i \in Inst, NEW d \in BOOLEAN, Execute(i, d)
    PROVE  IInv'
<1> USE StepFacts, StoreFacts, HostFacts
<1>t. /\ clock \in Nat /\ ts \in [Steps -> Nat] /\ g \in [Stores -> Nat]
      /\ dec \in [Steps -> BOOLEAN]
      /\ done \subseteq Inst /\ flushed \subseteq Stores /\ flushed \subseteq done
  BY DEF IInv, TypeOK
<1>0. /\ i \notin done /\ i \in Steps
      /\ clock' = clock + 1 /\ ts' = [ts EXCEPT ![i] = clock + 1]
      /\ dec' = [dec EXCEPT ![i] = d] /\ done' = done \cup {i}
      /\ fin' = fin /\ ~fin
  BY DEF Execute, Ready, IInv, StampInv
<1>g. /\ i \in RMW_list => /\ g' = [g EXCEPT ![i] = clock + 1]
                           /\ flushed' = flushed \cup {i}
      /\ i \notin RMW_list => g' = g /\ flushed' = flushed /\ mem' = mem
  BY DEF Execute
<1>s. PICK src \in [InstRead[i] -> WRITE_list] :
         /\ \A s \in InstRead[i] : Visible(CoreOf[i], s, src[s])
         /\ rf' = [p \in Reads |-> IF p[1] = i THEN src[p[2]] ELSE rf[p]]
  BY DEF Execute
<1>b. /\ \A j \in done : 0 < ts[j] /\ ts[j] <= clock /\ ts'[j] = ts[j] /\ dec'[j] = dec[j]
      /\ ts'[i] = clock + 1 /\ dec'[i] = d
      /\ ts'[InitStep] = 0 /\ ts[InitStep] = 0 /\ dec'[InitStep] = dec[InitStep]
      /\ \A w \in flushed : g[w] \in Nat /\ g[w] <= clock /\ g'[w] = g[w] /\ w \in flushed'
      /\ \A w \in flushed' : w = i \/ w \in flushed
      /\ i \in flushed' => i \in RMW_list /\ g'[i] = clock + 1
  <2>1. \A j \in done : 0 < ts[j] /\ ts[j] <= clock /\ ts'[j] = ts[j] /\ dec'[j] = dec[j]
    BY <1>t, <1>0 DEF IInv, StampInv
  <2>2. ts'[i] = clock + 1 /\ dec'[i] = d
    BY <1>t, <1>0
  <2>3. ts'[InitStep] = 0 /\ ts[InitStep] = 0 /\ dec'[InitStep] = dec[InitStep]
    BY <1>t, <1>0 DEF IInv, StampInv
  <2>4. \A w \in flushed : g[w] \in Nat /\ g[w] <= clock /\ w # i /\ w \in Stores
    BY <1>t, <1>0 DEF IInv, StampInv
  <2>5. \A w \in flushed : g'[w] = g[w] /\ w \in flushed'
    BY <1>t, <1>g, <2>4
  <2>6. \A w \in flushed' : w = i \/ w \in flushed
    BY <1>g
  <2>7. i \in flushed' => i \in RMW_list /\ g'[i] = clock + 1
    BY <1>t, <1>g, <2>4
  <2> QED BY <2>1, <2>2, <2>3, <2>4, <2>5, <2>6, <2>7
<1>p. i \in FENCE_list \cup RMW_list =>
         \A w \in Stores \cap done : CoreOf[w] = CoreOf[i] => w \in flushed
  <2> SUFFICES ASSUME i \in FENCE_list \cup RMW_list, NEW w \in Stores \cap done,
                      CoreOf[w] = CoreOf[i]
               PROVE  w \in flushed
    OBVIOUS
  <2>1. Pending(CoreOf[i]) = {}
    BY DEF Execute, Ready
  <2> QED BY <2>1 DEF Pending, IInv, StampInv
<1>1. TypeOK'
  <2>1. rf' \in [Reads -> WRITE_list]
    BY <1>s, ReadsFacts DEF IInv, TypeOK
  <2>2. mem' \in [Shared -> WRITE_list]
    BY WriteListFacts DEF IInv, TypeOK, Execute, WriteBack
  <2>3. /\ g' \in [Stores -> Nat] /\ flushed' \in SUBSET (Stores \cap done')
    BY <1>t, <1>0, <1>g
  <2> QED BY <1>t, <1>0, <2>1, <2>2, <2>3 DEF IInv, TypeOK
<1>2. StampInv'
  <2>1. \A j, k \in done' : j # k => ts'[j] # ts'[k]
    BY <1>t, <1>0, <1>b DEF IInv, StampInv
  <2>2. RMW_list \cap done' \subseteq flushed'
    BY <1>0, <1>g DEF IInv, StampInv
  <2>3. \A w \in flushed' : /\ 0 < g'[w] /\ g'[w] <= clock'
                            /\ IF w \in RMW_list THEN g'[w] = ts'[w] ELSE ts'[w] < g'[w]
    BY <1>t, <1>0, <1>b DEF IInv, StampInv
  <2>4. \A j \in Inst \ done' : ~ dec'[j]
    BY <1>t, <1>0 DEF IInv, StampInv
  <2>5. \A j \in done' : 0 < ts'[j] /\ ts'[j] <= clock'
    BY <1>t, <1>0, <1>b
  <2> QED BY <1>0, <1>b, <2>1, <2>2, <2>3, <2>4, <2>5 DEF IInv, StampInv
<1>3. OrderInv'
  <2> SUFFICES ASSUME NEW j \in Inst, NEW k \in Inst,
                      CoreOf[j] = CoreOf[k], CoreOf[j] \in Ordered,
                      Pos[j] < Pos[k], k \in done'
               PROVE  j \in done' /\ ts'[j] < ts'[k]
    BY DEF OrderInv
  <2>1. CASE k = i
    <3>1. j \in done
      BY <2>1 DEF Execute, Ready
    <3> QED BY <1>t, <1>0, <1>b, <2>1, <3>1
  <2>2. CASE k # i
    <3>1. k \in done
      BY <2>2, <1>0
    <3>2. j \in done /\ ts[j] < ts[k]
      BY <3>1 DEF IInv, OrderInv
    <3> QED BY <1>0, <1>b, <2>2, <3>1, <3>2
  <2> QED BY <2>1, <2>2
<1>4. FifoInv'
  <2> SUFFICES ASSUME NEW v \in Stores \cap done', NEW w \in Stores \cap done',
                      CoreOf[v] = CoreOf[w], ts'[v] < ts'[w], w \in flushed'
               PROVE  v \in flushed' /\ g'[v] < g'[w]
    BY DEF FifoInv
  <2>1. CASE w = i
    <3>1. i \in RMW_list /\ v \in done /\ g'[w] = clock + 1
      BY <1>0, <1>b, <2>1
    <3>2. v \in flushed
      BY <1>p, <2>1, <3>1
    <3> QED BY <1>t, <1>b, <3>1, <3>2
  <2>2. CASE w # i
    <3>1. w \in flushed /\ w \in done /\ v # i
      BY <1>t, <1>0, <1>b, <2>2
    <3>2. v \in flushed /\ g[v] < g[w]
      BY <1>0, <1>b, <3>1 DEF IInv, FifoInv
    <3> QED BY <1>b, <3>1, <3>2
  <2> QED BY <2>1, <2>2
<1>5. FenceInv'
  <2> SUFFICES ASSUME NEW f \in FENCE_list \cap done', NEW w \in Stores \cap done',
                      CoreOf[w] = CoreOf[f], ts'[w] < ts'[f]
               PROVE  w \in flushed' /\ g'[w] < ts'[f]
    BY DEF FenceInv
  <2>1. CASE f = i
    <3>1. w \in done
      BY <1>0, <1>b, <2>1
    <3>2. w \in flushed
      BY <1>p, <2>1, <3>1
    <3> QED BY <1>t, <1>b, <2>1, <3>2
  <2>2. CASE f # i
    <3>1. f \in done /\ w \in done
      BY <1>t, <1>0, <1>b, <2>2
    <3>2. w \in flushed /\ g[w] < ts[f]
      BY <1>b, <3>1 DEF IInv, FenceInv
    <3> QED BY <1>b, <3>1, <3>2
  <2> QED BY <2>1, <2>2
<1>6. MemInv'
  <2> SUFFICES ASSUME NEW s \in Shared
               PROVE  /\ mem'[s] \in flushed' \cup {InitStep}
                      /\ s \in WriteSet(mem'[s])
                      /\ dec'[mem'[s]]
                      /\ \A w \in flushed' : dec'[w] /\ s \in InstWrite[w] /\ w # mem'[s]
                            => mem'[s] \in flushed' /\ g'[w] < g'[mem'[s]]
    BY DEF MemInv
  <2>1. /\ mem[s] \in flushed \cup {InitStep} /\ s \in WriteSet(mem[s]) /\ dec[mem[s]]
        /\ \A w \in flushed : dec[w] /\ s \in InstWrite[w] /\ w # mem[s]
                                => mem[s] \in flushed /\ g[w] < g[mem[s]]
    BY DEF IInv, MemInv
  <2>2. CASE i \in RMW_list /\ d /\ s \in InstWrite[i]
    <3>1. mem'[s] = i /\ i \in flushed' /\ g'[i] = clock + 1
      BY <1>g, <1>t, <2>2 DEF Execute, WriteBack
    <3>2. s \in WriteSet(i) /\ dec'[i]
      BY <1>b, <2>2
    <3>3. \A w \in flushed' : w # i => g'[w] < clock + 1
      BY <1>t, <1>b
    <3> QED BY <3>1, <3>2, <3>3
  <2>3. CASE ~ (i \in RMW_list /\ d /\ s \in InstWrite[i])
    <3>1. mem'[s] = mem[s]
      BY <1>g, <2>3 DEF Execute, WriteBack
    <3>2. \A w \in flushed' : dec'[w] /\ s \in InstWrite[w] => w \in flushed
      BY <1>b, <2>3
    <3> QED BY <1>t, <1>b, <2>1, <3>1, <3>2
  <2> QED BY <2>2, <2>3
<1>7. ReadInv'
  <2> SUFFICES ASSUME NEW p \in Reads, Happened(p[1])'
               PROVE  /\ rf'[p] \in done' \cup {InitStep}
                      /\ rf'[p] # p[1]
                      /\ p[2] \in WriteSet(rf'[p])
                      /\ dec'[rf'[p]]
                      /\ PartRF(rf[p], p[1])'
                      /\ \A w \in done' :
                            dec'[w] /\ p[2] \in InstWrite[w] /\ w # rf'[p] /\ w # p[1]
                              => PartCO(w, rf[p])' \/ PartFR(p[1], w)'
    BY DEF ReadInv
  <2>0. p[1] \in done' /\ p[1] \in Inst
    BY <1>t, <1>0 DEF Happened
  <2>1. CASE p[1] = i
    <3> PICK w0 : w0 = src[p[2]]
      OBVIOUS
    <3>1. rf'[p] = w0 /\ p[2] \in InstRead[i] /\ p[2] \in Shared
      BY <1>s, <2>1, ReadsFacts
    <3>2. /\ w0 \in done \cup {InitStep} /\ p[2] \in WriteSet(w0) /\ dec[w0]
          /\ w0 \in flushed \/ w0 = InitStep \/ (w0 \in Inst /\ CoreOf[w0] = CoreOf[i])
          /\ \A v \in done : dec[v] /\ p[2] \in InstWrite[v] /\ v # w0
               => PartCO(v, w0) \/ (CoreOf[v] # CoreOf[i] /\ v \notin flushed)
      <4>1. Visible(CoreOf[i], p[2], w0) /\ CoreOf[i] \in Cores
        BY <1>s, <3>1, TemplateAssumption
      <4> QED BY <3>1, <4>1, VisibleIsLatest
    <3>3. PartRF(w0, i)'
      BY <1>t, <1>0, <1>b, <3>2 DEF PartRF
    <3>4. ASSUME NEW v \in done, dec[v], p[2] \in InstWrite[v], v # w0
          PROVE  PartCO(v, w0)' \/ PartFR(i, v)'
      <4>0. v # i /\ w0 # i /\ v \in Inst
        BY <1>t, <1>0, <3>2, <3>4
      <4>1. CASE PartCO(v, w0)
        BY <1>t, <1>0, <1>b, <3>2, <3>4, <4>0, <4>1 DEF PartCO
      <4>2. CASE CoreOf[v] # CoreOf[i] /\ v \notin flushed
        BY <1>b, <4>0, <4>2 DEF PartFR
      <4> QED BY <3>2, <3>4, <4>1, <4>2
    <3> QED BY <1>t, <1>0, <1>b, <2>1, <3>1, <3>2, <3>3, <3>4
  <2>2. CASE p[1] # i
    <3> PICK w0 : w0 = rf[p]
      OBVIOUS
    <3>1. w0 = rf[p] /\ rf'[p] = w0 /\ p[1] \in done
      BY <1>0, <1>s, <2>0, <2>2
    <3>2. /\ w0 \in done \cup {InitStep} /\ w0 # p[1]
          /\ p[2] \in WriteSet(w0) /\ dec[w0] /\ PartRF(w0, p[1])
          /\ \A w \in done : dec[w] /\ p[2] \in InstWrite[w] /\ w # w0 /\ w # p[1]
                               => PartCO(w, w0) \/ PartFR(p[1], w)
      BY <3>1 DEF IInv, ReadInv, Happened
    <3>3. w0 # i
      BY <1>0, <3>2
    <3>4. PartRF(w0, p[1])'
      BY <1>t, <1>0, <1>b, <3>1, <3>2, <3>3 DEF PartRF
    <3>5. ASSUME NEW w \in done', dec'[w], p[2] \in InstWrite[w], w # w0, w # p[1]
          PROVE  PartCO(w, w0)' \/ PartFR(p[1], w)'
      <4>1. CASE w = i
        BY <1>t, <1>0, <1>b, <2>0, <3>1, <4>1 DEF PartFR
      <4>2. CASE w # i
        <5>1. w \in done /\ dec[w]
          BY <1>0, <1>b, <3>5, <4>2
        <5>2. CASE PartCO(w, w0)
          BY <1>t, <1>0, <1>b, <3>2, <3>3, <4>2, <5>1, <5>2 DEF PartCO
        <5>3. CASE PartFR(p[1], w)
          BY <1>t, <1>0, <1>b, <3>1, <4>2, <5>1, <5>3 DEF PartFR
        <5> QED BY <3>2, <3>5, <5>1, <5>2, <5>3
      <4> QED BY <4>1, <4>2
    <3> QED BY <1>0, <1>b, <3>1, <3>2, <3>4, <3>5
  <2> QED BY <2>1, <2>2
<1> QED BY <1>1, <1>2, <1>3, <1>4, <1>5, <1>6, <1>7 DEF IInv

-----------------------------------------------------------------------------
LEMMA FlushIInv ==
    ASSUME IInv, NEW x \in PureWrite_list, Flush(x)
    PROVE  IInv'
<1> USE StepFacts, StoreFacts, HostFacts
<1>t. /\ clock \in Nat /\ ts \in [Steps -> Nat] /\ g \in [Stores -> Nat]
      /\ done \subseteq Inst /\ flushed \subseteq Stores /\ flushed \subseteq done
  BY DEF IInv, TypeOK
<1>0. /\ x \in done /\ x \notin flushed /\ x \notin RMW_list
      /\ clock' = clock + 1 /\ g' = [g EXCEPT ![x] = clock + 1]
      /\ flushed' = flushed \cup {x}
      /\ mem' = WriteBack(x, dec[x])
      /\ ts' = ts /\ dec' = dec /\ rf' = rf /\ done' = done /\ fin' = fin
  BY DEF Flush, Pending
<1>b. /\ g'[x] = clock + 1
      /\ \A w \in flushed : g[w] \in Nat /\ g[w] <= clock /\ g'[w] = g[w] /\ w # x
      /\ \A j \in done : ts[j] \in Nat /\ 0 < ts[j] /\ ts[j] <= clock
  BY <1>t, <1>0 DEF IInv, StampInv
<1>p. \A v \in Stores \cap done :
         CoreOf[v] = CoreOf[x] /\ ts[v] < ts[x] => v \in flushed
  <2> SUFFICES ASSUME NEW v \in Stores \cap done, CoreOf[v] = CoreOf[x],
                      ts[v] < ts[x], v \notin flushed
               PROVE  FALSE
    OBVIOUS
  <2>1. v \in Pending(CoreOf[x])
    BY DEF Pending, IInv, StampInv
  <2>2. ts[x] <= ts[v]
    BY <2>1 DEF Flush
  <2> QED BY <1>t, <1>0, <2>2
<1>1. TypeOK'
  <2>1. mem' \in [Shared -> WRITE_list]
    BY <1>0, WriteListFacts DEF IInv, TypeOK, WriteBack
  <2>2. g' \in [Stores -> Nat] /\ flushed' \in SUBSET (Stores \cap done')
    BY <1>t, <1>0
  <2> QED BY <1>t, <1>0, <2>1, <2>2 DEF IInv, TypeOK
<1>2. StampInv'
  <2>1. \A w \in flushed' : /\ 0 < g'[w] /\ g'[w] <= clock'
                            /\ IF w \in RMW_list THEN g'[w] = ts'[w] ELSE ts'[w] < g'[w]
    BY <1>t, <1>0, <1>b DEF IInv, StampInv
  <2>2. fin => ts[FinalStep] <= clock'
    BY <1>t, <1>0 DEF IInv, StampInv
  <2>3. \A i \in done : ts[i] <= clock'
    BY <1>t, <1>0, <1>b
  <2> QED BY <1>0, <2>1, <2>2, <2>3 DEF IInv, StampInv
<1>3. OrderInv'
  BY <1>0 DEF IInv, OrderInv
<1>4. FifoInv'
  <2> SUFFICES ASSUME NEW v \in Stores \cap done, NEW w \in Stores \cap done,
                      CoreOf[v] = CoreOf[w], ts[v] < ts[w], w \in flushed'
               PROVE  v \in flushed' /\ g'[v] < g'[w]
    BY <1>0 DEF FifoInv
  <2>1. CASE w = x
    <3>1. v \in flushed
      BY <1>p, <2>1
    <3> QED BY <1>t, <1>0, <1>b, <2>1, <3>1
  <2>2. CASE w # x
    <3>1. v \in flushed /\ w \in flushed /\ g[v] < g[w]
      BY <1>0, <2>2 DEF IInv, FifoInv
    <3> QED BY <1>0, <1>b, <3>1
  <2> QED BY <2>1, <2>2
<1>5. FenceInv'
  BY <1>0, <1>b DEF IInv, FenceInv
<1>6. MemInv'
  <2> SUFFICES ASSUME NEW s \in Shared
               PROVE  /\ mem'[s] \in flushed' \cup {InitStep}
                      /\ s \in WriteSet(mem'[s])
                      /\ dec[mem'[s]]
                      /\ \A w \in flushed' : dec[w] /\ s \in InstWrite[w] /\ w # mem'[s]
                            => mem'[s] \in flushed' /\ g'[w] < g'[mem'[s]]
    BY <1>0 DEF MemInv
  <2>1. /\ mem[s] \in flushed \cup {InitStep} /\ s \in WriteSet(mem[s]) /\ dec[mem[s]]
        /\ \A w \in flushed : dec[w] /\ s \in InstWrite[w] /\ w # mem[s]
                                => mem[s] \in flushed /\ g[w] < g[mem[s]]
    BY DEF IInv, MemInv
  <2>2. CASE dec[x] /\ s \in InstWrite[x]
    <3>1. mem'[s] = x
      BY <1>0, <2>2 DEF WriteBack
    <3>2. \A w \in flushed' : w # x => g'[w] < clock + 1
      BY <1>t, <1>0, <1>b
    <3>3. s \in WriteSet(x) /\ x \in flushed'
      BY <1>0, <2>2
    <3> QED BY <1>b, <2>2, <3>1, <3>2, <3>3
  <2>3. CASE ~ (dec[x] /\ s \in InstWrite[x])
    <3>1. mem'[s] = mem[s]
      BY <1>0, <2>3 DEF WriteBack
    <3>2. \A w \in flushed' : dec[w] /\ s \in InstWrite[w] => w \in flushed
      BY <1>0, <2>3
    <3> QED BY <1>0, <1>b, <2>1, <3>1, <3>2
  <2> QED BY <2>2, <2>3
<1>7. ReadInv'
  <2> SUFFICES ASSUME NEW p \in Reads, Happened(p[1])
               PROVE  /\ rf[p] \in done \cup {InitStep}
                      /\ rf[p] # p[1]
                      /\ p[2] \in WriteSet(rf[p])
                      /\ dec[rf[p]]
                      /\ PartRF(rf[p], p[1])'
                      /\ \A w \in done :
                            dec[w] /\ p[2] \in InstWrite[w] /\ w # rf[p] /\ w # p[1]
                              => PartCO(w, rf[p])' \/ PartFR(p[1], w)'
    BY <1>0 DEF ReadInv, Happened
  <2> PICK w0 : w0 = rf[p]
    OBVIOUS
  <2>0. rf'[p] = w0
    BY <1>0
  <2>1. /\ w0 \in done \cup {InitStep} /\ w0 # p[1]
        /\ p[2] \in WriteSet(w0) /\ dec[w0] /\ PartRF(w0, p[1])
        /\ \A w \in done : dec[w] /\ p[2] \in InstWrite[w] /\ w # w0 /\ w # p[1]
                             => PartCO(w, w0) \/ PartFR(p[1], w)
    BY DEF IInv, ReadInv
  <2>2. p[1] \in Steps /\ ts[p[1]] \in Nat /\ ts[p[1]] <= clock
    BY <1>t, <1>b, ReadsFacts DEF Happened, IInv, StampInv
  <2>3. PartRF(w0, p[1])'
    BY <1>0, <1>b, <2>1 DEF PartRF
  <2>4. ASSUME NEW w \in done, dec[w], p[2] \in InstWrite[w], w # w0, w # p[1]
        PROVE  PartCO(w, w0)' \/ PartFR(p[1], w)'
    <3>1. CASE PartCO(w, w0)
      BY <1>t, <1>0, <1>b, <2>1, <3>1 DEF PartCO
    <3>2. CASE PartFR(p[1], w)
      BY <1>t, <1>0, <1>b, <2>2, <3>2 DEF PartFR
    <3> QED BY <2>1, <2>4, <3>1, <3>2
  <2> QED BY <2>0, <2>1, <2>3, <2>4
<1> QED BY <1>1, <1>2, <1>3, <1>4, <1>5, <1>6, <1>7 DEF IInv

LEMMA FinalIInv ==
    ASSUME IInv, Final
    PROVE  IInv'
<1> USE StepFacts, StoreFacts, HostFacts
<1>t. /\ clock \in Nat /\ ts \in [Steps -> Nat] /\ g \in [Stores -> Nat]
      /\ done \subseteq Inst /\ flushed \subseteq Stores /\ flushed \subseteq done
  BY DEF IInv, TypeOK
<1>0. /\ done = Inst /\ ~fin /\ fin'
      /\ clock' = clock + 1 /\ ts' = [ts EXCEPT ![FinalStep] = clock + 1]
      /\ g' = g /\ dec' = dec /\ mem' = mem /\ done' = done /\ flushed' = flushed
  BY DEF Final
<1>b. /\ ts'[FinalStep] = clock + 1
      /\ \A x \in Inst \cup {InitStep} : ts'[x] = ts[x] /\ ts[x] \in Nat /\ ts[x] <= clock
      /\ \A w \in flushed : g[w] \in Nat /\ g[w] <= clock
  BY <1>t, <1>0 DEF IInv, StampInv
<1>1. TypeOK'
  <2>1. rf' \in [Reads -> WRITE_list]
    BY ReadsFacts DEF Final, IInv, TypeOK
  <2> QED BY <1>t, <1>0, <2>1 DEF IInv, TypeOK
<1>2. StampInv'
  BY <1>t, <1>0, <1>b DEF IInv, StampInv
<1>3. OrderInv' /\ FifoInv' /\ FenceInv' /\ MemInv'
  BY <1>t, <1>0, <1>b DEF IInv, OrderInv, FifoInv, FenceInv, MemInv
<1>4. ReadInv'
  <2> SUFFICES ASSUME NEW p \in Reads
               PROVE  /\ rf'[p] \in done \cup {InitStep}
                      /\ rf'[p] # p[1]
                      /\ p[2] \in WriteSet(rf'[p])
                      /\ dec[rf'[p]]
                      /\ PartRF(rf[p], p[1])'
                      /\ \A w \in done :
                            dec[w] /\ p[2] \in InstWrite[w] /\ w # rf'[p] /\ w # p[1]
                              => PartCO(w, rf[p])' \/ PartFR(p[1], w)'
    BY <1>0 DEF ReadInv
  <2> PICK w0 : w0 = rf'[p]
    OBVIOUS
  <2>1. CASE p[1] = FinalStep
    <3>1. w0 = mem[p[2]] /\ p[2] \in Shared
      BY <2>1, ReadsFacts DEF Final
    <3>2. /\ w0 \in flushed \cup {InitStep} /\ p[2] \in WriteSet(w0) /\ dec[w0]
          /\ \A w \in flushed : dec[w] /\ p[2] \in InstWrite[w] /\ w # w0
                                  => w0 \in flushed /\ g[w] < g[w0]
      BY <3>1 DEF IInv, MemInv
    <3>3. PartRF(w0, p[1])'
      BY <1>t, <1>0, <1>b, <2>1, <3>2 DEF PartRF
    <3>4. ASSUME NEW w \in done, dec[w], p[2] \in InstWrite[w], w # w0
          PROVE  PartCO(w, w0)' \/ PartFR(p[1], w)'
      <4>1. CASE w \notin flushed
        BY <1>t, <1>0, <2>1, <4>1 DEF PartFR
      <4>2. CASE w \in flushed
        <5>1. w0 \in flushed /\ g[w] < g[w0]
          BY <3>2, <3>4, <4>2
        <5>2. CoreOf[w] = CoreOf[w0] => ts[w] < ts[w0]
          <6>1. ts[w] # ts[w0]
            BY <1>t, <3>4, <5>1 DEF IInv, StampInv
          <6>2. CoreOf[w] = CoreOf[w0] => ~ (ts[w0] < ts[w])
            BY <1>t, <1>b, <4>2, <5>1 DEF IInv, FifoInv
          <6> QED BY <1>t, <1>b, <5>1, <6>1, <6>2
        <5> QED BY <1>t, <1>0, <1>b, <4>2, <5>1, <5>2 DEF PartCO
      <4> QED BY <4>1, <4>2
    <3> QED BY <1>t, <1>0, <2>1, <3>2, <3>3, <3>4
  <2>2. CASE p[1] # FinalStep
    <3>0. p[1] \in done /\ p[1] \in Inst /\ w0 = rf[p]
      BY <1>0, <2>2, ReadsFacts DEF Final
    <3>1. /\ w0 \in done \cup {InitStep} /\ w0 # p[1]
          /\ p[2] \in WriteSet(w0) /\ dec[w0] /\ PartRF(w0, p[1])
          /\ \A w \in done : dec[w] /\ p[2] \in InstWrite[w] /\ w # w0 /\ w # p[1]
                               => PartCO(w, w0) \/ PartFR(p[1], w)
      BY <3>0 DEF IInv, ReadInv, Happened
    <3>2. PartRF(w0, p[1])'
      BY <1>t, <1>0, <1>b, <3>0, <3>1 DEF PartRF
    <3>3. ASSUME NEW w \in done, dec[w], p[2] \in InstWrite[w], w # w0, w # p[1]
          PROVE  PartCO(w, w0)' \/ PartFR(p[1], w)'
      <4>1. CASE PartCO(w, w0)
        BY <1>t, <1>0, <1>b, <3>1, <4>1 DEF PartCO
      <4>2. CASE PartFR(p[1], w)
        BY <1>t, <1>0, <1>b, <3>0, <4>2 DEF PartFR
      <4> QED BY <3>1, <3>3, <4>1, <4>2
    <3> QED BY <3>1, <3>2, <3>3
  <2> QED BY <2>1, <2>2
<1> QED BY <1>1, <1>2, <1>3, <1>4 DEF IInv

LEMMA NextIInv == IInv /\ [Next]_vars => IInv'
<1> SUFFICES ASSUME IInv, [Next]_vars PROVE IInv'
  OBVIOUS
<1>1. CASE \E i \in Inst, d \in BOOLEAN : Execute(i, d)
  BY <1>1, ExecuteIInv
<1>2. CASE \E w \in PureWrite_list : Flush(w)
  BY <1>2, FlushIInv
<1>3. CASE Final
  BY <1>3, FinalIInv
<1>4. CASE Terminated \/ UNCHANGED vars
  BY <1>4 DEF Terminated, vars, IInv, TypeOK, StampInv, OrderInv, FifoInv, FenceInv,
              MemInv, ReadInv, Happened, PartRF, PartCO, PartFR
<1> QED BY <1>1, <1>2, <1>3, <1>4 DEF Next

-----------------------------------------------------------------------------
\* The machine keeps its variables in their types.
THEOREM TypeCorrect == Spec => []TypeOK
<1>1. IInv => TypeOK
  BY DEF IInv
<1> QED BY InitIInv, NextIInv, <1>1, PTL DEF Spec

LEMMA IInvGivesAxioms == IInv /\ Complete => TsoAxioms(ts, g, dec, rf)
<1> SUFFICES ASSUME IInv, Complete PROVE TsoAxioms(ts, g, dec, rf)
  OBVIOUS
<1> USE StepFacts, StoreFacts, HostFacts
<1>0. /\ done = Inst /\ flushed = Stores /\ fin
      /\ ts \in [Steps -> Nat] /\ g \in [Stores -> Nat]
  BY DEF IInv, StampInv, TypeOK, Complete
<1>w. \A w \in WRITE_list : w = InitStep \/ (w \in Stores /\ WfeGlobal(ts, g, w) = g[w])
  BY DEF WfeGlobal
<1>1. TimeStamps(ts, dec) /\ \A w \in PureWrite_list \cup RMW_list : g[w] > 0
  BY <1>0 DEF IInv, StampInv, TimeStamps
<1>2. ProgramOrder(ts) /\ FinalOrder(ts)
  BY <1>0, TemplateAssumption DEF IInv, OrderInv, StampInv, ProgramOrder, FinalOrder
<1>3. TsoRfCoFr(ts, g, dec, rf)
  <2> SUFFICES ASSUME NEW p \in Reads
               PROVE  /\ rf[p] \in Writers(p[1], p[2])
                      /\ dec[rf[p]]
                      /\ TsoRF(ts, g, rf[p], p[1])
                      /\ \A w2 \in Writers(p[1], p[2]) \ {rf[p]} :
                            dec[w2] => TsoCO(ts, g, w2, rf[p]) \/ TsoFR(ts, g, p[1], w2)
    BY DEF TsoRfCoFr, TsoReadsFrom
  <2> PICK w0 : w0 = rf[p]
    OBVIOUS
  <2>1. /\ w0 \in Inst \cup {InitStep} /\ w0 # p[1]
        /\ p[2] \in WriteSet(w0) /\ dec[w0] /\ PartRF(w0, p[1])
        /\ \A w \in Inst : dec[w] /\ p[2] \in InstWrite[w] /\ w # w0 /\ w # p[1]
                             => PartCO(w, w0) \/ PartFR(p[1], w)
    BY <1>0, ReadsFacts DEF IInv, ReadInv, Happened
  <2>2. w0 \in Writers(p[1], p[2]) /\ w0 \in WRITE_list
    BY <2>1, ReadsFacts, WriteListFacts DEF Writers, WRITE_list
  <2>3. p[1] \in Steps /\ ts[p[1]] > 0
    BY <1>0, ReadsFacts DEF IInv, StampInv
  <2>4. TsoRF(ts, g, w0, p[1])
    BY <1>0, <1>w, <2>1, <2>2, <2>3 DEF PartRF, TsoRF, WfeGlobal, IInv, StampInv
  <2>5. ASSUME NEW w2 \in Writers(p[1], p[2]) \ {w0}, dec[w2]
        PROVE  TsoCO(ts, g, w2, w0) \/ TsoFR(ts, g, p[1], w2)
    <3>1. w2 \in WRITE_list /\ w2 # p[1] /\ p[2] \in WriteSet(w2) /\ w2 # w0
      BY DEF Writers
    <3>2. CASE w2 = InitStep
      <4>1. w0 \in Stores /\ g[w0] > 0
        BY <1>1, <1>w, <2>2, <3>1, <3>2 DEF Stores
      <4>2. ts[InitStep] = 0
        BY DEF IInv, StampInv
      <4> QED BY <3>2, <4>1, <4>2 DEF TsoCO, WfeGlobal
    <3>3. CASE w2 # InitStep
      <4>1. w2 \in Inst /\ w2 \in Stores /\ p[2] \in InstWrite[w2]
        BY <1>w, <3>1, <3>3
      <4>2. CASE PartCO(w2, w0)
        BY <1>0, <2>1, <2>2, <1>w, <4>1, <4>2 DEF PartCO, TsoCO, WfeGlobal
      <4>3. CASE PartFR(p[1], w2)
        BY <1>0, <4>1, <4>3 DEF PartFR, TsoFR, WfeGlobal
      <4> QED BY <2>1, <2>5, <3>1, <4>1, <4>2, <4>3
    <3> QED BY <3>2, <3>3
  <2> QED BY <2>1, <2>2, <2>4, <2>5
<1>4. TSO_WriteFacetOrder(ts, g) /\ TSO_RMW(ts, g)
  BY <1>0 DEF IInv, StampInv, TSO_WriteFacetOrder, TSO_RMW
<1>5. TSO_Store(ts, g)
  BY <1>0, <1>w DEF IInv, FifoInv, TSO_Store
<1>6. TSO_Fence(ts, g)
  BY <1>0, <1>w DEF IInv, FenceInv, TSO_Fence
<1> QED BY <1>1, <1>2, <1>3, <1>4, <1>5, <1>6 DEF TsoAxioms

\* Every complete run of the store-buffer machine, for every program template,
\* solves the constraints of Tso::ApplyAxioms.
THEOREM TsoSoundness == Spec => []TsoSound
<1>1. IInv => TsoSound
  BY IInvGivesAxioms DEF TsoSound
<1> QED BY InitIInv, NextIInv, <1>1, PTL DEF Spec

\* At every moment of every run, two reads of one state by one core never go
\* back in the order CO of the flushed writes.
THEOREM Coherence == Spec => []CoherentReads
<1>1. IInv => CoherentReads
  <2> SUFFICES ASSUME IInv, NEW p \in Reads, NEW q \in Reads,
                      p[1] \in done, q[1] \in done, p[2] = q[2],
                      SameCore(p[1], q[1]), ts[p[1]] < ts[q[1]],
                      {rf[p], rf[q]} \subseteq flushed \cup {InitStep},
                      TsoCO(ts, g, rf[q], rf[p])
               PROVE  FALSE
    BY DEF CoherentReads
  <2> USE StepFacts, StoreFacts, HostFacts
  <2> PICK v, w : v = rf[p] /\ w = rf[q]
    OBVIOUS
  <2>0. /\ ts \in [Steps -> Nat] /\ g \in [Stores -> Nat] /\ done \subseteq Inst
        /\ flushed \subseteq Stores /\ flushed \subseteq done /\ ts[InitStep] = 0
    BY DEF IInv, TypeOK, StampInv
  <2>1. /\ v \in flushed \cup {InitStep} /\ w \in flushed \cup {InitStep}
        /\ v # p[1] /\ p[2] \in WriteSet(v) /\ dec[v] /\ PartRF(v, p[1])
        /\ \A x \in done : dec[x] /\ q[2] \in InstWrite[x] /\ x # w /\ x # q[1]
                             => PartCO(x, w) \/ PartFR(q[1], x)
        /\ TsoCO(ts, g, w, v)
    BY DEF IInv, ReadInv, Happened
  <2>2. v # InitStep /\ v # w
    BY <2>0, <2>1 DEF TsoCO, WfeGlobal
  <2>3. v # q[1]
    BY <2>0, <2>1 DEF PartRF
  <2>4. PartCO(v, w) \/ PartFR(q[1], v)
    BY <2>0, <2>1, <2>2, <2>3
  <2>5. ~ PartFR(q[1], v)
    BY <2>0, <2>1, <2>2 DEF PartRF, PartFR
  <2>6. ~ PartCO(v, w)
    BY <2>0, <2>1, <2>2 DEF PartCO, TsoCO, WfeGlobal
  <2> QED BY <2>4, <2>5, <2>6
<1> QED BY InitIInv, NextIInv, <1>1, PTL DEF Spec
=============================================================================
