--------------------------- MODULE InterIlaProofs ---------------------------
(***************************************************************************)
(* Proofs about InterIla, for every template, every set of properties and  *)
(* filters, and every bound.                                               *)
(***************************************************************************)
EXTENDS InterIla, TLAPS, SequenceTheorems

LEMMA GroupType ==
    ASSUME NEW k \in {"init", "stamp", "prop", "link"}, NEW p \in SUBSET Pairs
    PROVE  Group(k, p) \in Groups
  BY DEF Group, Groups

LEMMA PropPairs ==
    ASSUME NEW P \in SUBSET States, NEW S \in SUBSET Steps
    PROVE  S \X P \in SUBSET Pairs
  BY DEF Pairs

LEMMA EmptyStart == Init => TypeOK /\ StackFits
  <1> SUFFICES ASSUME Init PROVE TypeOK /\ StackFits
    OBVIOUS
  <1>1. cstr \in Seq(Groups) /\ stk \in Seq(Nat) /\ Len(stk) = 0
    BY EmptySeq DEF Init
  <1>2. readSet \in [Inst -> SUBSET States]
    BY InterAssumption DEF Init, States
  <1>3. StackFits
    BY <1>1 DEF StackFits
  <1> QED BY <1>1, <1>2, <1>3 DEF Init, TypeOK

-----------------------------------------------------------------------------
(* The types of the groups that the operations append.                      *)

LEMMA SelectedPairs ==
    ASSUME NEW P \in Props, NEW F \in Filters
    PROVE  {f[1] : f \in {f \in F : f[2] = "inst" \/ f[1] \in Facets}} \X P
             \in SUBSET Pairs
  <1>1. \A f \in F : f \in Inst \X {"inst", "facet"}
    BY InterAssumption
  <1>2. {f[1] : f \in {f \in F : f[2] = "inst" \/ f[1] \in Facets}} \in SUBSET Steps
    BY <1>1 DEF Steps
  <1>3. P \in SUBSET States
    BY InterAssumption DEF States
  <1> QED BY <1>2, <1>3, PropPairs

LEMMA FinalPairs ==
    ASSUME NEW P \in FinalProps
    PROVE  {FinalStep} \X P \in SUBSET Pairs
  <1>1. {FinalStep} \in SUBSET Steps /\ P \in SUBSET States
    BY InterAssumption DEF States, Steps
  <1> QED BY <1>1, PropPairs

\* The pairs that LinkStates ties.
TiedNow == {p \in Pairs :
             \/ p[1] \in READ_list /\ p[2] \in Shared \cap readSet[p[1]]
             \/ p[1] \in Inst /\ p[2] \in Private \cap readSet[p[1]]
             \/ p[1] = FinalStep /\ p[2] \in Private \cup finalRead}

-----------------------------------------------------------------------------
(* The constraint list and the stack.  Appending a group keeps the saved    *)
(* positions within the list, pushing saves its length, and popping cuts    *)
(* the list to the last position, which no other one exceeds.               *)

LEMMA AppendFits ==
    ASSUME TypeOK, StackFits, NEW grp \in Groups,
           cstr' = Append(cstr, grp), stk' = stk
    PROVE  cstr' \in Seq(Groups) /\ StackFits'
  BY AppendProperties DEF TypeOK, StackFits

LEMMA PushFits ==
    ASSUME TypeOK, StackFits, Push
    PROVE  stk' \in Seq(Nat) /\ StackFits'
  <1>1. /\ stk' \in Seq(Nat) /\ Len(stk') = Len(stk) + 1
        /\ \A k \in 1 .. Len(stk) : stk'[k] = stk[k]
        /\ stk'[Len(stk) + 1] = Len(cstr)
        /\ Len(stk) \in Nat /\ Len(cstr) \in Nat
        /\ \A k \in 1 .. Len(stk) : stk[k] \in Nat
    BY AppendProperties DEF TypeOK, Push
  <1>2. cstr' = cstr
    BY DEF Push
  <1> QED BY <1>1, <1>2 DEF StackFits

LEMMA PopFits ==
    ASSUME TypeOK, StackFits, Pop
    PROVE  /\ stk[Len(stk)] \in 0 .. Len(cstr)
           /\ cstr' \in Seq(Groups) /\ Len(cstr') = stk[Len(stk)]
           /\ \A k \in 1 .. Len(cstr') : cstr'[k] = cstr[k]
           /\ stk' \in Seq(Nat) /\ StackFits'
  <1> DEFINE n == stk[Len(stk)]
  <1>1. /\ Len(stk) \in Nat \ {0} /\ Len(cstr) \in Nat
        /\ \A k \in 1 .. Len(stk) : stk[k] \in Nat
        /\ \A k \in 1 .. Len(cstr) : cstr[k] \in Groups
    BY DEF TypeOK, Pop
  <1>2. n \in 0 .. Len(cstr)
    BY <1>1 DEF StackFits
  <1>3. /\ cstr' \in Seq(Groups) /\ Len(cstr') = n
        /\ \A k \in 1 .. n : cstr'[k] = cstr[k]
    <2>1. cstr' = SubSeq(cstr, 1, n)
      BY DEF Pop
    <2>2. \A k \in 1 .. n : cstr[k] \in Groups
      BY <1>1, <1>2
    <2> HIDE DEF n
    <2> QED BY <2>1, <2>2, <1>2, SubSeqProperties
  <1>4. /\ stk' \in Seq(Nat) /\ Len(stk') = Len(stk) - 1
        /\ \A k \in 1 .. Len(stk) - 1 : stk'[k] = stk[k]
    <2> DEFINE m == Len(stk) - 1
    <2>1. stk' = SubSeq(stk, 1, m)
      BY DEF Pop
    <2>2. m \in Nat /\ \A k \in 1 .. m : stk[k] \in Nat
      BY <1>1
    <2> HIDE DEF m
    <2>3. /\ stk' \in Seq(Nat) /\ Len(stk') = m
          /\ \A k \in 1 .. m : stk'[k] = stk[k]
      BY <2>1, <2>2, SubSeqProperties
    <2> QED BY <2>3 DEF m
  <1>5. \A k \in 1 .. Len(stk) - 1 : stk[k] <= n
    BY <1>1 DEF StackFits
  <1>6. StackFits'
    <2> SUFFICES ASSUME NEW k \in 1 .. Len(stk'), NEW j \in 1 .. k
                 PROVE  stk'[k] <= Len(cstr') /\ stk'[j] <= stk'[k]
      BY DEF StackFits
    <2>1. k \in 1 .. Len(stk) - 1 /\ j \in 1 .. Len(stk) - 1
      BY <1>1, <1>4
    <2>2. stk'[k] = stk[k] /\ stk'[j] = stk[j]
      BY <1>4, <2>1
    <2>3. stk[k] <= n /\ stk[j] <= stk[k]
      BY <1>1, <1>5, <2>1 DEF StackFits
    <2> QED BY <1>3, <2>2, <2>3
  <1> QED BY <1>2, <1>3, <1>4, <1>6

\* One step per operation of the unroller.
LEMMA StackStep ==
    ASSUME TypeOK, StackFits, [Next]_vars
    PROVE  TypeOK' /\ StackFits'
  <1>1. CASE GenSysInitConstraints
    <2>1. Group("init", {}) \in Groups
      BY GroupType
    <2> QED BY <1>1, <2>1, AppendFits DEF TypeOK, GenSysInitConstraints
  <1>2. CASE Unroll
    <2>1. Group("stamp", {}) \in Groups
      BY GroupType
    <2> QED BY <1>2, <2>1, AppendFits DEF TypeOK, Unroll
  <1>3. ASSUME NEW P \in Props, NEW F \in Filters, AddSingleTraceStepProperty(P, F)
        PROVE  TypeOK' /\ StackFits'
    <2> DEFINE sel == {f \in F : f[2] = "inst" \/ f[1] \in Facets}
    <2>1. Group("prop", {f[1] : f \in sel} \X P) \in Groups
      BY SelectedPairs, GroupType
    <2>2. cstr' \in Seq(Groups) /\ StackFits'
      BY <1>3, <2>1, AppendFits DEF AddSingleTraceStepProperty
    <2>3. readSet' \in [Inst -> SUBSET States]
      BY <1>3, InterAssumption DEF AddSingleTraceStepProperty, TypeOK, States
    <2> QED BY <1>3, <2>2, <2>3 DEF AddSingleTraceStepProperty, TypeOK
  <1>4. ASSUME NEW P \in FinalProps, SetFinalProperty(P)
        PROVE  TypeOK' /\ StackFits'
    <2>1. Group("prop", {FinalStep} \X P) \in Groups
      BY FinalPairs, GroupType
    <2> QED BY <1>4, <2>1, AppendFits DEF SetFinalProperty, TypeOK
  <1>5. CASE LinkStates
    <2>1. Group("link", TiedNow) \in Groups
      BY GroupType DEF TiedNow
    <2>2. cstr' = Append(cstr, Group("link", TiedNow)) /\ stk' = stk
      BY <1>5 DEF LinkStates, TiedNow
    <2> QED BY <1>5, <2>1, <2>2, AppendFits DEF LinkStates, TypeOK
  <1>6. CASE Push
    BY <1>6, PushFits DEF Push, TypeOK
  <1>7. CASE Pop
    BY <1>7, PopFits DEF Pop, TypeOK
  <1>8. ASSUME NEW sat \in BOOLEAN, CheckSat(sat)
        PROVE  TypeOK' /\ StackFits'
    BY <1>8 DEF CheckSat, TypeOK, StackFits
  <1>9. CASE UNCHANGED vars
    BY <1>9 DEF vars, TypeOK, StackFits
  <1> QED BY <1>1, <1>2, <1>3, <1>4, <1>5, <1>6, <1>7, <1>8, <1>9 DEF Next

\* The state of InterIlaUnroller keeps its type.  Pop needs StackFits for it:
\* cstr_ is cut to a length it has.
THEOREM TypeCorrect == Spec => []TypeOK
  <1>1. TypeOK /\ StackFits /\ [Next]_vars => TypeOK' /\ StackFits'
    BY StackStep
  <1> QED BY <1>1, EmptyStart, PTL DEF Spec

\* The assertions of Pop hold after any sequence of calls.
THEOREM StackDiscipline == Spec => []StackFits
  <1>1. TypeOK /\ StackFits /\ [Next]_vars => TypeOK' /\ StackFits'
    BY StackStep
  <1> QED BY <1>1, EmptyStart, PTL DEF Spec

-----------------------------------------------------------------------------
(* No property is left with a free variable, for clients whose trace-step   *)
(* properties read private states only and whose filters never select a     *)
(* facet event without its instruction step.                                *)

\* The pairs that LinkStates will tie, as long as they read private states on
\* instruction steps.
Covered(p) == \/ p[1] \in Inst /\ p[2] \in Private \cap readSet[p[1]]
              \/ p[1] = FinalStep /\ p[2] \in Private \cup finalRead

\* The variables of a property are in the read sets that LinkStates goes by.
ReadsKept == \A j \in 1 .. Len(cstr) :
                cstr[j].kind = "prop" => \A p \in cstr[j].pairs : Covered(p)

\* A link ties the variables of every property that precedes it.
LinkCovers == \A k \in 1 .. Len(cstr) : \A j \in 1 .. k - 1 :
                 cstr[k].kind = "link" /\ cstr[j].kind = "prop"
                    => cstr[j].pairs \subseteq cstr[k].pairs

LEMMA LinkedReads ==
    ASSUME TypeOK, LinkCovers
    PROVE  NoDanglingRead
  <1> SUFFICES ASSUME Linked, NEW p \in Used PROVE p \in Tied
    BY DEF NoDanglingRead
  <1>1. PICK k \in 1 .. Len(cstr) :
           /\ cstr[k].kind = "link"
           /\ \A j \in k + 1 .. Len(cstr) : cstr[j].kind # "prop"
    BY DEF Linked
  <1>2. PICK j \in 1 .. Len(cstr) : cstr[j].kind = "prop" /\ p \in cstr[j].pairs
    BY DEF Used
  <1>3. j \in 1 .. k - 1
    BY <1>1, <1>2 DEF TypeOK
  <1>4. p \in cstr[k].pairs
    BY <1>1, <1>2, <1>3 DEF LinkCovers
  <1> QED BY <1>1, <1>4 DEF Tied

\* Appending a group: read sets have not shrunk, a property's variables are in
\* them, and a link ties what is in them.
LEMMA AppendCovers ==
    ASSUME TypeOK, ReadsKept, LinkCovers, NEW grp \in Groups,
           cstr' = Append(cstr, grp),
           \A p \in Pairs : Covered(p) => Covered(p)',
           grp.kind = "prop" => \A p \in grp.pairs : Covered(p)',
           grp.kind = "link" => \A p \in Pairs : Covered(p) => p \in grp.pairs
    PROVE  ReadsKept' /\ LinkCovers'
  <1>1. /\ Len(cstr') = Len(cstr) + 1 /\ Len(cstr) \in Nat
        /\ \A k \in 1 .. Len(cstr) : cstr'[k] = cstr[k] /\ cstr[k] \in Groups
        /\ cstr'[Len(cstr) + 1] = grp
    BY AppendProperties DEF TypeOK
  <1>2. \A k \in 1 .. Len(cstr) : cstr[k].pairs \subseteq Pairs
    BY <1>1 DEF Groups
  <1>3. ReadsKept'
    <2> SUFFICES ASSUME NEW j \in 1 .. Len(cstr'), cstr'[j].kind = "prop",
                        NEW p \in cstr'[j].pairs
                 PROVE  Covered(p)'
      BY DEF ReadsKept
    <2>1. CASE j = Len(cstr) + 1
      BY <1>1, <2>1
    <2>2. CASE j \in 1 .. Len(cstr)
      BY <1>1, <1>2, <2>2 DEF ReadsKept
    <2> QED BY <1>1, <2>1, <2>2
  <1>4. LinkCovers'
    <2> SUFFICES ASSUME NEW k \in 1 .. Len(cstr'), NEW j \in 1 .. k - 1,
                        cstr'[k].kind = "link", cstr'[j].kind = "prop"
                 PROVE  cstr'[j].pairs \subseteq cstr'[k].pairs
      BY DEF LinkCovers
    <2>1. j \in 1 .. Len(cstr) /\ cstr'[j] = cstr[j]
      BY <1>1
    <2>2. CASE k = Len(cstr) + 1
      BY <1>1, <1>2, <2>1, <2>2 DEF ReadsKept
    <2>3. CASE k \in 1 .. Len(cstr)
      BY <1>1, <2>1, <2>3 DEF LinkCovers
    <2> QED BY <1>1, <2>2, <2>3
  <1> QED BY <1>3, <1>4

\* A step that leaves the list alone, or cuts it, keeps both facts.
LEMMA CutCovers ==
    ASSUME TypeOK, ReadsKept, LinkCovers,
           Len(cstr') \in 0 .. Len(cstr),
           \A k \in 1 .. Len(cstr') : cstr'[k] = cstr[k],
           readSet' = readSet, finalRead' = finalRead
    PROVE  ReadsKept' /\ LinkCovers'
  <1>1. Len(cstr) \in Nat
    BY DEF TypeOK
  <1>2. \A p : Covered(p)' <=> Covered(p)
    BY DEF Covered
  <1>3. ReadsKept'
    BY <1>1, <1>2 DEF ReadsKept
  <1>4. LinkCovers'
    <2> SUFFICES ASSUME NEW k \in 1 .. Len(cstr'), NEW j \in 1 .. k - 1,
                        cstr'[k].kind = "link", cstr'[j].kind = "prop"
                 PROVE  cstr'[j].pairs \subseteq cstr'[k].pairs
      BY DEF LinkCovers
    <2>1. /\ k \in 1 .. Len(cstr) /\ j \in 1 .. Len(cstr')
          /\ cstr'[k] = cstr[k] /\ cstr'[j] = cstr[j]
      BY <1>1
    <2> QED BY <2>1 DEF LinkCovers
  <1> QED BY <1>3, <1>4

\* The clients this is about.
PrivateClient ==
    /\ Props \subseteq SUBSET Private
    /\ \A F \in Filters, i \in Facets : <<i, "facet">> \in F => <<i, "inst">> \in F

LEMMA CoverStep ==
    ASSUME PrivateClient, TypeOK, StackFits, ReadsKept, LinkCovers, [Next]_vars
    PROVE  ReadsKept' /\ LinkCovers'
  <1>1. CASE GenSysInitConstraints
    <2>1. Group("init", {}) \in Groups /\ Group("init", {}).kind = "init"
      BY GroupType DEF Group
    <2> QED BY <1>1, <2>1, AppendCovers DEF GenSysInitConstraints, Covered
  <1>2. CASE Unroll
    <2>1. Group("stamp", {}) \in Groups /\ Group("stamp", {}).kind = "stamp"
      BY GroupType DEF Group
    <2> QED BY <1>2, <2>1, AppendCovers DEF Unroll, Covered
  <1>3. ASSUME NEW P \in Props, NEW F \in Filters, AddSingleTraceStepProperty(P, F)
        PROVE  ReadsKept' /\ LinkCovers'
    <2> DEFINE sel == {f \in F : f[2] = "inst" \/ f[1] \in Facets}
               grp == Group("prop", {f[1] : f \in sel} \X P)
    <2>1. grp \in Groups
      BY SelectedPairs, GroupType
    <2>2. /\ grp.kind = "prop" /\ grp.pairs = {f[1] : f \in sel} \X P
          /\ cstr' = Append(cstr, grp) /\ finalRead' = finalRead
          /\ readSet' = [i \in Inst |->
                IF <<i, "inst">> \in sel THEN readSet[i] \cup P ELSE readSet[i]]
      BY <1>3 DEF AddSingleTraceStepProperty, Group
    <2>3. \A p \in Pairs : Covered(p) => Covered(p)'
      BY <2>2 DEF Covered
    <2>4. \A f \in sel : f[1] \in Inst /\ <<f[1], "inst">> \in sel
      <3> SUFFICES ASSUME NEW f \in sel PROVE f[1] \in Inst /\ <<f[1], "inst">> \in sel
        OBVIOUS
      <3>1. f \in Inst \X {"inst", "facet"}
        BY InterAssumption
      <3>2. CASE f[2] = "inst"
        BY <3>1, <3>2
      <3>3. CASE f[2] = "facet"
        <4>1. f[1] \in Facets /\ f = <<f[1], "facet">>
          BY <3>1, <3>3
        <4> QED BY <3>1, <4>1 DEF PrivateClient
      <3> QED BY <3>1, <3>2, <3>3
    <2>5. \A p \in grp.pairs : Covered(p)'
      BY <2>2, <2>4 DEF Covered, PrivateClient
    <2> HIDE DEF grp
    <2> QED BY <2>1, <2>2, <2>3, <2>5, AppendCovers
  <1>4. ASSUME NEW P \in FinalProps, SetFinalProperty(P)
        PROVE  ReadsKept' /\ LinkCovers'
    <2> DEFINE grp == Group("prop", {FinalStep} \X P)
    <2>1. grp \in Groups
      BY FinalPairs, GroupType
    <2>2. /\ grp.kind = "prop" /\ grp.pairs = {FinalStep} \X P
          /\ cstr' = Append(cstr, grp) /\ readSet' = readSet
          /\ finalRead' = finalRead \cup (P \cap Shared)
      BY <1>4 DEF SetFinalProperty, Group
    <2>3. \A p \in Pairs : Covered(p) => Covered(p)'
      BY <2>2 DEF Covered
    <2>4. \A p \in grp.pairs : Covered(p)'
      BY <2>2, InterAssumption DEF Covered
    <2> HIDE DEF grp
    <2> QED BY <2>1, <2>2, <2>3, <2>4, AppendCovers
  <1>5. CASE LinkStates
    <2> DEFINE grp == Group("link", TiedNow)
    <2>1. grp \in Groups /\ grp.kind = "link" /\ grp.pairs = TiedNow
      BY GroupType DEF TiedNow, Group
    <2>2. cstr' = Append(cstr, grp) /\ readSet' = readSet /\ finalRead' = finalRead
      BY <1>5 DEF LinkStates, TiedNow
    <2>3. \A p \in Pairs : Covered(p) => Covered(p)' /\ p \in TiedNow
      BY <2>2 DEF Covered, TiedNow
    <2> HIDE DEF grp
    <2> QED BY <2>1, <2>2, <2>3, AppendCovers
  <1>6. CASE Pop
    BY <1>6, PopFits, CutCovers DEF Pop
  <1>7. CASE cstr' = cstr /\ readSet' = readSet /\ finalRead' = finalRead
    <2>1. Len(cstr) \in Nat
      BY DEF TypeOK
    <2> QED BY <1>7, <2>1, CutCovers
  <1>8. Push \/ (\E sat \in BOOLEAN : CheckSat(sat)) \/ UNCHANGED vars
          => cstr' = cstr /\ readSet' = readSet /\ finalRead' = finalRead
    BY DEF Push, CheckSat, vars
  <1> QED BY <1>1, <1>2, <1>3, <1>4, <1>5, <1>6, <1>7, <1>8 DEF Next

\* Whatever a client that keeps to PrivateClient pushes, pops, adds and links:
\* when CheckSat runs, every variable of every property is tied to its writes.
THEOREM NoFreeVariable ==
    ASSUME PrivateClient
    PROVE  Spec => []NoDanglingRead
  <1>1. Init => TypeOK /\ StackFits /\ ReadsKept /\ LinkCovers
    <2>1. Init => Len(cstr) = 0
      BY EmptySeq DEF Init
    <2> QED BY <2>1, EmptyStart DEF ReadsKept, LinkCovers
  <1>2. TypeOK /\ StackFits /\ ReadsKept /\ LinkCovers /\ [Next]_vars
          => TypeOK' /\ StackFits' /\ ReadsKept' /\ LinkCovers'
    BY StackStep, CoverStep
  <1>3. TypeOK /\ LinkCovers => NoDanglingRead
    BY LinkedReads
  <1> QED BY <1>1, <1>2, <1>3, PTL DEF Spec
=============================================================================
