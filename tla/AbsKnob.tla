------------------------------ MODULE AbsKnob ------------------------------
(***************************************************************************)
(* Copies of ILAs: CopyIlaTree, FlattenIla and ExtrDeptModl of absknob, and *)
(* the round trip through JSON.  S is the heap with the two maps of a      *)
(* rewriter: ila_map from ILAs to ILAs and expr_map from variables to      *)
(* variables.                                                              *)
(***************************************************************************)
EXTENDS IlaCore

Work(H, im) == [h |-> H, im |-> im, em |-> <<>>]
Failed(S) == [S EXCEPT !.h = Stop(@)]
Table(H, i, k) == IF k = "state" THEN H.ila[i].states ELSE H.ila[i].inputs

(* Rewrite: a variable without a rule stays. *)
Rewrite(e, em) ==
  [e EXCEPT !.vs = {IF v \in DOMAIN em THEN em[v] ELSE v : v \in @}]

(* DuplInp and DuplStt: a variable of the same name in the target is taken,
   otherwise one is created; the first rule of a variable stays.
   Mutant: the last rule counts. *)
DuplVar_Faulty(S, v, d) ==
  LET H == IF v.n \in NamesIn(Table(S.h, d, v.k)) THEN S.h ELSE NewVar(S.h, d, v.n, v.k)
  IN  [S EXCEPT !.h = H, !.em = (v :> VarOf(v.n, d, v.k)) @@ @]
DuplVar(S, v, d) ==
  LET found == {u \in Range(Table(S.h, d, v.k)) : u.n = v.n}
      H == IF found = {} THEN NewVar(S.h, d, v.n, v.k) ELSE S.h
      u == IF found = {} THEN VarOf(v.n, d, v.k) ELSE CHOOSE w \in found : TRUE
  IN  [S EXCEPT !.h = H, !.em = @ @@ (v :> u)]
DuplVars(S, s, d, k) ==
  FoldSet(LAMBDA v, T : DuplVar(T, v, d), S, Range(Table(S.h, s, k)))
DuplAttr(S, s, d) ==
  LET f == S.h.ila[s].fetch  v == S.h.ila[s].valid
      H1 == IF f = Null THEN S.h ELSE SetFetch(S.h, d, Rewrite(f, S.em))
      H2 == IF v = Null THEN H1 ELSE SetValid(H1, d, Rewrite(v, S.em))
  IN  [S EXCEPT !.h = H2]
DuplInit(S, s, d) ==
  [S EXCEPT !.h.ila[d].inits =
     @ \o [k \in DOMAIN S.h.ila[s].inits |-> Rewrite(S.h.ila[s].inits[k], S.em)]]

(* DuplInstr: rewriting a missing decode function and an unmapped child-
   program are fatal.  The new instruction may stay unregistered. *)
DuplInstr(S, j, d) ==
  LET src == S.h.ins[j]
      H == NewInstr(S.h, d, src.name)
      n == Len(H.ins)
      G == [H EXCEPT !.ins[n].decode = Rewrite(src.decode, S.em),
                     !.ins[n].upd = [x \in DOMAIN src.upd |-> Rewrite(src.upd[x], S.em)],
                     !.ins[n].prog = IF src.prog = 0 THEN 0 ELSE S.im[src.prog]]
  IN  IF src.decode = Null \/ (src.prog # 0 /\ src.prog \notin DOMAIN S.im)
      THEN Failed(S) ELSE [S EXCEPT !.h = G]
DuplInstrs(S, s, d) ==
  FoldLeft(LAMBDA T, j : IF T.h.ok THEN DuplInstr(T, j, d) ELSE T, S, S.h.ila[s].instrs)

DuplChilds(S, s, d) ==
  FoldLeft(LAMBDA T, c :
             LET H == NewChild(T.h, d, T.h.ila[c].name)
             IN  [T EXCEPT !.h = SetSpec(H, Len(H.ila), H.ila[c].spec),
                           !.im = @ @@ (c :> Len(H.ila))],
           S, S.h.ila[s].childs)

(* FuncObjRewrIla::pre.  DuplInstrSeq does nothing. *)
RewrIlaPre(S, s) ==
  LET d == S.im[s]
      S1 == DuplVars(DuplVars(S, s, d, "input"), s, d, "state")
      S2 == DuplInit(DuplAttr(DuplChilds(S1, s, d), s, d), s, d)
      whole == Len(S.h.ila[d].states) =
                 IF S.h.ila[d].parent = 0 THEN 0
                 ELSE Len(S.h.ila[S.h.ila[d].parent].states)
  IN  IF ~S.h.ok THEN S ELSE IF ~whole THEN Failed(S) ELSE DuplInstrs(S2, s, d)
RewrIla(S, s) == FoldLeft(RewrIlaPre, S, PreOrder(S.h, s))

CopyIlaTree(H, s, name) ==
  LET G == SetSpec(NewIla(H, name, 0), Len(H.ila) + 1, H.ila[s].spec)
  IN  RewrIla(Work(G, s :> Len(G.ila)), s)

(* FlattenIla: variables and initial conditions of every descendant, then its
   instructions, go to the top.  The valid conditions are not carried over.
   Mutant: the inputs of the descendants are not recorded. *)
Record_Faulty(S, a, top) ==
  [DuplInit(DuplVars(S, a, top, "state"), a, top) EXCEPT !.im = @ @@ (a :> top)]
Record(S, a, top) ==
  [DuplInit(DuplVars(DuplVars(S, a, top, "input"), a, top, "state"), a, top)
   EXCEPT !.im = @ @@ (a :> top)]
FlattenIla(H, top) ==
  LET record(S, a) == IF a = top \/ ~S.h.ok THEN S ELSE Record(S, a, top)
      recorded == FoldLeft(record, Work(H, <<>>), PostOrder(H, top))
      flat(S, a) == IF a = top \/ ~S.h.ok THEN S ELSE DuplInstrs(S, a, top)
  IN  FoldLeft(flat, recorded, PreOrder(H, top))

(* ExtrDeptModl: the host's variables and attributes, the instruction, and its
   child-program.  The rewriter of the program works on a copy of the rules.
   Mutant: the fetch and valid functions are left out. *)
ExtrHost_Faulty(S, s, d) ==
  DuplInit(DuplVars(DuplVars(S, s, d, "input"), s, d, "state"), s, d)
ExtrHost(S, s, d) ==
  DuplInit(DuplAttr(DuplVars(DuplVars(S, s, d, "input"), s, d, "state"), s, d), s, d)
ExtrDeptModl(H, j, name) ==
  LET p == H.ins[j].prog
      G == NewIla(H, name, 0)
      d == Len(G.ila)
      S1 == ExtrHost(Work(G, H.ins[j].host :> d), H.ins[j].host, d)
      H2 == NewChild(S1.h, d, H.ila[p].name)
      S2 == IF p = 0 THEN S1
            ELSE RewrIla([S1 EXCEPT !.h = H2, !.im = @ @@ (p :> Len(H2.ila))], p)
      S3 == DuplInstr([S2 EXCEPT !.em = S1.em], j, d)
  IN  IF ~S2.h.ok THEN S2 ELSE [S3 EXCEPT !.em = S2.em]

-----------------------------------------------------------------------------
(***************************************************************************)
(* JSON.  The serialiser writes the variables and expressions under the    *)
(* identifiers of their symbols; it needs every valid and decode function. *)
(* It writes no child-program, no sequence and no specification flag.      *)
(***************************************************************************)
Serialisable(H, s) ==
  \A i \in Range(PreOrder(H, s)) :
    H.ila[i].valid # Null /\ \A j \in Range(H.ila[i].instrs) : H.ins[j].decode # Null

(* DesExprState, DesExprInput: the variable is made in the new ILA d. *)
DesVar(T, d, v) ==
  [T EXCEPT !.h = NewVar(@, d, v.n, v.k), !.em = @ @@ (v :> VarOf(v.n, d, v.k))]

(* DesVarUnit: the variables of an ILA that no earlier ILA had.
   Mutant: a variable found earlier is created again. *)
DesVarUnit_Faulty(S, i) ==
  LET new(k) == Range(Table(S.h, i, k))
  IN  FoldSet(LAMBDA v, T : DesVar(T, S.im[i], v), S, new("input") \cup new("state"))
DesVarUnit(S, i) ==
  LET new(k) == Range(Table(S.h, i, k)) \ DOMAIN S.em
  IN  FoldSet(LAMBDA v, T : DesVar(T, S.im[i], v), S, new("input") \cup new("state"))

(* DesVarHier: parents first; a name may occur once in the hierarchy. *)
DesVarHier(S, i) ==
  LET H == IF i \in DOMAIN S.im THEN S.h
           ELSE NewChild(S.h, S.im[S.h.ila[i].parent], S.h.ila[i].name)
      T == [S EXCEPT !.h = H, !.im = @ @@ (i :> Len(H.ila))]
  IN  IF \E a \in DOMAIN S.im : a # i /\ S.h.ila[a].name = S.h.ila[i].name
      THEN Failed(S) ELSE DesVarUnit(T, i)

(* DesInstr: every state of the new host gets an update, found by its name;
   a state without an update was written as itself. *)
DesInstr(S, i, j) ==
  LET src == S.h.ins[j]
      d == S.im[i]
      H == NewInstr(S.h, d, src.name)
      n == Len(H.ins)
      written == NamesIn(S.h.ila[i].states)
      self(x) == Expr({v \in Range(S.h.ila[i].states) : v.n = x})
      update(x) == IF x \in DOMAIN src.upd THEN src.upd[x] ELSE self(x)
      G == [H EXCEPT !.ins[n].decode = Rewrite(src.decode, S.em),
                     !.ins[n].upd = [x \in NamesIn(H.ila[d].states) |->
                                       Rewrite(update(x), S.em)]]
  IN  IF ~S.h.ok \/ ~(NamesIn(S.h.ila[d].states) \subseteq written)
      THEN Failed(S) ELSE [S EXCEPT !.h = G]

(* DesIlaUnit: a missing fetch function becomes a constant. *)
DesIlaUnit(S, i) ==
  LET d == S.im[i]
      f == S.h.ila[i].fetch
      S1 == [S EXCEPT !.h.ila[d].fetch = IF f = Null THEN Expr({}) ELSE Rewrite(f, S.em),
                      !.h.ila[d].valid = Rewrite(S.h.ila[i].valid, S.em)]
  IN  IF ~S.h.ok THEN S
      ELSE DuplInit(FoldLeft(LAMBDA T, j : DesInstr(T, i, j), S1, S.h.ila[i].instrs), i, d)

(* The variables in the expressions that are written. *)
WrittenVars(H, s) ==
  UNION {LET m == H.ila[i]
             updates(l) == {H.ins[l].upd[x] :
                              x \in DOMAIN H.ins[l].upd \cap NamesIn(m.states)}
         IN  UNION {e.vs : e \in Range(m.inits) \cup {m.fetch, m.valid} \cup
                      UNION {{H.ins[l].decode} \cup updates(l) : l \in Range(m.instrs)}}
         : i \in Range(PreOrder(H, s))}

(* A variable that is in no table has no host: a fatal error. *)
JsonRoundTrip(H, s) ==
  LET G == NewIla(H, H.ila[s].name, 0)
      todo == PreOrder(H, s)
      vars == FoldLeft(LAMBDA S, i : IF S.h.ok THEN DesVarHier(S, i) ELSE S,
                       Work(G, s :> Len(G.ila)), todo)
  IN  IF Serialisable(H, s) /\ vars.h.ok /\ WrittenVars(H, s) \subseteq DOMAIN vars.em
      THEN FoldLeft(DesIlaUnit, vars, todo)
      ELSE Failed(Work(H, <<>>))
=============================================================================
