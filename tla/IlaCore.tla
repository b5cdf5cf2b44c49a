------------------------------ MODULE IlaCore ------------------------------
(***************************************************************************)
(* The objects of an ILA: a heap of ILAs and instructions, and the methods *)
(* of InstrLvlAbs and Instr that build them.  ILAs and instructions are    *)
(* numbered in the order of their creation.  A variable is known by its    *)
(* name, its kind and the ILA that created it; an expression is abstracted *)
(* to the set of variables in it.  The assertions of the code are on (the  *)
(* debug build): one that fails clears H.ok.                               *)
(***************************************************************************)
EXTENDS Integers, Sequences, SequencesExt, FiniteSetsExt, TLC

Null == [t |-> "null", vs |-> {}]
Expr(vs) == [t |-> "expr", vs |-> vs]
VarOf(n, i, k) == [n |-> n, host |-> i, k |-> k]

(* InstrLvlAbs, with parent 0 for a top-level ILA, and Instr *)
NewIlaRec(name, parent) ==
  [name |-> name, parent |-> parent, inputs |-> <<>>, states |-> <<>>,
   inits |-> <<>>, fetch |-> Null, valid |-> Null, instrs |-> <<>>, childs |-> <<>>,
   seq |-> {}, spec |-> TRUE]
NewInstrRec(name, host) ==
  [name |-> name, host |-> host, decode |-> Null, upd |-> <<>>, prog |-> 0]

EmptyHeap == [ila |-> <<>>, ins |-> <<>>, ok |-> TRUE]
Stop(H) == [H EXCEPT !.ok = FALSE]
NamesIn(table) == {v.n : v \in Range(table)}
VarNames(m) == NamesIn(m.states) \cup NamesIn(m.inputs)

(* InstrLvlAbs::New *)
NewIla(H, name, parent) == [H EXCEPT !.ila = Append(@, NewIlaRec(name, parent))]

(* AddState and AddInput: the name must be in neither table. *)
AddVar(H, i, v) ==
  IF v.n \in VarNames(H.ila[i]) THEN Stop(H)
  ELSE IF v.k = "state" THEN [H EXCEPT !.ila[i].states = Append(@, v)]
  ELSE [H EXCEPT !.ila[i].inputs = Append(@, v)]
NewVar(H, i, n, k) == AddVar(H, i, VarOf(n, i, k))

(* KeyVec::push_back: a key that is there already is left alone.
   Mutant: a second instruction of the same name is added. *)
PushInstr_Faulty(H, i, j) == [H EXCEPT !.ila[i].instrs = Append(@, j)]
PushInstr(H, i, j) ==
  IF \E l \in Range(H.ila[i].instrs) : H.ins[l].name = H.ins[j].name THEN H
  ELSE [H EXCEPT !.ila[i].instrs = Append(@, j)]
PushChild(H, i, c) ==
  IF \E d \in Range(H.ila[i].childs) : H.ila[d].name = H.ila[c].name THEN H
  ELSE [H EXCEPT !.ila[i].childs = Append(@, c)]

(* NewInstr: the new object is the last of the heap, registered or not. *)
NewInstr(H, i, name) ==
  PushInstr([H EXCEPT !.ins = Append(@, NewInstrRec(name, i))], i, Len(H.ins) + 1)

(* NewChild inherits the variables that its parent has at this moment. *)
NewChild(H, i, name) ==
  LET c == Len(H.ila) + 1
      G == NewIla(H, name, i)
  IN  PushChild([G EXCEPT !.ila[c].states = H.ila[i].states,
                          !.ila[c].inputs = H.ila[i].inputs], i, c)

AddInit(H, i, e) == [H EXCEPT !.ila[i].inits = Append(@, e)]
SetFetch(H, i, e) ==
  IF H.ila[i].fetch # Null THEN Stop(H) ELSE [H EXCEPT !.ila[i].fetch = e]
SetValid(H, i, e) ==
  IF H.ila[i].valid # Null THEN Stop(H) ELSE [H EXCEPT !.ila[i].valid = e]

(* A second set_decode or set_update reports an error and changes nothing.
   Mutant: set_decode overwrites. *)
SetDecode_Faulty(H, j, e) == [H EXCEPT !.ins[j].decode = e]
SetDecode(H, j, e) ==
  IF H.ins[j].decode # Null THEN H ELSE [H EXCEPT !.ins[j].decode = e]
SetUpdate(H, j, n, e) ==
  IF n \in DOMAIN H.ins[j].upd THEN H ELSE [H EXCEPT !.ins[j].upd = @ @@ (n :> e)]
SetProgram(H, j, i) ==
  IF H.ins[j].prog # 0 THEN Stop(H) ELSE [H EXCEPT !.ins[j].prog = i]

(* InstrSeq::AddTran, and set_spec *)
AddSeqTran(H, i, src, dst, c) == [H EXCEPT !.ila[i].seq = @ \cup {<<src, dst, c>>}]
SetSpec(H, i, b) == [H EXCEPT !.ila[i].spec = b]

(* DepthFirstVisit (children first) and the order of DepthFirstVisitPrePost. *)
RECURSIVE PostOrder(_, _), PreOrder(_, _)
PostOrder(H, i) ==
  FlattenSeq([k \in DOMAIN H.ila[i].childs |-> PostOrder(H, H.ila[i].childs[k])]) \o <<i>>
PreOrder(H, i) ==
  <<i>> \o FlattenSeq([k \in DOMAIN H.ila[i].childs |-> PreOrder(H, H.ila[i].childs[k])])
=============================================================================
