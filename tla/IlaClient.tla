----------------------------- MODULE IlaClient -----------------------------
(***************************************************************************)
(* A client builds an ILA hierarchy through the API, in any order, and     *)
(* then copies it, flattens it, extracts an instruction with its child-    *)
(* program, or saves and reloads it.                                       *)
(***************************************************************************)
EXTENDS AbsKnob

CONSTANTS VNames, INames, MNames,   \* names of variables, instructions and ILAs
          MaxDefs,                  \* bound: definitions made by the client
          MaxCalls                  \* bound: objects created and definitions made

VARIABLES heap,
          defs,    \* definitions made so far
          out      \* the copy that was made: operation, source, result and rules

coreVars == <<heap, defs, out>>
NoOut == [op |-> "none"]

Ilas == DOMAIN heap.ila
Objs == DOMAIN heap.ins
Known == UNION {Range(heap.ila[i].states) \cup Range(heap.ila[i].inputs) : i \in Ilas}
Exprs == {Expr({})} \cup {Expr({v}) : v \in Known}

CoreInit == heap = NewIla(EmptyHeap, "top", 0) /\ defs = 0 /\ out = NoOut

(* A step of the client: no assertion fails.  The objects are created before
   the definitions: the two commute. *)
Calls == Len(heap.ila) + Len(heap.ins) + Cardinality(Known) + defs
Creates(H) ==
  /\ out = NoOut /\ defs = 0 /\ Calls < MaxCalls
  /\ H.ok /\ heap' = H /\ UNCHANGED <<defs, out>>
Defines(H) ==
  /\ out = NoOut /\ defs < MaxDefs /\ Calls < MaxCalls
  /\ H.ok /\ heap' = H /\ defs' = defs + 1 /\ UNCHANGED out

DoNewVar(i, n, k) == Creates(NewVar(heap, i, n, k))
DoNewInstr(i, n) == Creates(NewInstr(heap, i, n))
DoNewChild(i, n) == Creates(NewChild(heap, i, n))
DoAddInit(i, e) == Defines(AddInit(heap, i, e))
DoSetFetch(i, e) == Defines(SetFetch(heap, i, e))
DoSetValid(i, e) == Defines(SetValid(heap, i, e))
DoSetDecode(j, e) == Defines(SetDecode(heap, j, e))
DoSetUpdate(j, v, e) == v.k = "state" /\ Defines(SetUpdate(heap, j, v.n, e))
DoSetProgram(j, i) == heap.ila[i].parent = heap.ins[j].host /\ Defines(SetProgram(heap, j, i))
DoAddSeqTran(i, a, b) == Defines(AddSeqTran(heap, i, a, b, Expr({})))
DoSetSpec(i) == Defines(SetSpec(heap, i, FALSE))

(* The client gives every missing valid and decode function a constant. *)
DoComplete ==
  LET missing == {i \in Ilas : heap.ila[i].valid = Null}
      undecoded == {j \in Objs : heap.ins[j].decode = Null}
      valid == FoldSet(LAMBDA i, H : SetValid(H, i, Expr({})), heap, missing)
  IN  /\ out = NoOut
      /\ heap' = FoldSet(LAMBDA j, H : SetDecode(H, j, Expr({})), valid, undecoded)
      /\ heap' # heap
      /\ UNCHANGED <<defs, out>>

Finish(op, s, d, S) ==
  /\ out = NoOut
  /\ heap' = S.h
  /\ out' = [op |-> op, src |-> s, dst |-> d, em |-> S.em, old |-> heap]
  /\ UNCHANGED defs
DoCopy == Finish("copy", 1, Len(heap.ila) + 1, CopyIlaTree(heap, 1, "copy"))
DoFlatten == Finish("flatten", 1, 1, FlattenIla(heap, 1))
DoExtract(j) == Finish("extract", j, Len(heap.ila) + 1, ExtrDeptModl(heap, j, "dept"))
DoJson == Finish("json", 1, Len(heap.ila) + 1, JsonRoundTrip(heap, 1))

CoreNext ==
  \/ \E i \in Ilas, n \in VNames, k \in {"state", "input"} : DoNewVar(i, n, k)
  \/ \E i \in Ilas, n \in INames : DoNewInstr(i, n)
  \/ \E i \in Ilas, n \in MNames : DoNewChild(i, n)
  \/ \E i \in Ilas, e \in Exprs :
       DoAddInit(i, e) \/ DoSetFetch(i, e) \/ DoSetValid(i, e)
  \/ \E j \in Objs, e \in Exprs : DoSetDecode(j, e)
  \/ \E j \in Objs, v \in Known, e \in Exprs : DoSetUpdate(j, v, e)
  \/ \E j \in Objs, i \in Ilas : DoSetProgram(j, i)
  \/ \E i \in Ilas : \E a, b \in Range(heap.ila[i].instrs) : DoAddSeqTran(i, a, b)
  \/ \E i \in Ilas : DoSetSpec(i)
  \/ DoComplete
  \/ DoCopy \/ DoFlatten \/ DoJson
  \/ \E j \in Objs : DoExtract(j)

CoreSpec == CoreInit /\ [][CoreNext]_coreVars

-----------------------------------------------------------------------------
VarsOf(H, i) == Range(H.ila[i].states) \cup Range(H.ila[i].inputs)
Tree(H, i) == Range(PreOrder(H, i))
TreeVars(H, i) == UNION {VarsOf(H, a) : a \in Tree(H, i)}
InstrExprs(H, j) == {H.ins[j].decode} \cup Range(H.ins[j].upd)
AttrExprs(H, i) == {H.ila[i].fetch, H.ila[i].valid} \cup Range(H.ila[i].inits)
IlaExprs(H, i) == AttrExprs(H, i) \cup UNION {InstrExprs(H, j) : j \in Range(H.ila[i].instrs)}
VarsIn(es) == UNION {e.vs : e \in es}
Injective(f) == \A a, b \in DOMAIN f : f[a] = f[b] => a = b

(* Type correctness: what is registered in an ILA is an object of the heap under
   a name of its own, and the ILA knows its variables, instructions and children
   by their hosts. *)
CoreTypeOK ==
  /\ defs \in 0..MaxDefs
  /\ heap.ok =>
     \A i \in Ilas : LET m == heap.ila[i] IN
       /\ m.parent \in 0..(i - 1)
       /\ \A v, w \in VarsOf(heap, i) : v.n = w.n => v = w
       /\ \A v \in VarsOf(heap, i) : v.host \in 1..i
       /\ \A j, l \in Range(m.instrs) :
            j \in Objs /\ heap.ins[j].host = i
            /\ (heap.ins[j].name = heap.ins[l].name => j = l)
       /\ \A c, d \in Range(m.childs) :
            c \in Ilas /\ heap.ila[c].parent = i
            /\ (heap.ila[c].name = heap.ila[d].name => c = d)

(* Every child holds all the variables that its parent has by now. *)
Inherits(H, i) ==
  \A a \in Tree(H, i) : \A c \in Range(H.ila[a].childs) : VarsOf(H, a) \subseteq VarsOf(H, c)

(* d in H is s in G with every variable replaced by the rules: the same tables,
   attributes, instructions and children. *)
RECURSIVE SameTree(_, _, _, _, _)
SameTree(G, s, H, d, em) ==
  LET m == G.ila[s]
      n == H.ila[d]
      mapped(e) == Rewrite(e, em)
      image(t) == {em[v] : v \in Range(t)}
  IN  /\ image(m.states) = Range(n.states) /\ image(m.inputs) = Range(n.inputs)
      /\ n.fetch = mapped(m.fetch) /\ n.valid = mapped(m.valid)
      /\ n.inits = [k \in DOMAIN m.inits |-> mapped(m.inits[k])]
      /\ n.spec = m.spec
      /\ Cardinality(n.seq) = Cardinality(m.seq)
      /\ Len(n.instrs) = Len(m.instrs) /\ Len(n.childs) = Len(m.childs)
      /\ \A k \in DOMAIN m.instrs :
           LET a == G.ins[m.instrs[k]]
               b == H.ins[n.instrs[k]]
           IN  /\ a.name = b.name
               /\ b.decode = mapped(a.decode)
               /\ b.upd = [x \in DOMAIN a.upd |-> mapped(a.upd[x])]
               /\ \A c \in DOMAIN m.childs : a.prog = m.childs[c] <=> b.prog = n.childs[c]
      /\ \A k \in DOMAIN m.childs :
           /\ H.ila[n.childs[k]].name = G.ila[m.childs[k]].name
           /\ SameTree(G, m.childs[k], H, n.childs[k], em)

(* Every expression of an ILA is over the variables of the ILAs visited so far. *)
RefersBack(H, i, known) ==
  LET order == PreOrder(H, i)
  IN  \A k \in DOMAIN order :
        VarsIn(IlaExprs(H, order[k])) \subseteq
          known \cup UNION {VarsOf(H, order[l]) : l \in 1..k}
Decoded(H, i) == \A a \in Tree(H, i) : \A j \in Range(H.ila[a].instrs) : H.ins[j].decode # Null
ProgramsIn(H, i) ==
  \A a \in Tree(H, i) : \A j \in Range(H.ila[a].instrs) :
    H.ins[j].prog = 0 \/ H.ins[j].prog \in Tree(H, i)

Copied(s, d) ==
  /\ heap.ok
  /\ TreeVars(out.old, s) \subseteq DOMAIN out.em
  /\ Injective(out.em)
  /\ SameTree(out.old, s, heap, d, out.em)
  /\ \A a \in Tree(heap, d) : VarsIn(IlaExprs(heap, a)) \subseteq TreeVars(heap, d)

(* CopyIlaTree returns the same hierarchy over variables of its own exactly for
   the hierarchies in which every child holds its parent's variables (none was
   declared after the child), the functions refer to no variable of a later
   ILA, every decode function is set, every child-program is registered and no
   instruction sequence was given.
   For all others it aborts, merges variables or shares them with the source. *)
CopyExact ==
  out.op = "copy" =>
    (Copied(1, out.dst) <=>
       /\ Inherits(out.old, 1) /\ RefersBack(out.old, 1, {})
       /\ Decoded(out.old, 1) /\ ProgramsIn(out.old, 1)
       /\ \A a \in Tree(out.old, 1) : out.old.ila[a].seq = {})

(* The ILAs along the path from i up to, and without, the top. *)
RECURSIVE Below(_, _)
Below(H, i) == IF H.ila[i].parent = 0 THEN {} ELSE {i} \cup Below(H, H.ila[i].parent)

(* FlattenIla moves every instruction of the hierarchy to the top, with its
   functions over variables that were kept apart and under the valid conditions
   of its ILAs, exactly when instruction names and variable names are unique in
   the hierarchy, the functions of the top refer to its own variables and the
   others to variables recorded before they are rewritten, every decode function
   is set, every program is a descendant and no valid condition below the top
   restricts an instruction. *)
FlattenExact ==
  LET H == out.old
      lower == Tree(H, 1) \ {1}
      em == out.em @@ [v \in VarsOf(H, 1) |-> v]
      all == UNION {Range(H.ila[a].instrs) : a \in Tree(H, 1)}
      conditions(j) == {H.ila[a].valid : a \in Below(H, H.ins[j].host)} \ {Null, Expr({})}
      moved(j) == \E l \in Range(heap.ila[1].instrs) :
                    /\ heap.ins[l].name = H.ins[j].name
                    /\ {heap.ins[l].decode} = {Rewrite(e, em) : e \in {H.ins[j].decode} \cup conditions(j)}
                    /\ heap.ins[l].upd = [x \in DOMAIN H.ins[j].upd |-> Rewrite(H.ins[j].upd[x], em)]
      own == UNION {Range(H.ila[a].instrs) : a \in lower}
      order == PostOrder(H, 1)
  IN  out.op = "flatten" =>
        (/\ heap.ok
         /\ Injective(em)
         /\ Len(heap.ila[1].instrs) = Cardinality(all)
         /\ \A j \in own : moved(j)
         /\ VarsIn(IlaExprs(heap, 1)) \subseteq VarsOf(heap, 1)
         <=>
         /\ \A v, w \in TreeVars(H, 1) : v.n = w.n => v = w
         /\ \A j, l \in all : H.ins[j].name = H.ins[l].name => j = l
         /\ \A j \in own : H.ins[j].decode # Null /\ conditions(j) \subseteq {H.ins[j].decode}
         /\ \A j \in own : H.ins[j].prog = 0 \/ H.ins[j].prog \in lower
         /\ VarsIn(IlaExprs(H, 1)) \subseteq VarsOf(H, 1)
         /\ VarsIn(UNION {InstrExprs(H, j) : j \in own}) \subseteq TreeVars(H, 1)
         /\ \A k \in DOMAIN order :
              VarsIn(Range(H.ila[order[k]].inits)) \subseteq
                VarsOf(H, 1) \cup UNION {VarsOf(H, order[l]) : l \in 1..k})

(* ExtrDeptModl returns a model of one instruction and its child-program, over
   variables of its own, exactly when the functions of the instruction and of its
   host are over the host's variables and the child-program is one that
   CopyIlaTree would copy, holds all the variables of the host and is marked a
   specification (the mark of the child-program itself is not carried over). *)
ExtractExact ==
  LET H == out.old
      j == H.ins[out.src]
      host == VarsOf(H, j.host)
      d == out.dst
      n == heap.ins[heap.ila[d].instrs[1]]
      mapped(e) == Rewrite(e, out.em)
  IN  out.op = "extract" =>
        (/\ heap.ok
         /\ Injective(out.em)
         /\ {out.em[v] : v \in host} = VarsOf(heap, d)
         /\ VarsIn(UNION {IlaExprs(heap, a) : a \in Tree(heap, d)}) \subseteq TreeVars(heap, d)
         /\ heap.ila[d].fetch = mapped(H.ila[j.host].fetch)
         /\ heap.ila[d].valid = mapped(H.ila[j.host].valid)
         /\ n.decode = mapped(j.decode)
         /\ n.upd = [u \in DOMAIN j.upd |-> mapped(j.upd[u])]
         /\ j.prog # 0 => /\ heap.ila[d].childs = <<n.prog>>
                          /\ SameTree(H, j.prog, heap, n.prog, out.em)
         <=>
         /\ j.decode # Null
         /\ VarsIn(AttrExprs(H, j.host) \cup InstrExprs(H, out.src)) \subseteq host
         /\ j.prog # 0 =>
              /\ host \subseteq VarsOf(H, j.prog) /\ Inherits(H, j.prog)
              /\ RefersBack(H, j.prog, host)
              /\ Decoded(H, j.prog) /\ ProgramsIn(H, j.prog) /\ H.ila[j.prog].spec
              /\ \A a \in Tree(H, j.prog) : H.ila[a].seq = {})

(* Saving to JSON and loading again gives the same variables, functions and
   children, with the states an instruction does not mention updated to
   themselves, exactly when every child holds its parent's variables, the names
   of the ILAs are unique, every valid and decode function is set, every
   function is over variables of the hierarchy and every update names a state of
   its ILA.  Otherwise loading aborts or updates are dropped; child-programs and
   sequences are always dropped. *)
RECURSIVE SameJson(_, _, _, _, _)
SameJson(G, s, H, d, em) ==
  LET m == G.ila[s]
      n == H.ila[d]
      mapped(e) == Rewrite(e, em)
      orItself(upd, v) == IF v.n \in DOMAIN upd THEN upd[v.n] ELSE Expr({v})
  IN  /\ {em[v] : v \in VarsOf(G, s)} = VarsOf(H, d)
      /\ n.valid = mapped(m.valid) /\ m.fetch # Null => n.fetch = mapped(m.fetch)
      /\ n.inits = [k \in DOMAIN m.inits |-> mapped(m.inits[k])]
      /\ Len(n.instrs) = Len(m.instrs) /\ Len(n.childs) = Len(m.childs)
      /\ \A k \in DOMAIN m.instrs :
           LET a == G.ins[m.instrs[k]]
               b == H.ins[n.instrs[k]]
           IN  /\ a.name = b.name /\ b.decode = mapped(a.decode)
               /\ \A v \in Range(m.states) : b.upd[v.n] = mapped(orItself(a.upd, v))
               /\ DOMAIN a.upd \subseteq DOMAIN b.upd
      /\ \A k \in DOMAIN m.childs : SameJson(G, m.childs[k], H, n.childs[k], em)
JsonExact ==
  LET H == out.old
  IN  out.op = "json" =>
        (/\ heap.ok
         /\ Injective(out.em)
         /\ SameJson(H, 1, heap, out.dst, out.em)
         /\ VarsIn(UNION {IlaExprs(heap, a) : a \in Tree(heap, out.dst)})
              \subseteq TreeVars(heap, out.dst)
         <=>
         /\ Inherits(H, 1) /\ Serialisable(H, 1)
         /\ \A a, b \in Tree(H, 1) : H.ila[a].name = H.ila[b].name => a = b
         /\ VarsIn(UNION {IlaExprs(H, a) : a \in Tree(H, 1)}) \subseteq TreeVars(H, 1)
         /\ \A a \in Tree(H, 1) : \A j \in Range(H.ila[a].instrs) :
              DOMAIN H.ins[j].upd \subseteq NamesIn(H.ila[a].states))

(* No call of the client, and no copy, extraction, flattening or saving of a
   hierarchy, changes what was defined before: a decode function or an update
   that is set stays, and tables and sequences of an ILA only grow. *)
DefinitionsStable ==
  [][/\ \A j \in Objs :
          /\ heap.ins[j].decode # Null => heap'.ins[j].decode = heap.ins[j].decode
          /\ heap.ins[j].prog # 0 => heap'.ins[j].prog = heap.ins[j].prog
          /\ \A n \in DOMAIN heap.ins[j].upd : heap'.ins[j].upd[n] = heap.ins[j].upd[n]
     /\ \A i \in Ilas :
          /\ IsPrefix(heap.ila[i].states, heap'.ila[i].states)
          /\ IsPrefix(heap.ila[i].inputs, heap'.ila[i].inputs)
          /\ IsPrefix(heap.ila[i].instrs, heap'.ila[i].instrs)
          /\ IsPrefix(heap.ila[i].childs, heap'.ila[i].childs)
          /\ IsPrefix(heap.ila[i].inits, heap'.ila[i].inits)]_coreVars
=============================================================================
