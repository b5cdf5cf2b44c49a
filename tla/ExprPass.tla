----------------------------- MODULE ExprPass -----------------------------
(***************************************************************************)
(* The passes that rewrite the expressions of an ILA: RewriteConditional-  *)
(* Store, RewriteStoreLoad and SimplifySyntactic.  The client of           *)
(* OpConformance has finished an expression; passes are run on it one      *)
(* after the other, as ExecutePass does.                                   *)
(***************************************************************************)
EXTENDS OpConformance

CONSTANT MaxPasses   \* bound: passes run on one expression

VARIABLES passes,    \* the passes run so far
          root,      \* the node that holds the expression, 0 before the first pass
          before     \* its z3 value before the first pass

passVars == <<passes, root, before>>
allVars == <<exprVars, passVars>>

IsOp(ns, i) == ns[i].kids # <<>>
IsStore(ns, i) == ns[i].op = "STORE"
Kid(ns, i, k) == ns[ns[i].kids[k]]

(* DepthFirstVisit of the arguments, then of the node. *)
RECURSIVE Visit(_, _)
Visit(ns, i) ==
  LET RECURSIVE VisitKids(_)
      VisitKids(k) == IF k > Len(ns[i].kids) THEN <<>>
                      ELSE Visit(ns, ns[i].kids[k]) \o VisitKids(k + 1)
  IN  VisitKids(1) \o <<i>>

(***************************************************************************)
(* A rewriter keeps the rule from nodes to rewritten nodes.  A step gets   *)
(* the nodes so far and a node whose arguments are already rewritten, and  *)
(* returns the nodes and the number of the result.                         *)
(***************************************************************************)
Put(ns, op, kids, p) ==
  [seq |-> Append(ns, [op |-> op, kids |-> kids, p |-> p]), n |-> Len(ns) + 1]

(* FuncObjRewrExpr: leaves stay, operators are built again. *)
RewrDefault(ns, n, kids) == Put(ns, n.op, kids, n.p)

(* STORE(m, a, ITE(c, d, LOAD(m, a))), or with the branches swapped *)
StoreOrKeep(ns, c, m, a, d, then) ==
  LET ld == Put(ns, "LOAD", <<m, a>>, <<>>)
      nd == Put(ld.seq, "ITE", IF then THEN <<c, d, ld.n>> ELSE <<c, ld.n, d>>, <<>>)
  IN  Put(nd.seq, "STORE", <<m, a, nd.n>>, <<>>)
StoreEither(ns, c, m1, m2) ==
  LET a == Put(ns, "ITE", <<c, ns[m1].kids[2], ns[m2].kids[2]>>, <<>>)
      d == Put(a.seq, "ITE", <<c, ns[m1].kids[3], ns[m2].kids[3]>>, <<>>)
  IN  Put(d.seq, "STORE", <<ns[m1].kids[1], a.n, d.n>>, <<>>)

(* Mutant: the stored value is written whether or not the condition holds. *)
RewriteCondMem_Faulty(ns, n, kids) ==
  LET m1 == kids[2]  m2 == kids[3] IN
  IF IsStore(ns, m1) /\ ~IsOp(ns, m2) /\ ns[m1].kids[1] = m2
  THEN Put(ns, "STORE", <<m2, ns[m1].kids[2], ns[m1].kids[3]>>, <<>>)
  ELSE RewrDefault(ns, n, kids)

RewriteCondMem(ns, n, kids) ==
  LET c == kids[1]  m1 == kids[2]  m2 == kids[3] IN
  CASE m1 = m2 -> [seq |-> ns, n |-> m1]
    [] IsStore(ns, m1) /\ ~IsOp(ns, m2) /\ ns[m1].kids[1] = m2 ->
         StoreOrKeep(ns, c, m2, ns[m1].kids[2], ns[m1].kids[3], TRUE)
    [] ~IsOp(ns, m1) /\ IsStore(ns, m2) /\ ns[m2].kids[1] = m1 ->
         StoreOrKeep(ns, c, m1, ns[m2].kids[2], ns[m2].kids[3], FALSE)
    [] IsStore(ns, m1) /\ IsStore(ns, m2) /\ ns[m1].kids[1] = ns[m2].kids[1] ->
         StoreEither(ns, c, m1, m2)
    [] OTHER -> RewrDefault(ns, n, kids)

(* FuncObjRewrCondStore overrides RewriteOp.  The RewriteOp of FuncObjRewr-
   StoreLoad takes its argument by value: it hides the virtual function and
   the base class calls its own. *)
RewrStep(pass, isMem, ns, n, kids) ==
  IF pass = "RewriteConditionalStore" /\ n.op = "ITE" /\ isMem
  THEN RewriteCondMem(ns, n, kids) ELSE RewrDefault(ns, n, kids)

RECURSIVE Rewr(_, _, _, _)
Rewr(pass, todo, ns, rule) ==
  IF todo = <<>> THEN [seq |-> ns, rule |-> rule]
  ELSE LET i == Head(todo) IN
       IF i \in DOMAIN rule THEN Rewr(pass, Tail(todo), ns, rule)
       ELSE IF ~IsOp(ns, i) THEN Rewr(pass, Tail(todo), ns, rule @@ (i :> i))
       ELSE LET kids == [k \in DOMAIN ns[i].kids |-> rule[ns[i].kids[k]]]
                r == RewrStep(pass, IsMem(val[i]["z3"]), ns, ns[i], kids)
            IN  Rewr(pass, Tail(todo), r.seq, rule @@ (i :> r.n))

(***************************************************************************)
(* ExprMngr: the hash of a node is its operator, its arguments and its     *)
(* parameters; of a variable or memory constant its identity.              *)
(***************************************************************************)
Hash(ns, i) ==
  IF ns[i].op \in {"VAR", "MEM"} THEN <<"var", <<i>>, <<>>>>
  ELSE <<ns[i].op, ns[i].kids, ns[i].p>>

(* operator(): the arguments are replaced in place by their representatives;
   the first node of a hash becomes the representative. *)
(* Mutant: a visited node keeps its arguments. *)
RepsOfKids_Faulty(ns, i, map) == ns[i].kids
RepsOfKids(ns, i, map) == [k \in DOMAIN ns[i].kids |-> map[Hash(ns, ns[i].kids[k])]]

RECURSIVE Represent(_, _, _)
Represent(todo, ns, map) ==
  IF todo = <<>> THEN [seq |-> ns, map |-> map]
  ELSE LET i == Head(todo)
           ns2 == [ns EXCEPT ![i].kids = RepsOfKids(ns, i, map)]
       IN  Represent(Tail(todo), ns2, map @@ (Hash(ns2, i) :> i))
-----------------------------------------------------------------------------
RECURSIVE ValueOf(_, _)
ValueOf(ns, i) ==
  NodeVal([j \in Range(ns[i].kids) |-> ValueOf(ns, j)], ns[i])
Top == IF root = 0 THEN Len(nodes) ELSE root

(* RewriteGeneric with one expression: the result replaces it.  The rewriter
   returns a null pointer for a signed remainder or modulus. *)
Install(pass, ns, n) ==
  /\ nodes' = ns /\ val' = [i \in DOMAIN ns |-> ValueOf(ns, i)]
  /\ root' = n /\ passes' = Append(passes, pass)
  /\ before' = IF root = 0 THEN val[Top]["z3"] ELSE before
  /\ UNCHANGED <<handles, budget, unsignedCmp, call>>

(* Passes are tried on finished expressions with a store. *)
MayPass == /\ budget = 0 /\ Len(passes) < MaxPasses /\ IsOp(nodes, Len(nodes))
           /\ \E i \in Below(Top) : IsStore(nodes, i)

RewritePass(pass) ==
  /\ MayPass
  /\ \A i \in Below(Top) : nodes[i].op \notin {"SREM", "SMOD"}
  /\ LET r == Rewr(pass, Visit(nodes, Top), nodes, <<>>)
     IN  Install(pass, r.seq, r.rule[Top])

SimplifySyntactic ==
  /\ MayPass
  /\ LET r == Represent(Visit(nodes, Top), nodes, <<>>)
     IN  Install("SimplifySyntactic", r.seq, r.map[Hash(r.seq, Top)])

PassInit == ExprInit /\ passes = <<>> /\ root = 0 /\ before = NoVal
PassNext ==
  \/ root = 0 /\ ExprNext /\ UNCHANGED passVars
  \/ \E pass \in {"RewriteConditionalStore", "RewriteStoreLoad"} : RewritePass(pass)
  \/ SimplifySyntactic
PassSpec == PassInit /\ [][PassNext]_allVars
-----------------------------------------------------------------------------
(* No sequence of passes changes the z3 value of the expression, although
   SimplifySyntactic replaces arguments in place, in nodes that other
   expressions share, and the rewriters go on from one another's results. *)
PassesPreserveMeaning == root # 0 => SameVal(val[root]["z3"], before)

(* After SimplifySyntactic equal subexpressions are one node. *)
SharedOnce ==
  passes # <<>> /\ passes[Len(passes)] = "SimplifySyntactic" =>
    \A i, j \in Below(root) : Hash(nodes, i) = Hash(nodes, j) => i = j
=============================================================================
