-------------------------- MODULE OpConformance --------------------------
(***************************************************************************)
(* A client builds an expression bottom up through the C++ API; every back *)
(* end translates every node.  nodes[i] is the AST (the leaves first), and *)
(* val[i][b] the value of node i under back end b, for the values that the *)
(* variables have in this behavior.                                        *)
(***************************************************************************)
EXTENDS BackEnds

CONSTANTS Leaves,       \* the clients: their leaves, and how many calls they make
          MaxWidth,     \* bound: the widest bit vector a client builds
          Imms          \* integer arguments tried for the overloads

BackEnd == {"z3", "switch", "vlg", "sim", "ilator", "json", "rewrite"}

VARIABLES nodes, val,
          handles,      \* the nodes the client holds an ExprRef of
          budget,       \* API calls left
          unsignedCmp,  \* the global flag UnsignedComparison
          call          \* the last comparison asked for: operator, flag, operands

exprVars == <<nodes, val, handles, budget, unsignedCmp, call>>
NoCall == [f |-> "none", u |-> FALSE, a |-> <<>>]

(* Leaves: variables and constants, the latter as each back end prints them. *)
LeafVal(b, l) ==
  CASE l.op = "VAR" -> As("var", l.c)
    [] l.op = "BOOL" -> As("const", BoolVal(l.p[1]))
    [] l.op = "BV" -> As("const", ConstBv(l.p[1], l.p[2]))
    [] l.op = "MEM" ->
         LET exact == MemVal(l.p[1], l.p[2], [i \in 0 .. (2^l.p[1] - 1) |->
                        IF i \in DOMAIN l.c THEN l.c[i] ELSE l.p[3]])
         IN  As("const", IF b \in {"sim", "ilator"}
                         THEN SimMemConst(l.p[1], l.p[2], l.p[3], l.c) ELSE exact)
    [] OTHER -> NoVal

Translate(b, op, a, p) ==
  CASE b = "z3" -> GetZ3Expr(op, a, p)
    [] b = "switch" -> ExprOp2Term(op, a, p)
    [] b = "vlg" -> VlgOp(op, a, p)
    [] b = "sim" -> dfs_kernel(op, a, p)
    [] b = "ilator" -> DfsOp(op, a, p)
    [] b = "json" -> DesExprOp(op, a, p)
    [] b = "rewrite" -> RewriteOp(op, a, p)

(* The nodes a term adds to the AST, children first: kids are node numbers. *)
RECURSIVE Flatten(_, _, _)
Flatten(t, args, seq) ==
  IF t.op = "ARG" THEN [n |-> args[t.p[1]], seq |-> seq]
  ELSE LET RECURSIVE FlattenKids(_, _, _)
           FlattenKids(i, ns, s) ==
             IF i > Len(t.kids) THEN [ns |-> ns, seq |-> s]
             ELSE LET r == Flatten(t.kids[i], args, s)
                  IN  FlattenKids(i + 1, Append(ns, r.n), r.seq)
           done == FlattenKids(1, <<>>, seq)
       IN  [n |-> Len(done.seq) + 1,
            seq |-> Append(done.seq, [op |-> t.op, kids |-> done.ns, p |-> t.p])]

ArgsOf(vals, n, b) == [i \in DOMAIN n.kids |-> vals[n.kids[i]][b]]
NodeVal(vals, n) ==
  [b \in BackEnd |-> IF n.kids = <<>> THEN LeafVal(b, n)
                     ELSE Translate(b, n.op, ArgsOf(vals, n, b), n.p)]
RECURSIVE Evaluate(_, _)
Evaluate(vals, ns) ==
  IF Len(vals) = Len(ns) THEN vals
  ELSE Evaluate(Append(vals, NodeVal(vals, ns[Len(vals) + 1])), ns)

ExprInit ==
  /\ \E client \in Leaves : nodes = client.leaves /\ budget = client.calls
  /\ val = Evaluate(<<>>, nodes) /\ handles = DOMAIN nodes
  /\ unsignedCmp = FALSE
  /\ call = NoCall

(* asthub builds term t from the nodes args.  A call is made only when z3
   gives the whole term a value: the constructors accept it.  A client goes on
   from the expression it has just built. *)
Build(t, args) ==
  LET ns == Flatten(t, args, nodes).seq
      vs == Evaluate(val, ns)
  IN  /\ Len(nodes) \in Range(args) \/ nodes[Len(nodes)].kids = <<>>
      /\ \A i \in DOMAIN ns : Defined(vs[i]["z3"]) /\ vs[i]["z3"].w <= MaxWidth
      /\ nodes' = ns /\ val' = vs /\ handles' = handles \cup {Len(ns)}
      /\ budget' = budget - 1 /\ UNCHANGED unsignedCmp

MayCall == budget > 0
Z3Of(args) == [i \in DOMAIN args |-> val[args[i]]["z3"]]
Compared == {"<", "<=", ">", ">=", "Slt", "Sle", "Sgt", "Sge", "Ult", "Ule",
             "Ugt", "Uge", "==", "!="}
Asked(f, a) == IF f \in Compared \cup {"&", "|", "^", "Append"}
               THEN [f |-> f, u |-> unsignedCmp, a |-> a] ELSE NoCall
NotMem(i) == ~IsMem(val[i]["z3"])

CallUnary(f, i) ==
  /\ MayCall /\ call' = NoCall
  /\ Build(Hub(ApiUnary[f], Z3Of(<<i>>), <<>>), <<i>>)

CallBinary(f, i, j) ==
  /\ MayCall /\ NotMem(i) /\ NotMem(j)
  /\ call' = Asked(f, Z3Of(<<i, j>>))
  /\ Build(Hub(ApiBinary(f, unsignedCmp), Z3Of(<<i, j>>), <<>>), <<i, j>>)

(* The overloads that take a number: it becomes the second argument. *)
WithInt(t, c) ==
  [t EXCEPT !.kids = [i \in DOMAIN @ |->
     IF @[i].op = "ARG" /\ @[i].p = <<2>> THEN c
     ELSE IF @[i].op = "ARG" THEN @[i]
     ELSE [@[i] EXCEPT !.kids = [j \in DOMAIN @ |->
            IF @[j].op = "ARG" /\ @[j].p = <<2>> THEN c ELSE @[j]]]]]
CallInt(f, i, n) ==
  LET a == val[i]["z3"] IN
  /\ MayCall /\ NotMem(i) /\ (IsBool(a) => f \in {"==", "!="})
  /\ LET g == ApiBinary(f, unsignedCmp)
     IN  /\ call' = Asked(f, <<a, LeafVal("z3", IntConst(g, a, n))>>)
         /\ Build(WithInt(Hub(g, <<a, a>>, <<>>), IntConst(g, a, n)), <<i>>)
CallLoadInt(i, n) ==
  LET a == val[i]["z3"] IN
  /\ MayCall /\ IsMem(a) /\ call' = NoCall
  /\ Build(WithInt(Hub("Load", <<a, a>>, <<>>), IntConst("Load", a, n)), <<i>>)

CallMemory(f, i, j, k) ==
  LET args == IF f = "Load" THEN <<i, j>> ELSE <<i, j, k>> IN
  /\ MayCall /\ IsMem(val[i]["z3"]) /\ NotMem(j) /\ NotMem(k) /\ call' = NoCall
  /\ Build(Hub(ApiMemory[f], Z3Of(args), <<>>), args)

CallSlice(f, i, m, n) ==
  LET p == IF f = "Extract" THEN <<m, n>>
           ELSE IF f = "SelectBit" THEN <<m, m>> ELSE <<m>> IN
  /\ MayCall /\ NotMem(i) /\ call' = NoCall
  /\ Build(Hub(ApiSlice[f], Z3Of(<<i>>), p), <<i>>)

CallBranch(f, i, j, k) ==
  LET args == IF f = "FuncRef()" THEN <<i>> ELSE IF f = "Imply" THEN <<i, j>>
              ELSE <<i, j, k>> IN
  /\ MayCall /\ call' = NoCall
  /\ Build(Hub(ApiBranch[f], Z3Of(args), <<>>), args)

(* SetUnsignedComparison *)
SetUnsignedComparison ==
  /\ MayCall /\ unsignedCmp' = ~unsignedCmp
  /\ UNCHANGED <<nodes, val, handles, budget, call>>

ExprNext ==
  \/ \E f \in DOMAIN ApiUnary, i \in handles : CallUnary(f, i)
  \/ \E f \in DOMAIN ApiSigned \cup DOMAIN ApiPlain \cup DOMAIN ApiNamed, i, j \in handles :
       CallBinary(f, i, j)
  \/ \E f \in ApiInt, i \in handles, n \in Imms : CallInt(f, i, n)
  \/ \E i \in handles, n \in Imms : CallLoadInt(i, n)
  \/ \E f \in DOMAIN ApiMemory, i, j, k \in handles : CallMemory(f, i, j, k)
  \/ \E f \in DOMAIN ApiSlice, i \in handles, m, n \in Imms : CallSlice(f, i, m, n)
  \/ \E f \in DOMAIN ApiBranch, i, j, k \in handles : CallBranch(f, i, j, k)
  \/ SetUnsignedComparison

ExprSpec == ExprInit /\ [][ExprNext]_exprVars
-----------------------------------------------------------------------------
(* Properties *)

Agrees(b, i) == SameVal(val[i][b], val[i]["z3"])
ZArgs(i) == ArgsOf(val, nodes[i], "z3")
RECURSIVE Below(_)
Below(i) == {i} \cup UNION {Below(nodes[i].kids[k]) : k \in DOMAIN nodes[i].kids}
KidOp(i, k) == nodes[nodes[i].kids[k]].op

(* Signed and unsigned division coincide on non-negative operands. *)
PlainDivision(a) == Msb(a[1]) = 0 /\ Msb(a[2]) = 0 /\ a[2].v # 0

IsConst(i, k) == KidOp(i, k) \in {"BV", "BOOL"}

(* The fragment on which the generated Verilog is right. *)
VlgSafe(i) ==
  LET n == nodes[i]  a == ZArgs(i) IN
  /\ n.op \notin {"SREM", "SMOD", "STORE"}
  /\ n.op = "DIV" => PlainDivision(a)
  /\ n.op = "UREM" => a[2].v # 0
  /\ n.op \in RotateOps => 0 < n.p[1] /\ n.p[1] < a[1].w
  /\ n.op = "EXTRACT" => a[1].w > 1
  /\ n.op = "SIGN_EXTEND" => a[1].w > 1 \/ n.p[1] = 1 \/ IsConst(i, 1)
  /\ n.op = "LOAD" => KidOp(i, 1) = "VAR"
  /\ n.op = "ITE" => ~IsMem(a[2])

(* What both SystemC generators get right. *)
SystemCSafe(i) ==
  LET n == nodes[i]  a == ZArgs(i) IN
  /\ n.op \notin RotateOps \cup {"SREM", "SMOD", "STORE"}
  /\ n.op = "DIV" => PlainDivision(a)
  /\ n.op = "UREM" => a[2].v # 0
  /\ n.op = "ASHR" => Msb(a[1]) = 0 \/ a[2].v = 0
  /\ n.op \in {"LT", "GT"} => Msb(a[1]) = Msb(a[2])
  /\ n.op = "IMPLY" => a[1].v # a[2].v
  /\ n.op = "LOAD" => nodes[nodes[i].kids[1]].kids = <<>>
  /\ n.op = "ITE" => ~IsMem(a[2])
  /\ n.op = "MEM" => n.p[3] = 0 \/ DOMAIN n.c = 0 .. (2^n.p[1] - 1)

IlaSimSafe(i) ==
  LET n == nodes[i] IN
  /\ SystemCSafe(i)
  /\ n.op \in {"EXTRACT", "SIGN_EXTEND"} => ~IsConst(i, 1)

(* A node whose C++ object is narrower than its sort: an extension, or a
   choice between such nodes. *)
RECURSIVE Narrow(_)
Narrow(i) ==
  LET n == nodes[i] IN
  \/ n.op \in {"ZERO_EXTEND", "SIGN_EXTEND"} /\ n.p[1] > ZArgs(i)[1].w
  \/ n.op \in {"ZERO_EXTEND", "SIGN_EXTEND"} /\ Narrow(n.kids[1])
  \/ n.op = "ITE" /\ (Narrow(n.kids[2]) \/ Narrow(n.kids[3]))
IlatorSafe(i) ==
  LET n == nodes[i]  a == ZArgs(i) IN
  /\ SystemCSafe(i)
  /\ n.op = "SIGN_EXTEND" => Msb(a[1]) = 0 \/ n.p[1] = a[1].w
  /\ n.op \in {"COMPLEMENT", "EXTRACT", "SIGN_EXTEND", "ZERO_EXTEND"}
       => ~Narrow(n.kids[1])

Clean(safe(_), i) == \A j \in Below(i) : safe(j)

(* The smt-switch terms and an expression read back from JSON mean what the
   z3 translation means, for every operator, width and constant. *)
SmtAndJsonAgree ==
  \A i \in DOMAIN nodes : Agrees("switch", i) /\ Agrees("json", i)

(* FuncObjRewrExpr rebuilds an expression with its meaning exactly when it
   holds no signed remainder and no signed modulus: for these it returns a
   null pointer that reaches the enclosing constructors. *)
RewriteExact ==
  \A i \in DOMAIN nodes :
    Agrees("rewrite", i) <=> \A j \in Below(i) : nodes[j].op \notin {"SREM", "SMOD"}

(* The generated Verilog computes the z3 value of every expression built in
   the fragment VlgSafe (DIV is emitted unsigned, a rotation by 0 or by the
   width is ill-formed, as is a bit or part select of a 1-bit wire; division by
   zero is x; LOAD needs a variable). *)
VerilogFragment == \A i \in DOMAIN nodes : Clean(VlgSafe, i) => Agrees("vlg", i)

(* The generated SystemC computes the z3 value: the IlaSim model in the fragment
   IlaSimSafe (signed order, arithmetic shift, division and implication are
   emitted with the unsigned or conjunctive C++ operator; a literal has no bits
   to select), the Ilator model in the fragment IlatorSafe (an extension keeps
   the narrow C++ object, so that its complement, slice or further extension is
   outside the fragment). *)
SystemCFragment ==
  \A i \in DOMAIN nodes :
    /\ Clean(IlaSimSafe, i) => Agrees("sim", i)
    /\ Clean(IlatorSafe, i) => Agrees("ilator", i)

(* What the API promises of an operator on numbers, flag u as it was at the
   call: the value asthub's lowering must have. *)
Meaning(f, u, a) ==
  LET x == a[1].v  y == a[2].v
      lt == IF u THEN x < y ELSE Signed(a[1]) < Signed(a[2])
      slt == Signed(a[1]) < Signed(a[2]) IN
  CASE f = "<" -> lt [] f = "<=" -> lt \/ x = y
    [] f = ">" -> ~lt /\ x # y [] f = ">=" -> ~lt
    [] f = "Slt" -> slt [] f = "Sle" -> slt \/ x = y
    [] f = "Sgt" -> ~slt /\ x # y [] f = "Sge" -> ~slt
    [] f = "Ult" -> x < y [] f = "Ule" -> x <= y
    [] f = "Ugt" -> x > y [] f = "Uge" -> x >= y
    [] f = "==" -> x = y [] f = "!=" -> x # y
(* A comparison has the signedness that the flag asked for when it was built,
   in all its overloads and however the flag changes afterwards; a Boolean
   joined with a bit of width one is joined with the truth of that bit. *)
LoweringMeans ==
  LET last == val[Len(nodes)]["z3"] IN
  /\ call.f \in Compared =>
       last.v = (IF Meaning(call.f, call.u, call.a) THEN 1 ELSE 0)
  /\ call.f \in {"&", "|", "^"} /\ ~SameSort(call.a[1], call.a[2]) =>
       /\ IsBool(last)
       /\ last.v = (CASE call.f = "&" -> AndBit(call.a[1].v, call.a[2].v)
                      [] call.f = "|" -> OrBit(call.a[1].v, call.a[2].v)
                      [] call.f = "^" -> XorBit(call.a[1].v, call.a[2].v))
  /\ call.f = "Append" =>
       last.w = call.a[1].w + call.a[2].w
         /\ last.v = call.a[1].v * 2^call.a[2].w + call.a[2].v
=============================================================================
