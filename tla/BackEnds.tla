---------------------------- MODULE BackEnds -----------------------------
(***************************************************************************)
(* What each back end makes of an operator: the smt-switch interface, the  *)
(* Verilog generator, the two SystemC generators (IlaSim and Ilator), the  *)
(* JSON round trip and the expression rewriter.  a are the arguments as    *)
(* that back end sees them.                                                *)
(***************************************************************************)
EXTENDS IlaExpr

Known(a) == \A i \in DOMAIN a : Defined(a[i])

(* SmtSwitchItf::ExprOp2Term *)
SwitchCore ==
  ("NOT" :> "not") @@ ("NEGATE" :> "bvneg") @@ ("COMPLEMENT" :> "bvnot")
  @@ ("SHL" :> "bvshl") @@ ("ASHR" :> "bvashr") @@ ("LSHR" :> "bvlshr")
  @@ ("ADD" :> "bvadd") @@ ("SUB" :> "bvsub") @@ ("DIV" :> "bvsdiv")
  @@ ("SREM" :> "bvsrem") @@ ("UREM" :> "bvurem") @@ ("SMOD" :> "bvsmod")
  @@ ("MUL" :> "bvmul")
SwitchRest ==
  ("EQ" :> "=") @@ ("LT" :> "bvslt") @@ ("GT" :> "bvsgt") @@ ("ULT" :> "bvult")
  @@ ("UGT" :> "bvugt") @@ ("LOAD" :> "select") @@ ("STORE" :> "store")
  @@ ("CONCAT" :> "concat") @@ ("EXTRACT" :> "extract")
  @@ ("ZERO_EXTEND" :> "zero_extend") @@ ("SIGN_EXTEND" :> "sign_extend")
  @@ ("LEFT_ROTATE" :> "rotate_left") @@ ("RIGHT_ROTATE" :> "rotate_right")
  @@ ("IMPLY" :> "=>") @@ ("ITE" :> "ite") @@ ("APP" :> "apply")
(* Mutant: BVXor is taken for BVOr. *)
SwitchLogic_Faulty(op, bool) ==
  CASE op = "AND" -> IF bool THEN "and" ELSE "bvand"
    [] op = "OR" -> IF bool THEN "or" ELSE "bvor"
    [] op = "XOR" -> IF bool THEN "xor" ELSE "bvor"
SwitchLogic(op, bool) ==
  CASE op = "AND" -> IF bool THEN "and" ELSE "bvand"
    [] op = "OR" -> IF bool THEN "or" ELSE "bvor"
    [] op = "XOR" -> IF bool THEN "xor" ELSE "bvxor"
ExprOp2Term(op, a, p) ==
  IF ~Known(a) THEN NoVal
  ELSE LET name == IF op \in LogicOps THEN SwitchLogic(op, IsBool(a[1]))
                   ELSE IF op \in DOMAIN SwitchCore THEN SwitchCore[op]
                   ELSE SwitchRest[op]
           diff == IF op \in {"ZERO_EXTEND", "SIGN_EXTEND"}
                   THEN <<p[1] - a[1].w>> ELSE p
       IN  Smt(name, a, diff)

(***************************************************************************)
(* VerilogGenerator.  Division and remainder by zero yield x; a part       *)
(* select outside the range or with reversed bounds is rejected, and so is *)
(* any select of a 1-bit wire: WidthToRange declares it as a scalar.       *)
(***************************************************************************)
translateBoolOp(op, a) ==
  CASE op = "NOT" -> BoolVal(1 - a[1].v)
    [] op = "AND" -> BoolVal(AndBit(a[1].v, a[2].v))
    [] op = "OR" -> BoolVal(OrBit(a[1].v, a[2].v))
    [] op = "XOR" -> BoolVal(XorBit(a[1].v, a[2].v))
    [] op = "EQ" -> IF IsMem(a[1]) THEN NoVal ELSE Truth(a[1].v = a[2].v)
    [] op = "IMPLY" -> BoolVal(OrBit(1 - a[1].v, a[2].v))
    [] op = "LT" -> Truth(Signed(a[1]) < Signed(a[2]))
    [] op = "GT" -> Truth(Signed(a[1]) > Signed(a[2]))
    [] op = "ULT" -> Truth(a[1].v < a[2].v)
    [] op = "UGT" -> Truth(a[1].v > a[2].v)
    [] op = "ITE" -> BoolVal(IF a[1].v = 1 THEN a[2].v ELSE a[3].v)
    [] OTHER -> NoVal

Ranged(x) == x.w > 1
VlgExtract(x, p) == IF Ranged(x) THEN BvExtract(x, p[1], p[2]) ELSE NoVal

(* { x[hi1:lo1], x[hi2:lo2] } *)
PartPair(a, hi1, lo1, hi2, lo2) ==
  LET x == BvExtract(a, hi1, lo1)  y == BvExtract(a, hi2, lo2)
  IN  IF Known(<<x, y>>) THEN IndexedOp("concat", <<x, y>>, <<>>) ELSE NoVal

(* {n'd0, x} and {{n{x[w-1]}}, x}, of a 1-bit constant {{n{x}}, x} *)
VlgExtend(op, x, p) ==
  IF op = "ZERO_EXTEND" \/ p[1] = x.w THEN BvVal(p[1], x.v)
  ELSE IF ~Ranged(x) /\ x.at # "const" THEN NoVal
  ELSE BvVal(p[1], Bit(x.v, x.w - 1) * (2^p[1] - 2^x.w) + x.v)

translateBvUnary(op, a, p) ==
  LET x == a[1]  w == a[1].w IN
  CASE op = "NEGATE" -> BvVal(w, (Ones(w) - x.v) + 1)
    [] op = "COMPLEMENT" -> BvVal(w, Ones(w) - x.v)
    [] op = "EXTRACT" -> VlgExtract(x, p)
    [] op \in {"ZERO_EXTEND", "SIGN_EXTEND"} -> VlgExtend(op, x, p)
    [] op = "RIGHT_ROTATE" -> PartPair(x, p[1] - 1, 0, w - 1, p[1])
    [] op = "LEFT_ROTATE" -> PartPair(x, w - 1 - p[1], 0, w - 1, w - p[1])
    [] op = "APP" -> FunVal(x)
    [] OTHER -> NoVal

(* <<, >>> of $signed, >> *)
(* Mutant: the arithmetic shift loses its $signed. *)
VlgShift_Faulty(op, x, y) == IF op = "SHL" THEN BvShl(x, y) ELSE BvLshr(x, y)
VlgShift(op, x, y) ==
  CASE op = "SHL" -> BvShl(x, y)
    [] op = "ASHR" -> BvAshr(x, y)
    [] op = "LSHR" -> BvLshr(x, y)

translateBvBinary(op, a) ==
  LET x == a[1]  y == a[2]  w == a[1].w IN
  CASE op = "AND" -> BvVal(w, BitwiseOf(AndBit, x.v, y.v, w))
    [] op = "OR" -> BvVal(w, BitwiseOf(OrBit, x.v, y.v, w))
    [] op = "XOR" -> BvVal(w, BitwiseOf(XorBit, x.v, y.v, w))
    [] op \in ShiftOps -> VlgShift(op, x, y)
    [] op = "ADD" -> BvVal(w, x.v + y.v)
    [] op = "SUB" -> BvVal(w, x.v - y.v)
    [] op = "MUL" -> BvVal(w, x.v * y.v)
    [] op = "DIV" -> IF y.v = 0 THEN NoVal ELSE BvVal(w, x.v \div y.v)
    [] op = "UREM" -> IF y.v = 0 THEN NoVal ELSE BvVal(w, x.v % y.v)
    [] op = "CONCAT" -> BvVal(w + y.w, x.v * 2^y.w + y.v)
    [] op = "LOAD" -> IF x.at = "var" THEN BvVal(w, x.v[y.v]) ELSE NoVal
    [] OTHER -> NoVal

(* The sort of the node selects the translation; a memory-sorted operator is
   only translated as the update of a state. *)
VlgOp(op, a, p) ==
  IF ~Known(a) \/ op = "STORE" THEN NoVal
  ELSE IF \/ op \in CompareOps \cup {"NOT", "IMPLY"}
          \/ op \in LogicOps /\ IsBool(a[1])
          \/ op = "ITE" /\ IsBool(a[2])
       THEN translateBoolOp(op, a)
  ELSE IF op = "ITE"
       THEN IF IsBv(a[2]) THEN PolyOp("ite", a) ELSE NoVal
  ELSE IF Len(a) = 1 THEN translateBvUnary(op, a, p)
  ELSE translateBvBinary(op, a)

(***************************************************************************)
(* IlaSim.  A constant is printed as a C++ integer literal: it has no bit  *)
(* or range selection.                                                     *)
(***************************************************************************)
IsLiteral(a) == a.at = "const"

SimUnary(op, a) ==
  CASE op = "NEGATE" -> BvVal(a.w, -a.v)
    [] op = "NOT" -> BoolVal(1 - a.v)
    [] op = "COMPLEMENT" -> BvVal(a.w, -a.v - 1)

(* sc_biguint comparisons, and "(!a) & b" for IMPLY *)
SimCompare(op, a) ==
  CASE op = "EQ" -> IF IsMem(a[1]) THEN NoVal ELSE Truth(a[1].v = a[2].v)
    [] op \in {"LT", "ULT"} -> Truth(a[1].v < a[2].v)
    [] op \in {"GT", "UGT"} -> Truth(a[1].v > a[2].v)
    [] op = "IMPLY" -> BoolVal(AndBit(1 - a[1].v, a[2].v))

(* Exact arithmetic on the operands, reduced when the result is assigned. *)
SimBinary(op, a) ==
  LET x == a[1].v  y == a[2].v  w == a[1].w
      wide == 2 * w
      mk(n) == IF IsBool(a[1]) THEN BoolVal(n % 2) ELSE BvVal(w, n)
  IN
  CASE op = "AND" -> mk(BitwiseOf(AndBit, x, y, wide))
    [] op = "OR" -> mk(BitwiseOf(OrBit, x, y, wide))
    [] op = "XOR" -> mk(BitwiseOf(XorBit, x, y, wide))
    [] op = "SHL" -> mk(IF y >= wide THEN 0 ELSE x * 2^y)
    [] op \in {"LSHR", "ASHR"} -> mk(IF y >= wide THEN 0 ELSE x \div 2^y)
    [] op = "ADD" -> mk(x + y)
    [] op = "SUB" -> mk(x - y)
    [] op = "MUL" -> mk(x * y)
    [] op = "DIV" -> IF y = 0 THEN NoVal ELSE mk(x \div y)
    [] op = "UREM" -> IF y = 0 THEN NoVal ELSE mk(x % y)
    [] op = "CONCAT" -> BvVal(w + a[2].w, (x % 2^w) * 2^a[2].w + (y % 2^a[2].w))

(* Indexing an array or a map; only a variable or a constant has one. *)
SimLoad(a) ==
  IF a[1].at = "op" \/ a[2].v \notin DOMAIN a[1].v THEN NoVal
  ELSE BvVal(a[1].w, a[1].v[a[2].v])

SimExtract(a, p) ==
  IF IsLiteral(a) THEN NoVal ELSE BvExtract(a, p[1], p[2])
(* Mutant: every extension fills with zeros. *)
SimExtend_Faulty(op, a, p) == BvVal(p[1], a.v)
SimExtend(op, a, p) ==
  IF op = "ZERO_EXTEND" THEN BvVal(p[1], a.v)
  ELSE IF IsLiteral(a) THEN NoVal
  ELSE IF Bit(a.v, a.w - 1) = 1
       THEN BvVal(p[1], -(Ones(a.w) - a.v) - 1)  \* ~ at width a.w, ~ at width p[1]
       ELSE BvVal(p[1], a.v)

dfs_kernel(op, a, p) ==
  IF ~Known(a) THEN NoVal
  ELSE CASE op \in UnaryOps -> SimUnary(op, a[1])
         [] op \in CompareOps \cup {"IMPLY"} -> SimCompare(op, a)
         [] op \in (LogicOps \cup ShiftOps \cup ArithOps \cup {"CONCAT"})
                   \ {"SREM", "SMOD"} -> SimBinary(op, a)
         [] op = "LOAD" -> SimLoad(a)
         [] op = "EXTRACT" -> SimExtract(a[1], p)
         [] op \in {"ZERO_EXTEND", "SIGN_EXTEND"} -> SimExtend(op, a[1], p)
         [] op = "APP" -> FunVal([a[1] EXCEPT !.v = @ % 2^a[1].w])
         [] op = "ITE" ->
              IF IsMem(a[2]) THEN NoVal
              ELSE LET r == IF a[1].v = 1 THEN a[2] ELSE a[3]
                   IN  IF IsBool(r) THEN BoolVal(r.v) ELSE BvVal(r.w, r.v)
         [] OTHER -> NoVal   \* rotations, SREM, SMOD; STORE is an update only

(* A constant memory is an array filled from the explicit entries. *)
SimMemConst(aw, w, def, entries) ==
  MemVal(aw, w, [i \in 0 .. (2^aw - 1) |->
                   IF i \in DOMAIN entries THEN entries[i] ELSE 0])

(***************************************************************************)
(* Ilator.  Extensions, loads, slices and choices are "auto" locals: their *)
(* object keeps the width of its initializer (cw).                         *)
(***************************************************************************)
IlatorExtend(a, p) ==
  IF a.w - 1 >= a.cw THEN NoVal
  ELSE [BvVal(p[1], a.v) EXCEPT !.cw = a.cw]
IlatorIte(a) == PolyOp("ite", a)
DfsOpSpecial(op, a, p) ==
  CASE op = "LOAD" -> SimLoad(a)
    [] op = "CONCAT" -> SimBinary(op, a)
    [] op = "EXTRACT" -> IF p[1] >= a[1].cw THEN NoVal ELSE BvExtract(a[1], p[1], p[2])
    [] op \in {"ZERO_EXTEND", "SIGN_EXTEND"} -> IlatorExtend(a[1], p)
    [] op = "IMPLY" -> BoolVal(AndBit(1 - a[1].v, a[2].v))
    [] op = "ITE" -> IlatorIte(a)
kOpSymbols == (UnaryOps \cup CompareOps \cup LogicOps \cup ShiftOps \cup ArithOps)
              \ {"SREM", "SMOD"}
DfsOpRegular(op, a) ==
  CASE op \notin kOpSymbols -> NoVal
    [] op = "COMPLEMENT" -> BvVal(a[1].w, Ones(a[1].cw) - a[1].v)
    [] op \in UnaryOps \ {"COMPLEMENT"} -> SimUnary(op, a[1])
    [] op \in CompareOps -> SimCompare(op, a)
    [] OTHER -> SimBinary(op, a)
DfsOp(op, a, p) ==
  IF ~Known(a) \/ op = "STORE" \/ (op = "ITE" /\ IsMem(a[2])) THEN NoVal
  ELSE IF op = "APP" THEN FunVal(a[1])
  ELSE IF op \in {"LOAD", "IMPLY", "ITE"} \cup SliceOps THEN DfsOpSpecial(op, a, p)
  ELSE DfsOpRegular(op, a)

(***************************************************************************)
(* The rewriter and the deserialiser select an asthub function by the      *)
(* identifier of the operator and build the node again through it.         *)
(***************************************************************************)
RECURSIVE TermVal(_, _)
TermVal(t, a) ==
  CASE t.op = "ARG" -> a[t.p[1]]
    [] t.op = "BOOL" -> BoolVal(t.p[1])
    [] t.op = "BV" -> ConstBv(t.p[1], t.p[2])
    [] t.op = "ASSERT" -> NoVal
    [] OTHER -> GetZ3Expr(t.op, [k \in DOMAIN t.kids |-> TermVal(t.kids[k], a)], t.p)
Rebuild(f, a, p) == IF Known(a) THEN TermVal(Hub(f, a, p), a) ELSE NoVal

RewriteCases ==
  ("NEGATE" :> "Negate") @@ ("NOT" :> "Not") @@ ("COMPLEMENT" :> "Complement")
  @@ ("AND" :> "And") @@ ("OR" :> "Or") @@ ("XOR" :> "Xor") @@ ("SHL" :> "Shl")
  @@ ("ASHR" :> "Ashr") @@ ("LSHR" :> "Lshr") @@ ("ADD" :> "Add") @@ ("SUB" :> "Sub")
  @@ ("DIV" :> "Div") @@ ("UREM" :> "URem") @@ ("MUL" :> "Mul") @@ ("EQ" :> "Eq")
  @@ ("LT" :> "Lt") @@ ("GT" :> "Gt") @@ ("ULT" :> "Ult") @@ ("UGT" :> "Ugt")
  @@ ("LOAD" :> "Load") @@ ("STORE" :> "Store") @@ ("CONCAT" :> "Concat")
  @@ ("EXTRACT" :> "Extract") @@ ("ZERO_EXTEND" :> "ZExt") @@ ("SIGN_EXTEND" :> "SExt")
  @@ ("LEFT_ROTATE" :> "LRotate") @@ ("RIGHT_ROTATE" :> "RRotate")
  @@ ("IMPLY" :> "Imply") @@ ("ITE" :> "Ite") @@ ("APP" :> "AppFunc")
(* J2IDes::DesExprOp also has the signed remainder and the signed modulus. *)
DesCases == RewriteCases @@ ("SREM" :> "SRem") @@ ("SMOD" :> "SMod")

(* Mutant: the case of XOR is missing too. *)
RewriteOp_Faulty(op, a, p) ==
  IF op \in DOMAIN RewriteCases \ {"XOR"} THEN Rebuild(RewriteCases[op], a, p) ELSE NoVal
(* FuncObjRewrExpr::RewriteOp; without a case it returns a null pointer. *)
RewriteOp(op, a, p) ==
  IF op \in DOMAIN RewriteCases THEN Rebuild(RewriteCases[op], a, p) ELSE NoVal
DesExprOp(op, a, p) ==
  IF op \in DOMAIN DesCases THEN Rebuild(DesCases[op], a, p) ELSE NoVal
=============================================================================
