----------------------------- MODULE IlaExpr -----------------------------
(***************************************************************************)
(* The expression language: the operators of ExprOp, the assertions of     *)
(* their constructors, their z3 translation (the reference meaning), and   *)
(* the functions of asthub and of the C++ API that build them.             *)
(***************************************************************************)
EXTENDS BitVector, TLC

(* The operators, by arity. *)
UnaryOps == {"NEGATE", "NOT", "COMPLEMENT"}
LogicOps == {"AND", "OR", "XOR"}
ShiftOps == {"SHL", "ASHR", "LSHR"}
ArithOps == {"ADD", "SUB", "DIV", "SREM", "UREM", "SMOD", "MUL"}
CompareOps == {"EQ", "LT", "GT", "ULT", "UGT"}
MemoryOps == {"LOAD", "STORE"}
SliceOps == {"CONCAT", "EXTRACT", "ZERO_EXTEND", "SIGN_EXTEND"}
RotateOps == {"LEFT_ROTATE", "RIGHT_ROTATE"}
BranchOps == {"IMPLY", "ITE"}

(***************************************************************************)
(* The ILA_ASSERTs of the constructors.  Only the sorts that the code      *)
(* checks are checked: ADD, say, takes any two arguments of one sort.      *)
(***************************************************************************)
AcceptsUnary(op, a) == IF op = "NOT" THEN IsBool(a[1]) ELSE IsBv(a[1])
AcceptsShift(a) == IsBv(a[1]) /\ SameSort(a[1], a[2])
AcceptsMemory(op, a) ==
  /\ IsMem(a[1]) /\ IsBv(a[2]) /\ a[1].aw = a[2].w
  /\ op = "STORE" => IsBv(a[3]) /\ a[1].w = a[3].w
AcceptsSlice(op, a, p) ==
  /\ \A i \in DOMAIN a : IsBv(a[i])
  /\ op = "EXTRACT" => p[1] >= p[2]
  /\ op \in {"ZERO_EXTEND", "SIGN_EXTEND"} => p[1] >= a[1].w
AcceptsBranch(op, a) ==
  /\ IsBool(a[1])
  /\ IF op = "IMPLY" THEN IsBool(a[2]) ELSE SameSort(a[2], a[3])

Accepts(op, a, p) ==
  /\ \A i \in DOMAIN a : Defined(a[i])
  /\ CASE op \in UnaryOps -> AcceptsUnary(op, a)
       [] op \in ShiftOps -> AcceptsShift(a)
       [] op \in LogicOps \cup ArithOps \cup CompareOps -> SameSort(a[1], a[2])
       [] op \in MemoryOps -> AcceptsMemory(op, a)
       [] op \in SliceOps -> AcceptsSlice(op, a, p)
       [] op \in RotateOps -> IsBv(a[1]) /\ p[1] >= 0
       [] op \in BranchOps -> AcceptsBranch(op, a)
       [] op = "APP" -> IsBv(a[1])
       [] OTHER -> FALSE

(***************************************************************************)
(* GetZ3Expr of each class: the SMT-LIB operator of an ILA operator.  The  *)
(* extensions pass the difference of the widths.                           *)
(***************************************************************************)
Z3Logic(op, bool) ==
  CASE op = "NEGATE" -> "bvneg"
    [] op = "NOT" -> "not"
    [] op = "COMPLEMENT" -> "bvnot"
    [] op = "AND" -> IF bool THEN "and" ELSE "bvand"
    [] op = "OR" -> IF bool THEN "or" ELSE "bvor"
    [] op = "XOR" -> IF bool THEN "xor" ELSE "bvxor"
Z3Shift == ("SHL" :> "bvshl") @@ ("ASHR" :> "bvashr") @@ ("LSHR" :> "bvlshr")
Z3Arith == ("ADD" :> "bvadd") @@ ("SUB" :> "bvsub") @@ ("DIV" :> "bvsdiv")
           @@ ("SREM" :> "bvsrem") @@ ("UREM" :> "bvurem") @@ ("SMOD" :> "bvsmod")
           @@ ("MUL" :> "bvmul")
Z3Compare == ("EQ" :> "=") @@ ("LT" :> "bvslt") @@ ("GT" :> "bvsgt")
             @@ ("ULT" :> "bvult") @@ ("UGT" :> "bvugt")
Z3Memory == ("LOAD" :> "select") @@ ("STORE" :> "store")
Z3Slice == ("CONCAT" :> "concat") @@ ("EXTRACT" :> "extract")
           @@ ("ZERO_EXTEND" :> "zero_extend") @@ ("SIGN_EXTEND" :> "sign_extend")
Z3Rotate == ("LEFT_ROTATE" :> "rotate_left") @@ ("RIGHT_ROTATE" :> "rotate_right")
Z3Branch == ("IMPLY" :> "=>") @@ ("ITE" :> "ite")

Z3Name(op, bool) ==
  CASE op \in UnaryOps \cup LogicOps -> Z3Logic(op, bool)
    [] op \in ShiftOps -> Z3Shift[op]
    [] op \in ArithOps -> Z3Arith[op]
    [] op \in CompareOps -> Z3Compare[op]
    [] op \in MemoryOps -> Z3Memory[op]
    [] op \in SliceOps -> Z3Slice[op]
    [] op \in RotateOps -> Z3Rotate[op]
    [] op \in BranchOps -> Z3Branch[op]
    [] op = "APP" -> "apply"

ExtendBy(op, a, p) ==
  IF op \in {"ZERO_EXTEND", "SIGN_EXTEND"} THEN <<p[1] - a[1].w>> ELSE p

GetZ3Expr(op, a, p) ==
  IF Accepts(op, a, p)
  THEN Smt(Z3Name(op, IsBool(a[1])), a, ExtendBy(op, a, p)) ELSE NoVal

(* ExprConst checks that the value of a bit vector fits its width. *)
ConstBv(n, w) == IF w > 0 /\ n < 2^w THEN BvVal(w, n) ELSE NoVal

(***************************************************************************)
(* Terms: what a builder function constructs from its arguments.           *)
(***************************************************************************)
Arg(i) == [op |-> "ARG", kids |-> <<>>, p |-> <<i>>]
BoolConst(b) == [op |-> "BOOL", kids |-> <<>>, p |-> <<b>>]
BvConst(n, w) == [op |-> "BV", kids |-> <<>>, p |-> <<n, w>>]
Node(op, kids, p) == [op |-> op, kids |-> kids, p |-> p]
Assert0 == [op |-> "ASSERT", kids |-> <<>>, p |-> <<>>]

Un(op) == Node(op, <<Arg(1)>>, <<>>)
Bin(op) == Node(op, <<Arg(1), Arg(2)>>, <<>>)
EqOne(i) == Node("EQ", <<Arg(i), BvConst(1, 1)>>, <<>>)

(* And, Or and Xor also take a Boolean with a bit vector of width one. *)
HubLogic(op, a) ==
  IF SameSort(a[1], a[2]) THEN Bin(op)
  ELSE IF IsBv(a[1]) /\ a[1].w = 1 /\ IsBool(a[2])
       THEN Node(op, <<EqOne(1), Arg(2)>>, <<>>)
  ELSE IF IsBool(a[1]) /\ IsBv(a[2]) /\ a[2].w = 1
       THEN Node(op, <<Arg(1), EqOne(2)>>, <<>>)
  ELSE Assert0

(* Shifts and arithmetic with an integer: a constant of the left width. *)
HubBinary ==
  ("Shl" :> "SHL") @@ ("Ashr" :> "ASHR") @@ ("Lshr" :> "LSHR") @@ ("Add" :> "ADD")
  @@ ("Sub" :> "SUB") @@ ("Div" :> "DIV") @@ ("SRem" :> "SREM") @@ ("URem" :> "UREM")
  @@ ("SMod" :> "SMOD") @@ ("Mul" :> "MUL")

HubCompare(f) ==
  LET either(op) == Node("OR", <<Bin("EQ"), Bin(op)>>, <<>>) IN
  CASE f = "Eq" -> Bin("EQ")
    [] f = "Ne" -> Node("NOT", <<Bin("EQ")>>, <<>>)
    [] f = "Lt" -> Bin("LT") [] f = "Gt" -> Bin("GT")
    [] f = "Le" -> either("LT") [] f = "Ge" -> either("GT")
    [] f = "Ult" -> Bin("ULT") [] f = "Ugt" -> Bin("UGT")
    [] f = "Ule" -> either("ULT") [] f = "Uge" -> either("UGT")

HubMemory(f) ==
  IF f = "Load" THEN Bin("LOAD") ELSE Node("STORE", <<Arg(1), Arg(2), Arg(3)>>, <<>>)

(* Concat turns a Boolean into a bit vector of width one. *)
AsBv(a, i) ==
  IF IsBool(a[i]) THEN Node("ITE", <<Arg(i), BvConst(1, 1), BvConst(0, 1)>>, <<>>)
  ELSE Arg(i)
HubSlice(f, a, p) ==
  CASE f = "Concat" -> Node("CONCAT", <<AsBv(a, 1), AsBv(a, 2)>>, <<>>)
    [] f = "Extract" -> Node("EXTRACT", <<Arg(1)>>, p)
    [] f = "ZExt" -> Node("ZERO_EXTEND", <<Arg(1)>>, p)
    [] f = "SExt" -> Node("SIGN_EXTEND", <<Arg(1)>>, p)
    [] f = "LRotate" -> Node("LEFT_ROTATE", <<Arg(1)>>, p)
    [] f = "RRotate" -> Node("RIGHT_ROTATE", <<Arg(1)>>, p)
HubBranch(f) ==
  CASE f = "Imply" -> Bin("IMPLY")
    [] f = "Ite" -> Node("ITE", <<Arg(1), Arg(2), Arg(3)>>, <<>>)
    [] f = "AppFunc" -> Un("APP")

LogicFuncs == ("And" :> "AND") @@ ("Or" :> "OR") @@ ("Xor" :> "XOR")
UnaryFuncs == ("Negate" :> "NEGATE") @@ ("Not" :> "NOT") @@ ("Complement" :> "COMPLEMENT")
CompareFuncs == {"Eq", "Ne", "Lt", "Gt", "Le", "Ge", "Ult", "Ugt", "Ule", "Uge"}
SliceFuncs == {"Concat", "Extract", "ZExt", "SExt", "LRotate", "RRotate"}

(* The term asthub builds; a are the arguments' values (for their sorts). *)
Hub(f, a, p) ==
  CASE f \in DOMAIN UnaryFuncs -> Un(UnaryFuncs[f])
    [] f \in DOMAIN LogicFuncs -> HubLogic(LogicFuncs[f], a)
    [] f \in DOMAIN HubBinary -> Bin(HubBinary[f])
    [] f \in CompareFuncs -> HubCompare(f)
    [] f \in {"Load", "Store"} -> HubMemory(f)
    [] f \in SliceFuncs -> HubSlice(f, a, p)
    [] f \in {"Imply", "Ite", "AppFunc"} -> HubBranch(f)

(* The overloads with an integer: the constant takes the width (for Load the
   address width) of the first argument; with a Boolean, Eq and Ne compare
   with the truth of "r == 1". *)
IntConst(f, a, n) ==
  IF IsBool(a) THEN BoolConst(IF n = 1 THEN 1 ELSE 0)
  ELSE BvConst(n, IF f = "Load" THEN a.aw ELSE a.w)

(***************************************************************************)
(* The C++ API: overloaded operators.  The order comparisons follow the    *)
(* global flag UnsignedComparison at the time of the call.                 *)
(***************************************************************************)
ApiSigned == ("<" :> "Lt") @@ (">" :> "Gt") @@ ("<=" :> "Le") @@ (">=" :> "Ge")
ApiUnsigned == ("<" :> "Ult") @@ (">" :> "Ugt") @@ ("<=" :> "Ule") @@ (">=" :> "Uge")
ApiPlain ==
  ("&" :> "And") @@ ("|" :> "Or") @@ ("^" :> "Xor") @@ ("<<" :> "Shl") @@ (">>" :> "Ashr")
  @@ ("+" :> "Add") @@ ("-" :> "Sub") @@ ("/" :> "Div") @@ ("*" :> "Mul")
  @@ ("==" :> "Eq") @@ ("!=" :> "Ne") @@ ("Lshr" :> "Lshr") @@ ("SRem" :> "SRem")
  @@ ("URem" :> "URem") @@ ("SMod" :> "SMod") @@ ("Append" :> "Concat")
ApiNamed == ("Slt" :> "Lt") @@ ("Sgt" :> "Gt") @@ ("Sle" :> "Le") @@ ("Sge" :> "Ge")
            @@ ("Ult" :> "Ult") @@ ("Ugt" :> "Ugt") @@ ("Ule" :> "Ule") @@ ("Uge" :> "Uge")
ApiInt == {"<<", ">>", "+", "-", "*", "==", "!=", "<", ">", "<=", ">=", "Lshr"}
(* Mutant: operator< ignores the flag. *)
ApiBinary_Faulty(f, unsigned) ==
  IF f \in DOMAIN ApiSigned
  THEN IF unsigned /\ f # "<=" THEN ApiUnsigned[f] ELSE ApiSigned[f]
  ELSE IF f \in DOMAIN ApiPlain THEN ApiPlain[f] ELSE ApiNamed[f]
ApiBinary(f, unsigned) ==
  IF f \in DOMAIN ApiSigned
  THEN IF unsigned THEN ApiUnsigned[f] ELSE ApiSigned[f]
  ELSE IF f \in DOMAIN ApiPlain THEN ApiPlain[f] ELSE ApiNamed[f]
ApiMemory == ("Load" :> "Load") @@ ("Store" :> "Store")
ApiBranch == ("Imply" :> "Imply") @@ ("Ite" :> "Ite") @@ ("FuncRef()" :> "AppFunc")
ApiSlice == ("Extract" :> "Extract") @@ ("ZExt" :> "ZExt") @@ ("SExt" :> "SExt")
            @@ ("LRotate" :> "LRotate") @@ ("RRotate" :> "RRotate")
            @@ ("SelectBit" :> "Extract")
ApiUnary == ("-" :> "Negate") @@ ("!" :> "Not") @@ ("~" :> "Complement")
=============================================================================
