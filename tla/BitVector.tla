---------------------------- MODULE BitVector ----------------------------
(***************************************************************************)
(* Values of the three sorts of the ILA language, and the SMT-LIB meaning  *)
(* of the operators the back ends emit.  A value is a record: its sort     *)
(* (k, w, aw), its content v (0 or 1 for a Boolean, a natural number for a *)
(* bit vector, a function of the address for a memory), and the kind of    *)
(* AST node it comes from.  cw is the width of the C++ object that holds   *)
(* the value in generated SystemC code; everywhere else it equals w.       *)
(***************************************************************************)
EXTENDS Integers, Sequences, FiniteSetsExt

(* Sorts: Bool, Bv(w) and Mem(aw, w). *)
BoolVal(b) == [k |-> "bool", w |-> 1, aw |-> 0, v |-> b, at |-> "op", cw |-> 1]
BvVal(w, n) ==
  [k |-> "bv", w |-> w, aw |-> 0, v |-> n % 2^w, at |-> "op", cw |-> w]
MemVal(aw, w, f) ==
  [k |-> "mem", w |-> w, aw |-> aw, v |-> f, at |-> "op", cw |-> w]

(* No value: an assertion of the code fails, the emitted text is rejected
   by its tool, or the tool leaves the result open. *)
NoVal == [k |-> "none", w |-> 0, aw |-> 0, v |-> 0, at |-> "op", cw |-> 0]

IsBool(a) == a.k = "bool"
IsBv(a) == a.k = "bv"
IsMem(a) == a.k = "mem"
Defined(a) == a.k # "none"
Truth(b) == BoolVal(IF b THEN 1 ELSE 0)
As(kind, a) == [a EXCEPT !.at = kind]

(* Sort::Equal *)
SameSort(a, b) == a.k = b.k /\ a.w = b.w /\ a.aw = b.aw
SameVal(a, b) == SameSort(a, b) /\ a.v = b.v

Ones(w) == 2^w - 1
Bit(n, i) == (n \div 2^i) % 2
Msb(a) == Bit(a.v, a.w - 1)
Signed(a) == IF Msb(a) = 1 THEN a.v - 2^a.w ELSE a.v
Abs(n) == IF n < 0 THEN -n ELSE n

(* Quotient rounded toward zero, and remainder with the dividend's sign. *)
Quot(x, y) == LET q == Abs(x) \div Abs(y)
              IN  IF (x < 0) # (y < 0) THEN -q ELSE q
Rem(x, y) == x - y * Quot(x, y)

(* The bit vector whose bit i is f of the i-th bits of x and y. *)
BitwiseOf(f(_, _), x, y, w) ==
  MapThenSumSet(LAMBDA i : 2^i * f(Bit(x, i), Bit(y, i)), 0 .. (w - 1))

AndBit(x, y) == x * y
OrBit(x, y) == x + y - x * y
XorBit(x, y) == (x + y) % 2

(* Division by zero as SMT-LIB fixes it. *)
BvUdiv(a, b) == IF b.v = 0 THEN BvVal(a.w, Ones(a.w)) ELSE BvVal(a.w, a.v \div b.v)
BvUrem(a, b) == IF b.v = 0 THEN a ELSE BvVal(a.w, a.v % b.v)
BvSdiv(a, b) ==
  IF b.v = 0 THEN BvVal(a.w, IF Msb(a) = 1 THEN 1 ELSE Ones(a.w))
  ELSE BvVal(a.w, Quot(Signed(a), Signed(b)))
BvSrem(a, b) == IF b.v = 0 THEN a ELSE BvVal(a.w, Rem(Signed(a), Signed(b)))
BvSmod(a, b) ==
  IF b.v = 0 THEN a
  ELSE LET r == Rem(Signed(a), Signed(b))
       IN  BvVal(a.w, IF r # 0 /\ (r < 0) # (Signed(b) < 0)
                      THEN r + Signed(b) ELSE r)

BvShl(a, b) == BvVal(a.w, IF b.v >= a.w THEN 0 ELSE a.v * 2^b.v)
BvLshr(a, b) == BvVal(a.w, IF b.v >= a.w THEN 0 ELSE a.v \div 2^b.v)
BvAshr(a, b) ==
  LET s == IF b.v >= a.w THEN a.w ELSE b.v IN BvVal(a.w, Signed(a) \div 2^s)

(* extract, extension by a number of extra bits, rotation *)
BvExtract(a, hi, lo) ==
  IF lo < 0 \/ hi < lo \/ hi >= a.w THEN NoVal
  ELSE BvVal(hi - lo + 1, a.v \div 2^lo)
BvZext(a, d) == BvVal(a.w + d, a.v)
BvSext(a, d) == BvVal(a.w + d, Signed(a))
BvRotL(a, n) == LET r == n % a.w
                IN  BvVal(a.w, a.v * 2^r + a.v \div 2^(a.w - r))

(* The function an uninterpreted symbol of one argument stands for. *)
FunVal(a) == BvVal(a.w, 3 * a.v + 1)

(***************************************************************************)
(* The meaning of an SMT-LIB operator o on arguments a with indices p.     *)
(* Ill-sorted applications have no value.                                  *)
(***************************************************************************)
CoreOp(o, a) ==
  CASE o = "not" -> BoolVal(1 - a[1].v)
    [] o = "and" -> BoolVal(AndBit(a[1].v, a[2].v))
    [] o = "or" -> BoolVal(OrBit(a[1].v, a[2].v))
    [] o = "xor" -> BoolVal(XorBit(a[1].v, a[2].v))
    [] o = "=>" -> BoolVal(OrBit(1 - a[1].v, a[2].v))

BvOp(o, a) ==
  LET w == a[1].w IN
  CASE o = "bvnot" -> BvVal(w, Ones(w) - a[1].v)
    [] o = "bvneg" -> BvVal(w, -a[1].v)
    [] o = "bvand" -> BvVal(w, BitwiseOf(AndBit, a[1].v, a[2].v, w))
    [] o = "bvor" -> BvVal(w, BitwiseOf(OrBit, a[1].v, a[2].v, w))
    [] o = "bvxor" -> BvVal(w, BitwiseOf(XorBit, a[1].v, a[2].v, w))
    [] o = "bvadd" -> BvVal(w, a[1].v + a[2].v)
    [] o = "bvsub" -> BvVal(w, a[1].v - a[2].v)
    [] o = "bvmul" -> BvVal(w, a[1].v * a[2].v)
    [] o = "bvudiv" -> BvUdiv(a[1], a[2])
    [] o = "bvurem" -> BvUrem(a[1], a[2])
    [] o = "bvsdiv" -> BvSdiv(a[1], a[2])
    [] o = "bvsrem" -> BvSrem(a[1], a[2])
    [] o = "bvsmod" -> BvSmod(a[1], a[2])
    [] o = "bvshl" -> BvShl(a[1], a[2])
    [] o = "bvlshr" -> BvLshr(a[1], a[2])
    [] o = "bvashr" -> BvAshr(a[1], a[2])
    [] o = "bvult" -> Truth(a[1].v < a[2].v)
    [] o = "bvule" -> Truth(a[1].v <= a[2].v)
    [] o = "bvugt" -> Truth(a[1].v > a[2].v)
    [] o = "bvuge" -> Truth(a[1].v >= a[2].v)
    [] o = "bvslt" -> Truth(Signed(a[1]) < Signed(a[2]))
    [] o = "bvsgt" -> Truth(Signed(a[1]) > Signed(a[2]))

IndexedOp(o, a, p) ==
  CASE o = "concat" -> BvVal(a[1].w + a[2].w, a[1].v * 2^a[2].w + a[2].v)
    [] o = "extract" -> BvExtract(a[1], p[1], p[2])
    [] o = "zero_extend" -> BvZext(a[1], p[1])
    [] o = "sign_extend" -> BvSext(a[1], p[1])
    [] o = "rotate_left" -> BvRotL(a[1], p[1])
    [] o = "rotate_right" -> BvRotL(a[1], a[1].w - (p[1] % a[1].w))
    [] o = "apply" -> FunVal(a[1])

PolyOp(o, a) ==
  CASE o = "=" -> Truth(a[1].v = a[2].v)
    [] o = "ite" -> [IF a[1].v = 1 THEN a[2] ELSE a[3] EXCEPT !.at = "op"]
    [] o = "select" -> BvVal(a[1].w, a[1].v[a[2].v])
    [] o = "store" -> MemVal(a[1].aw, a[1].w, [a[1].v EXCEPT ![a[2].v] = a[3].v])

CoreOps == {"not", "and", "or", "xor", "=>"}
UnaryBvOps == {"bvnot", "bvneg"}
BvOps == {"bvnot", "bvneg", "bvand", "bvor", "bvxor", "bvadd", "bvsub", "bvmul",
          "bvudiv", "bvurem", "bvsdiv", "bvsrem", "bvsmod", "bvshl", "bvlshr",
          "bvashr", "bvult", "bvule", "bvugt", "bvuge", "bvslt", "bvsgt"}
IndexedOps == {"concat", "extract", "zero_extend", "sign_extend",
               "rotate_left", "rotate_right", "apply"}

Smt(o, a, p) ==
  IF \E i \in DOMAIN a : ~Defined(a[i]) THEN NoVal
  ELSE IF o \in CoreOps
       THEN IF \A i \in DOMAIN a : IsBool(a[i]) THEN CoreOp(o, a) ELSE NoVal
  ELSE IF o \in BvOps
       THEN IF \A i \in DOMAIN a : IsBv(a[i]) /\ SameSort(a[i], a[1])
            THEN BvOp(o, a) ELSE NoVal
  ELSE IF o \in IndexedOps
       THEN IF \A i \in DOMAIN a : IsBv(a[i]) THEN IndexedOp(o, a, p) ELSE NoVal
  ELSE IF o \in {"=", "ite", "select", "store"} THEN PolyOp(o, a)
  ELSE NoVal
=============================================================================
