------------------------------ MODULE MCExpr ------------------------------
EXTENDS ExprPass

Var(x) == [op |-> "VAR", kids |-> <<>>, p |-> <<>>, c |-> x]
Lit(n, w) == [op |-> "BV", kids |-> <<>>, p |-> <<n, w>>]
MemLit(aw, w, def, c) == [op |-> "MEM", kids |-> <<>>, p |-> <<aw, w, def>>, c |-> c]

BvVars(w) == {Var(BvVal(w, n)) : n \in 0 .. (2^w - 1)}
BoolVars == {Var(BoolVal(b)) : b \in {0, 1}}
MemVars(aw, w) == {Var(MemVal(aw, w, f)) : f \in [0 .. (2^aw - 1) -> 0 .. (2^w - 1)]}

Op(o, kids) == [op |-> o, kids |-> kids, p |-> <<>>]
Client(ls, n) == [leaves |-> ls, calls |-> n]

(* One and two bit vectors; a bit and a Boolean; a memory, its address and a
   Boolean; a constant memory; a constant; two stores
   to a memory, and a Boolean to choose by. *)
MCLeaves ==
       {Client(<<x>>, 2) : x \in {Var(BvVal(2, 1)), Var(BvVal(2, 2))}}
  \cup {Client(<<x, y>>, 1) : x \in BvVars(2), y \in BvVars(2)}
  \cup {Client(<<x, y>>, 1) : x \in {Var(BvVal(3, n)) : n \in {1, 4, 6, 7}}, y \in {Var(BvVal(3, n)) : n \in {0, 2, 3, 5}}}
  \cup {Client(<<x, y>>, 2) : x \in {Var(BvVal(1, 1))}, y \in {Var(BoolVal(1))}}
  \cup {Client(<<x, y, m>>, 2) : x \in {Var(BvVal(1, 1))}, y \in {Var(BoolVal(0))}, m \in MemVars(1, 1)}
  \cup {Client(<<x, m>>, 1) : x \in BvVars(1),
         m \in {MemLit(1, 1, d, c) : d \in {0, 1}, c \in {<<>>, 0 :> 1}}}
  \cup {Client(<<Var(BvVal(1, 1)), Lit(n, 1)>>, 1) : n \in {0, 1}}
  \cup {Client(<<x, Lit(n, 2)>>, 1) : x \in BvVars(2), n \in {0, 1, 3}}
  \cup {Client(<<x, y, m, Op("STORE", <<3, 1, 2>>), Op("STORE", <<3, a, b>>), c>>, 1) :
         x \in {Var(BvVal(1, 1))}, y \in {Var(BvVal(1, 0))}, m \in {Var(MemVal(1, 1, (0 :> 0) @@ (1 :> 1)))},
         a \in {1, 2}, b \in {1, 2}, c \in BoolVars}
  \cup {Client(<<Var(BvVal(1, 1)), Var(BvVal(1, 0)), m, c, Op("STORE", <<3, 1, 2>>),
                Op("STORE", <<3, 1, 2>>), Op("ITE", <<4, 5, j>>)>>, 0) :
         m \in MemVars(1, 1), c \in BoolVars, j \in {3, 6}}

MCImms == {0, 1, 2, 3}
=============================================================================
