------------------------------- MODULE Design -------------------------------
(***************************************************************************)
(* A small ILA as the code generators see it, and what one step of it      *)
(* means.  The registers of the top and of its child are a pair <<r, c>>,  *)
(* and there is one memory.  An instruction has the set of registers and   *)
(* inputs it decodes for, the function of its register updates (or <<>>),  *)
(* the address it loads r from (or NoLoad), and, for every value of the    *)
(* registers, its stores, outermost first (or <<>>: it never stores).      *)
(***************************************************************************)
EXTENDS Integers, Sequences, FiniteSets, SequencesExt

NoLoad == -1
Instr(dec, to, ld, st) == [dec |-> dec, to |-> to, ld |-> ld, st |-> st]
HasUpdate(i) == i.to # <<>> \/ i.ld # NoLoad
HasStore(i) == i.st # <<>>
StoresOf(i, s) == IF HasStore(i) THEN i.st[s] ELSE <<>>

Decodes(i, s, in) == <<s[1], s[2], in>> \in i.dec
Enabled(is, s, in) == {k \in DOMAIN is : Decodes(is[k], s, in)}
OneHot(is, s, in) == Cardinality(Enabled(is, s, in)) <= 1
Only(ks) == CHOOSE k \in ks : TRUE

(* The registers after an instruction that sees the loaded data v. *)
Updated(i, s, v) ==
  LET t == IF i.to = <<>> THEN s ELSE i.to[s]
  IN  IF i.ld = NoLoad THEN t ELSE <<v, t[2]>>
LoadedData(i, mem) == IF i.ld = NoLoad THEN 0 ELSE mem[i.ld]

(* STORE(...STORE(mem, a2, d2)..., a1, d1): the outermost store is the last. *)
Stored(mem, st) ==
  LET applied[n \in 0..Len(st)] ==
        IF n = 0 THEN mem
        ELSE LET w == st[Len(st) + 1 - n] IN [applied[n - 1] EXCEPT ![w[1]] = w[2]]
  IN  applied[Len(st)]
AddressesOf(st) == {w[1] : w \in Range(st)}
DistinctAddresses(st) == Cardinality(AddressesOf(st)) = Len(st)

(* One instruction of the ILA: all updates see the old state x = [s, mem]. *)
Execute(i, x) ==
  [s |-> Updated(i, x.s, LoadedData(i, x.mem)), mem |-> Stored(x.mem, StoresOf(i, x.s))]

TopOn(d, s, in) == IF s \in d.valid THEN Enabled(d.top, s, in) ELSE {}
KidOn(d, s, in) == IF s \in d.kvalid THEN Enabled(d.kid, s, in) ELSE {}
TopStep(d, x, in) ==
  LET on == TopOn(d, x.s, in) IN IF on = {} THEN x ELSE Execute(d.top[Only(on)], x)

(* The initial condition of the child, where the design has one: c = 0. *)
StartChild(d, x) == IF d.init THEN [x EXCEPT !.s = <<@[1], 0>>] ELSE x

(* The child runs until none of its instructions decodes, for at most n steps. *)
KidStep(d, x, in) ==
  LET on == KidOn(d, x.s, in) IN IF on = {} THEN x ELSE Execute(d.kid[Only(on)], x)
ChildRun(d, x, in, n) ==
  LET run[m \in 0..n] == IF m = 0 THEN x ELSE KidStep(d, run[m - 1], in) IN run[n]
=============================================================================
