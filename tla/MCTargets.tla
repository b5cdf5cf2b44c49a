----------------------------- MODULE MCTargets -----------------------------
(* Every design of one or two top instructions and at most one or two child
   instructions from a small set, and every kind of target; and wrappers that
   check an instruction or the invariants of an implementation. *)
EXTENDS TargetRun, VtgRun

Bit == {0, 1}
RS == Bit \X Bit
When(P(_, _, _)) == {t \in Bit \X Bit \X Bit : P(t[1], t[2], t[3])}
To(f(_, _)) == [s \in RS |-> f(s[1], s[2])]

Flip  == Instr(When(LAMBDA r, c, in : in = 0), To(LAMBDA r, c : <<1 - r, c>>), NoLoad, <<>>)
Chain == Instr(When(LAMBDA r, c, in : r = 1 /\ in = 1), To(LAMBDA r, c : <<0, 1>>), NoLoad, <<>>)
Store == Instr(When(LAMBDA r, c, in : in = 1 /\ c = 0), <<>>, NoLoad, To(LAMBDA r, c : <<<<0, r>>>>))
Both  == Instr(When(LAMBDA r, c, in : r = 0 /\ in = 1), To(LAMBDA r, c : <<1, c>>), NoLoad,
               To(LAMBDA r, c : <<<<1, c>>, <<0, 1 - c>>>>))
Push  == Instr(When(LAMBDA r, c, in : in = 1), To(LAMBDA r, c : <<1 - r, c>>), NoLoad, To(LAMBDA r, c : <<<<0, r>>>>))
Twice == Instr(When(LAMBDA r, c, in : in = 1), <<>>, NoLoad, To(LAMBDA r, c : <<<<0, r>>, <<0, 1 - r>>>>))
Load  == Instr(When(LAMBDA r, c, in : in = 0), <<>>, 0, <<>>)
Swap  == Instr(When(LAMBDA r, c, in : in = 1), To(LAMBDA r, c : <<r, 1 - c>>), 0, To(LAMBDA r, c : <<<<0, 1 - r>>>>))
Other == Instr(When(LAMBDA r, c, in : in = 0 /\ c = 1), <<>>, 1, To(LAMBDA r, c : <<<<0, r>>>>))
Count == Instr(When(LAMBDA r, c, in : c = 0), To(LAMBDA r, c : <<r, 1>>), NoLoad, <<>>)
Spin  == Instr(When(LAMBDA r, c, in : in = 1), To(LAMBDA r, c : <<r, 1 - c>>), NoLoad, <<>>)
Empty == Instr(When(LAMBDA r, c, in : c = 1), <<>>, NoLoad, <<>>)
Spill == Instr(When(LAMBDA r, c, in : c = 0), To(LAMBDA r, c : <<r, 1>>), NoLoad, To(LAMBDA r, c : <<<<1, r>>>>))

Tops == {Flip, Chain, Store, Both, Push, Twice, Load, Swap, Other}
TopSeqs == {<<i>> : i \in Tops} \cup {<<i, j>> : i, j \in Tops}
KidSeqs == {<<Count>>, <<Spin>>, <<Count, Empty>>, <<Spill>>}
Valids == {RS, {s \in RS : s[2] = 0}}
Flat ==
  {[top |-> t, kid |-> <<>>, init |-> FALSE, valid |-> v, kvalid |-> {}, size |-> z] :
     t \in TopSeqs, v \in Valids, z \in {1, 2}}
Nested ==
  {[top |-> t, kid |-> q, init |-> b, valid |-> v, kvalid |-> RS, size |-> 2] :
     t \in TopSeqs, q \in KidSeqs, b \in BOOLEAN, v \in Valids}
MCDesigns == Flat \cup Nested
MCTargetSet ==
  {[kind |-> q, mode |-> "ila", start |-> FALSE, ext |-> q = "ext", rand |-> FALSE] :
     q \in {"ilator", "sim", "ext"}}
  \cup [kind : {"vlg"}, mode : Modes, start : BOOLEAN, ext : BOOLEAN, rand : BOOLEAN]

-----------------------------------------------------------------------------
(* The wrappers: what the end of an instruction depends on, where the mapped
   state comes from, what is asked of the implementation, and the knobs. *)
SI == Bit \X Bit
Mapped(dec, valid, upd, wr) == [dec |-> dec, valid |-> valid, upd |-> upd, wr |-> wr]
Inc  == Mapped(SI, Bit, [p \in SI |-> 1 - p[1]], <<>>)
Take == Mapped({p \in SI : p[2] = 1}, {0}, [p \in SI |-> p[2]], [p \in SI |-> 1 - p[1]])
Keep == Mapped({p \in SI : p[1] = 1}, Bit, <<>>, [p \in SI |-> p[2]])
Goal ==
  [kind |-> "instr", instr |-> Inc, force |-> FALSE, again |-> FALSE, norst |-> TRUE,
   ready |-> "signal", bound |-> 2, upper |-> 2, maxb |-> 0, cfgmax |-> 2,
   given |-> FALSE, starts |-> {}, map |-> "direct", onecycle |-> TRUE, asks |-> "nothing",
   onlyassume |-> FALSE, onlycheck |-> TRUE, mode |-> "all",
   rf |-> {}, conf |-> {}, guess |-> {}]
Bounded ==
  {[Goal EXCEPT !.ready = "bound", !.bound = b, !.maxb = m, !.force = f, !.again = a, !.instr = i] :
     b \in 0 .. 2, m \in {0, 1}, f \in BOOLEAN, a \in BOOLEAN, i \in {Inc, Take}}
Signalled ==
  {[Goal EXCEPT !.ready = q, !.bound = b, !.upper = 3, !.maxb = m, !.again = a] :
     q \in {"signal", "single", "ever", "range", "stage"}, b \in 1 .. 2, m \in {0, 2},
     a \in BOOLEAN}
Remapped ==
  {[Goal EXCEPT !.map = m, !.force = f, !.again = a, !.onecycle = o] :
     m \in {"cases", "recorded"}, f \in BOOLEAN, a \in BOOLEAN, o \in BOOLEAN}
Asking ==
  {[Goal EXCEPT !.asks = q, !.norst = n, !.ready = "bound", !.bound = 1] :
     q \in {"function", "memory"}, n \in BOOLEAN}
Tuned ==
  {[Goal EXCEPT !.instr = i, !.onlyassume = p, !.onlycheck = q, !.given = g, !.starts = s,
                !.ready = "bound"] :
     i \in {Take, Keep}, p \in BOOLEAN, q \in BOOLEAN, g \in BOOLEAN, s \in {{}, {"$valid"}}}
Invariants ==
  {[Goal EXCEPT !.kind = q, !.mode = m, !.rf = a, !.conf = b, !.guess = c, !.norst = n] :
     q \in {"instr", "inv"}, m \in {"all", "candidate", "confirmed", "noinv"},
     a \in {{}, {{0}}}, b \in {{}, {{1}}}, c \in {{}, {{0}}}, n \in BOOLEAN}
MCGoals == Bounded \cup Signalled \cup Remapped \cup Asking \cup Tuned \cup Invariants

(* One program or one wrapper at a time. *)
NoProgram ==
  /\ design = [top |-> <<>>] /\ target = [kind |-> "none"] /\ k = [hung |-> TRUE]
  /\ bus = <<FALSE, 0>> /\ ref = [s |-> <<>>] /\ faithful = FALSE /\ cnt = 0 /\ since = 0
NoWrapper ==
  /\ goal = [kind |-> "none"] /\ regs = <<>> /\ truth = <<>> /\ sane = TRUE
  /\ resets = ResetCycles
TargetsInit == (Init /\ NoWrapper) \/ (NoProgram /\ WrapperInit)
TargetsNext ==
  \/ target.kind # "none" /\ Next /\ UNCHANGED wrapperVars
  \/ goal.kind # "none" /\ WrapperNext /\ UNCHANGED vars
TargetsSpec == TargetsInit /\ [][TargetsNext]_<<vars, wrapperVars>>
=============================================================================
