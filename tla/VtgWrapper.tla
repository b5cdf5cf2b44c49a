----------------------------- MODULE VtgWrapper -----------------------------
(***************************************************************************)
(* The Verilog wrapper that VlgSglTgtGen writes to check one instruction,  *)
(* or the invariants, of an implementation against its ILA: monitor        *)
(* registers, the ILA module, the auxiliary variables of the refinement    *)
(* map, and the assumptions and the assertion given to the model checker.  *)
(* t is the target, g the registers and x the wires of one cycle; the      *)
(* implementation is arbitrary, so its signals are free wires.             *)
(***************************************************************************)
EXTENDS Integers, Sequences, FiniteSets

CONSTANTS Vals,    \* values of the mapped register and of data
          Slack    \* cycles the counter runs on beyond the bound (10 in the code)
ASSUME WrapperAssumption == 0 \in Vals /\ Vals \subseteq Nat /\ Slack \in Nat \ {0}
NoWrite == -1

-----------------------------------------------------------------------------
(* GenerateTargets: the invariants target exists when there is something to
   validate, and aborts when its mode has no invariant of its own kind. *)
InvariantExists(t) ==
  \/ t.rf # {}
  \/ t.mode \in {"all", "confirmed"} /\ t.conf # {}
  \/ t.mode \in {"all", "candidate"} /\ t.guess # {}
Buildable(t) ==
  t.kind = "inv" =>
    /\ InvariantExists(t)
    /\ t.mode = "noinv" => t.rf # {}
    /\ t.mode = "candidate" => t.guess # {}
    /\ t.mode = "confirmed" => t.conf # {}

(* What is asserted and what is assumed of the given (rf), confirmed and
   guessed invariants. *)
AssertedInvs(t) ==
  CASE t.kind = "instr"      -> {}
    [] t.mode = "all"        -> t.rf \cup t.conf \cup t.guess
    [] t.mode = "candidate"  -> t.guess
    [] t.mode = "confirmed"  -> t.conf
    [] t.mode = "noinv"      -> t.rf
AssumedInvs(t) ==
  CASE t.kind = "instr"      -> t.rf \cup t.conf \cup t.guess
    [] t.mode = "candidate"  -> t.rf \cup t.conf
    [] t.mode = "confirmed"  -> t.rf
    [] OTHER                 -> {}

-----------------------------------------------------------------------------
(* add_delay_unit: the registers of ##n, of ##[n:$] and of ##[n:u]. *)
ChainNext(g, x) == [i \in DOMAIN g.chain |-> IF i = 1 THEN x.rdy ELSE g.chain[i - 1]]
Delayed(t, g) ==
  CASE t.ready = "single" -> g.chain[t.bound]
    [] t.ready = "ever"   -> g.ever \/ g.chain[t.bound]
    [] t.ready = "range"  -> \E i \in t.bound .. t.upper : g.chain[i]

(* add_stage_tracker: the enter rule goes before the exit rule. *)
StageNext(g, x) == IF x.rdy THEN TRUE ELSE IF x.ev THEN FALSE ELSE g.stage

(* The ready signal of the instruction, or the number of cycles it takes. *)
EndCond(t, g, x) ==
  CASE t.ready = "bound"  -> g.cnt = t.bound
    [] t.ready = "signal" -> x.rdy
    [] t.ready = "stage"  -> g.stage
    [] OTHER              -> Delayed(t, g)
EdCond(t, g, x) == EndCond(t, g, x) /\ g.started
IEnd(t, g, x) ==
  /\ EdCond(t, g, x) /\ g.reseted /\ ~g.ended
  /\ t.maxb # 0 => g.cnt <= t.maxb

-----------------------------------------------------------------------------
(* add_cycle_count_moniter. *)
MaxBound(t) ==
  LET ready == IF t.ready = "bound" THEN t.bound ELSE t.cfgmax
  IN  IF t.maxb > ready THEN t.maxb ELSE ready
CountNext(t, g, x) ==
  IF x.rst THEN 0
  ELSE IF (g.start \/ g.started) /\ g.cnt < MaxBound(t) + Slack THEN g.cnt + 1 ELSE g.cnt
StartNext(t, g, x) ==
  IF (IF t.force THEN x.issue /\ ~g.start /\ ~g.started ELSE x.rst) THEN TRUE
  ELSE IF g.start \/ g.started THEN FALSE ELSE g.start
StartedNext(g, x) == ~x.rst /\ (g.start \/ g.started)
EndedNext(t, g, x) == ~x.rst /\ (IEnd(t, g, x) \/ g.ended)
SecondEndedNext(t, g, x) ==
  ~x.rst /\ (g.ended2 \/ (g.ended /\ EdCond(t, g, x)))

(* The ILA module runs its instruction in the start cycle only; the wrapper
   latches its write port then. *)
InstrDecodes(t, g, x) == <<g.s, x.iin>> \in t.instr.dec
(* The result of an uninterpreted function (translateApplyFunc) and the data of
   a memory outside come from outside the module. *)
IlaResult(t, g, x) ==
  IF t.asks # "nothing" THEN x.fres
  ELSE IF t.instr.upd = <<>> THEN g.s ELSE t.instr.upd[<<g.s, x.iin>>]
IlaNext(t, g, x) ==
  IF x.rst THEN x.rand
  ELSE IF g.start /\ g.s \in t.instr.valid /\ InstrDecodes(t, g, x)
       THEN IlaResult(t, g, x) ELSE g.s
PortNext(t, g, x) ==
  IF ~g.start \/ t.instr.wr = <<>> THEN g.port
  ELSE IF InstrDecodes(t, g, x) THEN t.instr.wr[<<g.s, x.iin>>] ELSE NoWrite

(* add_post_value_holder: pv is a constant that an assumption ties to the value;
   _sn_condmet and _sn_vhold check the recording.  Mutant: a condition before
   the start of the check is taken for one of the check. *)
Window(g) == g.start \/ g.started
Recording_Faulty(t, g, x) == t.map = "recorded" /\ x.ev /\ ~g.ended
Recording(t, g, x) == t.map = "recorded" /\ x.ev /\ Window(g) /\ ~g.ended
Enforced(t, g, x) ==
  t.map = "recorded" /\ x.ev /\ (t.onecycle => Window(g) /\ ~g.met)
SanityHolds(t, g, x) ==
  /\ g.met /\ Recording(t, g, x) => x.r = g.held
  /\ IEnd(t, g, x) => g.met \/ Recording(t, g, x)

MonitorNext(t, g, x) ==
  [cnt |-> CountNext(t, g, x), start |-> StartNext(t, g, x),
   started |-> StartedNext(g, x), ended |-> EndedNext(t, g, x),
   ended2 |-> SecondEndedNext(t, g, x), reseted |-> x.rst \/ g.reseted,
   s |-> IlaNext(t, g, x), port |-> PortNext(t, g, x),
   pv |-> g.pv, met |-> g.met \/ Recording(t, g, x),
   held |-> IF Recording(t, g, x) THEN x.r ELSE g.held,
   chain |-> ChainNext(g, x),
   ever |-> g.ever \/ (t.ready = "ever" /\ g.chain[t.bound]), stage |-> StageNext(g, x)]

-----------------------------------------------------------------------------
(* The refinement map of a state: a list of conditions and values, of which
   the first that applies is meant; where none does nothing is required. *)
StateMap(t, g, x) ==
  CASE t.map = "direct"   -> <<<<TRUE, x.r>>>>
    [] t.map = "cases"    -> <<<<x.ev, x.r>>, <<x.in # 0, 0>>>>
    [] t.map = "recorded" -> <<<<g.start, x.r>>, <<TRUE, g.pv>>>>
MapHolds(list, v) ==
  \A i \in DOMAIN list :
    list[i][1] /\ (\A j \in 1 .. i - 1 : ~list[j][1]) => v = list[i][2]

(* handle_start_condition: given conditions replace the default ones. *)
StartConditions(t) == IF t.given THEN t.starts ELSE {"$decode", "$valid"}
StartHolds(t, g, x) ==
  /\ "$decode" \in StartConditions(t) => InstrDecodes(t, g, x)
  /\ "$valid" \in StartConditions(t) => g.s \in t.instr.valid

(* The result of an uninterpreted function and the data a memory outside
   returns, where the implementation asks the same (x.farg, x.fval). *)
FunctionHolds(t, g, x) ==
  t.asks = "function" /\ (g.start => g.s = x.farg) => (g.start => x.fres = x.fval)
ReadHolds(t, g, x) ==
  t.asks = "memory" /\ g.start /\ x.ren /\ g.s = x.farg => x.fres = x.fval
WriteHolds(t, g, x) == t.instr.wr # <<>> => g.port = x.port

InputHolds(t, g, x) == g.start => x.iin = x.in
InvsHold(invs, x) == \A inv \in invs : x.r \in inv
UpdatesState(t) == t.instr.upd # <<>> \/ t.asks # "nothing"

(* The reset input of the implementation is rst or an input that nothing else
   looks at; what the targets rule out of it. *)
ResetLine(t, x) == IF t.force THEN x.rst ELSE x.dummy
ResetHolds(t, g, x) ==
  t.norst => IF t.kind = "inv" THEN ~x.rst ELSE g.reseted => ~x.dummy

Assumed(t, g, x) ==
  /\ InvsHold(AssumedInvs(t), x) /\ ResetHolds(t, g, x)
  /\ t.kind = "instr" =>
       /\ g.start => StartHolds(t, g, x)
       /\ InputHolds(t, g, x)
       /\ g.start /\ (t.onlyassume => UpdatesState(t)) => MapHolds(StateMap(t, g, x), g.s)
       /\ FunctionHolds(t, g, x) /\ ReadHolds(t, g, x)
       /\ Enforced(t, g, x) => g.pv = x.r

Asserted(t, g, x) ==
  /\ InvsHold(AssertedInvs(t), x)
  /\ t.kind = "instr" /\ IEnd(t, g, x) =>
       /\ (t.onlycheck => UpdatesState(t)) => MapHolds(StateMap(t, g, x), g.s)
       /\ WriteHolds(t, g, x)
=============================================================================
