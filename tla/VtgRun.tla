------------------------------- MODULE VtgRun -------------------------------
(***************************************************************************)
(* A wrapper under a model checker: some cycles of reset without           *)
(* assumptions, then every behaviour in which the assumptions hold in      *)
(* every cycle.  truth follows the same signals without the monitor: when  *)
(* a check begins, what the instruction makes of the state it starts in,   *)
(* and when the implementation completes.                                  *)
(***************************************************************************)
EXTENDS VtgWrapper

CONSTANTS Goals,       \* the targets
          ResetCycles  \* reset_specification.reset_cycle
ASSUME RunAssumption == ResetCycles \in Nat \ {0}

VARIABLES goal, regs,
          resets,   \* cycles of the reset phase that are left
          truth,
          sane      \* the sanity assertions have held
wrapperVars == <<goal, regs, resets, truth, sane>>

(* The wires of a cycle; those the target does not look at are fixed. *)
Free(b, S, v) == IF b THEN S ELSE {v}
WiresOf(t, g, reset) ==
  {[rst |-> p[1], dummy |-> p[2], issue |-> p[3], r |-> p[4], in |-> q[1], iin |-> q[2],
    rdy |-> p[5], ev |-> p[6], port |-> q[3], farg |-> q[4], fval |-> q[5], fres |-> q[6],
    ren |-> p[7], rand |-> q[7]] :
     p \in Free(reset \/ t.again, IF reset THEN {TRUE} ELSE BOOLEAN, FALSE)
           \X Free(~reset /\ ~t.force, BOOLEAN, FALSE) \X Free(t.force, BOOLEAN, TRUE)
           \X Free(~reset \/ t.map = "recorded", Vals, 0)
           \X Free(t.ready # "bound", BOOLEAN, FALSE)
           \X Free(t.map # "direct" \/ t.ready = "stage", BOOLEAN, FALSE)
           \X Free(t.asks = "memory" /\ g.start, BOOLEAN, FALSE),
     q \in Free(~reset /\ (g.start \/ t.map = "cases"), Vals, 0) \X Free(~reset /\ g.start, Vals, 0)
           \X Free(~reset /\ t.instr.wr # <<>>, Vals \cup {NoWrite}, NoWrite)
           \X Free(t.asks # "nothing" /\ g.start, Vals, 0)
           \X Free(t.asks # "nothing" /\ g.start, Vals, 0)
           \X Free(t.asks # "nothing" /\ g.start, Vals, 0)
           \X Free(reset \/ t.again, Vals, 0)}

(* The initial statements, and arbitrary values of what has none and is looked
   at before the first reset edge sets it. *)
PowerUp(t) ==
  {[cnt |-> 0, start |-> b[1], started |-> b[2], ended |-> b[3], ended2 |-> FALSE,
    reseted |-> FALSE, s |-> 0, port |-> NoWrite, pv |-> v, met |-> FALSE,
    held |-> v, chain |-> [i \in 1 .. t.upper |-> FALSE], ever |-> FALSE, stage |-> FALSE] :
     b \in Free(t.force \/ t.map = "recorded", BOOLEAN, FALSE)
           \X Free(t.map = "recorded", BOOLEAN, FALSE) \X Free(t.map = "recorded", BOOLEAN, FALSE),
     v \in Free(t.map = "recorded", Vals, 0)}

-----------------------------------------------------------------------------
(* The reference.  age counts the cycles since the start of the check under way,
   -1 if there is none; past, first and on tell whether a delayed signal or a
   stage says that the implementation is ready. *)
AgeNext(t, f, x) ==
  IF ~t.force THEN (IF x.rst THEN 0 ELSE IF f.age < 0 THEN -1 ELSE f.age + 1)
  ELSE IF f.age < 0 THEN (IF x.issue THEN 0 ELSE -1)
  ELSE IF x.rst THEN -1 ELSE f.age + 1
Aged(t, age) == IF age > MaxBound(t) + 1 THEN MaxBound(t) + 1 ELSE age

IsReady(t, f, x) ==
  CASE t.ready = "bound"  -> f.age = t.bound
    [] t.ready = "signal" -> x.rdy
    [] t.ready = "single" -> f.past[t.bound]
    [] t.ready = "range"  -> \E i \in t.bound .. t.upper : f.past[i]
    [] t.ready = "ever"   -> f.first >= t.bound
    [] t.ready = "stage"  -> f.on
Completes(t, f, x) ==
  /\ f.age >= 1 /\ ~f.over /\ IsReady(t, f, x)
  /\ t.maxb # 0 => f.age <= t.maxb

(* The state the instruction starts in is the mapped one, where there is one. *)
MappedState(t, f, g, x) ==
  CASE t.map = "cases"    -> IF x.ev THEN <<x.r>> ELSE IF x.in # 0 THEN <<0>> ELSE <<>>
    [] t.map = "recorded" -> IF f.age = 0 THEN <<x.r>> ELSE IF x.ev /\ f.seen = <<>> THEN <<x.r>> ELSE f.seen
    [] OTHER              -> <<x.r>>
Outcome(t, v, x) ==
  IF v \notin t.instr.valid \/ <<v, x.in>> \notin t.instr.dec THEN v
  ELSE IF t.asks # "nothing"
       THEN IF v = x.farg /\ (t.asks = "memory" => x.ren) THEN x.fval ELSE x.fres
  ELSE IF t.instr.upd = <<>> THEN v ELSE t.instr.upd[<<v, x.in>>]
WriteOf(t, v, x) ==
  IF t.instr.wr = <<>> \/ <<v, x.in>> \notin t.instr.dec THEN NoWrite ELSE t.instr.wr[<<v, x.in>>]

RefNext(t, f, g, x) ==
  LET v == IF MappedState(t, f, g, x) = <<>> THEN g.s ELSE MappedState(t, f, g, x)[1]
      age == Aged(t, AgeNext(t, f, x))
  IN  [age |-> age,
       over |-> age > 0 /\ (f.over \/ Completes(t, f, x)),
       want |-> IF f.age = 0 THEN Outcome(t, v, x) ELSE f.want,
       write |-> IF f.age = 0 THEN WriteOf(t, v, x) ELSE f.write,
       seen |-> IF age <= 0 THEN <<>>
                ELSE IF f.age >= 0 /\ x.ev /\ f.seen = <<>> THEN <<x.r>> ELSE f.seen,
       past |-> [i \in DOMAIN f.past |-> IF i = 1 THEN x.rdy ELSE f.past[i - 1]],
       first |-> IF t.ready # "ever" \/ f.first >= t.bound THEN f.first
                 ELSE IF f.first > 0 \/ x.rdy THEN f.first + 1 ELSE 0,
       on |-> x.rdy \/ (f.on /\ ~x.ev),
       fit |-> IF f.age = 0 THEN v \in t.instr.valid /\ <<v, x.in>> \in t.instr.dec ELSE f.fit,
       before |-> f.before \/ (age <= 0 /\ (f.seen # <<>> \/ (f.age >= 0 /\ ~f.over /\ x.ev))),
       spoiled |-> age > 0 /\ (f.spoiled \/ (f.age >= 0 /\ ResetLine(t, x)))]
RefStart(t, g) ==
  [age |-> IF g.start THEN 0 ELSE IF g.started THEN 1 ELSE -1, over |-> FALSE,
   want |-> 0, write |-> NoWrite, seen |-> <<>>, past |-> [i \in 1 .. t.upper |-> FALSE],
   first |-> 0, on |-> FALSE, fit |-> FALSE,
   before |-> FALSE, spoiled |-> FALSE]

-----------------------------------------------------------------------------
WrapperInit ==
  /\ goal \in Goals /\ Buildable(goal) /\ regs \in PowerUp(goal)
  /\ resets = ResetCycles /\ truth = RefStart(goal, regs) /\ sane = TRUE

(* PreExportProcess: the outputs that the model checker is given. *)
AllAssumeWire(x) == Assumed(goal, regs, x)
AllAssertWire(x) == Asserted(goal, regs, x)
SanityCheckWire(x) == SanityHolds(goal, regs, x)

(* A cycle with the wires x, which the assumptions allow, and its clock edge. *)
Allowed == {x \in WiresOf(goal, regs, resets > 0) : resets = 0 => AllAssumeWire(x)}
Cycle(x) ==
  /\ regs' = IF goal.kind = "instr" THEN MonitorNext(goal, regs, x) ELSE regs
  /\ truth' = IF goal.kind = "instr" THEN RefNext(goal, truth, regs, x) ELSE truth
  /\ resets' = IF resets = 0 THEN 0 ELSE resets - 1
  /\ sane' = (sane /\ (resets = 0 => SanityCheckWire(x)))
  /\ UNCHANGED goal
WrapperNext == \E x \in Allowed : Cycle(x)
WrapperSpec == WrapperInit /\ [][WrapperNext]_wrapperVars

-----------------------------------------------------------------------------
(* The assertion of an instruction target means what it should: the state is
   assumed to be the mapped one where the instruction starts, and a recorded
   value was recorded once, in this check, and the sanity assertions held. *)
Tied(t) == t.onlyassume => UpdatesState(t)
Recorded(t, f, x) ==
  t.map = "recorded" => sane /\ SanityCheckWire(x) /\ ~f.before

Disagrees(t, f, x) ==
  LET v == MappedState(t, f, regs, x)
  IN  /\ Completes(t, f, x)
      /\ \/ (t.onlycheck => UpdatesState(t)) /\ v # <<>> /\ v[1] # f.want
         \/ t.instr.wr # <<>> /\ x.port # f.write

(* ConstructWrapper: whatever the implementation does, the assertion of an
   instruction target fails in a cycle exactly when the implementation
   completes the instruction in it, for the first time and within the bound,
   with another state or another write than the ILA gives from the mapped state
   in which the check began, a valid one where nothing else is asked for;
   resets that are ruled out play no part.  A recorded value counts when no
   earlier check recorded one and the sanity assertions hold.  An
   invariants target that neither fails nor is cut off by an assumption has
   seen every invariant the instruction targets rely on hold. *)
TargetDecides ==
  resets = 0 => \A x \in Allowed :
    /\ goal.kind = "instr" /\ Tied(goal) /\ Recorded(goal, truth, x) =>
         /\ ~AllAssertWire(x) <=> Disagrees(goal, truth, x)
         /\ Completes(goal, truth, x) => goal.given \/ truth.fit
         /\ goal.norst /\ ~goal.force => ~truth.spoiled
    /\ goal.kind = "inv" /\ AllAssertWire(x) =>
         \/ goal.mode = "noinv" \/ (goal.mode = "confirmed" /\ goal.guess # {})
         \/ \A inv \in goal.rf \cup goal.conf \cup goal.guess : x.r \in inv
=============================================================================
