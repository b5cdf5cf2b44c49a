------------------------------ MODULE CommDiag ------------------------------
(***************************************************************************)
(* The equivalence checker of src/src/ila-mngr/v_eq_check_crr.cc.  Two     *)
(* ILAs, A and B, are compared by a commuting diagram: from a state, the   *)
(* "old" path flushes until the completion condition holds, the "new" path *)
(* applies the instruction first and flushes then; if the old complete     *)
(* states are related, the new ones must be.                               *)
(*                                                                         *)
(* A refinement r has the functions r.flush and r.appl, the next state     *)
(* under the flush and under the apply condition (both constrain inputs),  *)
(* the set r.cmpl of complete states, and the given numbers of steps       *)
(* r.step_orig and r.step_appl, -1 if they are not set.  A step that       *)
(* neither condition constrains may take either function.                  *)
(***************************************************************************)
EXTENDS Integers, FiniteSetsExt

CONSTANTS
    State,
    RefinesA,  \* candidates for crr_->refine_a()
    RefinesB,  \* candidates for crr_->refine_b()
    Relation,  \* crr_->relation(): related states of A and B
    MinStep,   \* argument `min' of each method that may be called
    MaxStep, IncStep  \* the arguments `max' and `step'

ASSUME CommDiagAssumption ==
    /\ State # {}
    /\ \A r \in RefinesA \cup RefinesB :
          /\ r.flush \in [State -> State] /\ r.appl \in [State -> State]
          /\ r.cmpl \subseteq State
          /\ r.step_orig \in Int /\ r.step_appl \in Int
    /\ Relation \subseteq State \X State
    /\ DOMAIN MinStep \subseteq {"EqCheck", "IncEqCheck", "IncCheck"}
    /\ \A m \in DOMAIN MinStep : MinStep[m] \in Nat
    /\ MaxStep \in Nat /\ IncStep \in Nat \ {0}

VARIABLES
    ref,     \* the refinements of "A" and "B"
    method,  \* the method that is called
    pc,
    verdict, \* "none", or what the method returned: "true" or "false"
    steps,   \* EqCheck: the numbers of flush steps, <<ila, path>> |-> number
    unit,    \* incremental checks: lo and hi of an unrolled path (UnrlUnit)
    i,       \* their loop variable
    conn,    \* frames of a path that the solver has connected to the next one
    flushed, \* frames of a path on which it has the flush condition
    marked,  \* frames of a path it ties to the representative when complete
    partial  \* it has the partial property of an earlier round

vars == <<ref, method, pc, verdict, steps, unit, i, conn, flushed, marked, partial>>
solver == <<conn, flushed, marked, partial>>

Ila == {"A", "B"}
Path == {"old", "new"}
UID == Ila \X Path
MaxFrame == MaxStep + IncStep + 1

Init ==
    /\ ref \in [A : RefinesA, B : RefinesB]
    /\ method \in DOMAIN MinStep
    /\ pc = "call" /\ verdict = "none"
    /\ steps = [u \in UID |-> -1]
    /\ unit = [u \in UID |-> [lo |-> 0, hi |-> 0]]
    /\ i = 0
    /\ conn = [u \in UID |-> {}]
    /\ flushed = [u \in UID |-> {}]
    /\ marked = [u \in UID |-> {}]
    /\ partial = FALSE

-----------------------------------------------------------------------------
(* EqCheck.  Paths are functions of the frame; CheckStepOrig and            *)
(* CheckStepAppl assert the flush condition on every frame but the applied. *)

FlushRun(x, s) ==
    LET p[k \in 0 .. MaxFrame] == IF k = 0 THEN s ELSE ref[x].flush[p[k - 1]] IN p
RunOf(u, s) ==
    IF u[2] = "old" THEN FlushRun(u[1], s)
    ELSE [k \in 0 .. MaxFrame |->
            IF k = 0 THEN s ELSE FlushRun(u[1], ref[u[1]].appl[s])[k - 1]]

\* The frames on which completion is looked for when the path has n steps.
Span(u, n) == IF u[2] = "old" THEN 0 .. n ELSE 1 .. n + 1

AtLeastOnce(p, C, F) == \E k \in F : p[k] \in C
AtMostOnce(p, C, F) == \A k, l \in F : p[k] \in C /\ p[l] \in C => k = l

\* Variant of CheckStep: some run is complete, not every one.
CheckStep_Faulty(u, n) ==
    \E s \in State : AtLeastOnce(RunOf(u, s), ref[u[1]].cmpl, Span(u, n))

\* CheckStepOrig and CheckStepAppl.  The second query still has the
\* constraints of the first one.
CheckStep(u, n) ==
    LET C == ref[u[1]].cmpl
        notOnce(s) == ~AtLeastOnce(RunOf(u, s), C, Span(u, n))
    IN  /\ ~\E s \in State : notOnce(s)
        /\ ~\E s \in State : notOnce(s) /\ ~AtMostOnce(RunOf(u, s), C, Span(u, n))

\* DetStepOrig and DetStepAppl: the least number of steps that is enough, -1 if
\* none is.  A given number of steps is where the search starts.
DetStep(u) ==
    LET given == IF u[2] = "old" THEN ref[u[1]].step_orig ELSE ref[u[1]].step_appl
        found == {n \in Max({given, 0}) .. MaxStep : CheckStep(u, n)}
    IN  IF found = {} THEN -1 ELSE Min(found)

\* UnrollFlush: the values of the representative that agree with the marks.
Representatives(u, s, F) ==
    {v \in State : \A k \in F : RunOf(u, s)[k] \in ref[u[1]].cmpl => v = RunOf(u, s)[k]}

\* GenTranRel: the representatives of the old and of the new path.
GenTranRel(x) ==
    UNION {Representatives(<<x, "old">>, s, Span(<<x, "old">>, steps[<<x, "old">>]))
           \X Representatives(<<x, "new">>, s, Span(<<x, "new">>, steps[<<x, "new">>]))
             : s \in State}

EqDetSteps ==
    /\ pc = "call" /\ method = "EqCheck"
    /\ steps' = [u \in UID |-> DetStep(u)]
    /\ IF \E u \in UID : steps'[u] < 0
         THEN pc' = "done" /\ verdict' = "false"
         ELSE pc' = "eq" /\ UNCHANGED verdict
    /\ UNCHANGED <<ref, method, unit, i, solver>>

\* A dead transition relation is an error, and the answer is false.
EqSolve ==
    /\ pc = "eq"
    /\ pc' = "done"
    /\ verdict' = IF /\ GenTranRel("A") # {} /\ GenTranRel("B") # {}
                     /\ \A a \in GenTranRel("A"), b \in GenTranRel("B") :
                          <<a[1], b[1]>> \in Relation => <<a[2], b[2]>> \in Relation
                  THEN "true" ELSE "false"
    /\ UNCHANGED <<ref, method, steps, unit, i, solver>>

-----------------------------------------------------------------------------
(* IncEqCheck and IncCheck.                                                 *)

\* The paths on which the unroller of path u asserts the flush condition.  The
\* unrollers of IncEqCheck are its own; those of IncCheck are shared by A and
\* B, and Init clears what it added for A when it adds for B.
FlushOf(u) == IF method = "IncCheck" THEN {<<"B", u[2]>>} ELSE {u}

\* GetZ3IncFlsh and GetZ3IncUnrl: the frames MonoIncr is called for.
Begin(u) == IF method = "IncCheck" THEN unit[u].lo ELSE i
Length(u) == IF method = "IncCheck" THEN unit[u].hi - unit[u].lo ELSE IncStep

\* Paths with the values that the solver may give to their frames.
Runs(u, s) ==
    {p \in [0 .. MaxFrame -> State] :
       /\ p[0] = s
       /\ \A k \in conn[u] :
            \/ p[k + 1] = ref[u[1]].flush[p[k]]
            \/ k \notin flushed[u] /\ p[k + 1] = ref[u[1]].appl[p[k]]}

\* What such a path means to a query: <<representative, it completes>>.
Outcomes(u, s) ==
    UNION {{<<v, \E k \in 0 .. unit[u].hi : p[k] \in ref[u[1]].cmpl>> :
              v \in {v \in State : \A k \in marked[u] : p[k] \in ref[u[1]].cmpl => v = p[k]}}
           : p \in Runs(u, s)}

\* The models of the solver.  GetZ3ApplInstr lets the apply step lead from the
\* first old to the first new state.
Models ==
    UNION {[old : [A : Outcomes(<<"A", "old">>, a), B : Outcomes(<<"B", "old">>, b)],
            new : [A : Outcomes(<<"A", "new">>, ref["A"].appl[a]),
                   B : Outcomes(<<"B", "new">>, ref["B"].appl[b])]]
           : a \in State, b \in State}

Assm(m) == <<m.old["A"][1], m.old["B"][1]>> \in Relation
\* Variant of Prop: the representatives of the old path.
Prop_Faulty(m) == Assm(m)
Prop(m) == <<m.new["A"][1], m.new["B"][1]>> \in Relation
\* Variant of Complete: the completion flag is left free.
Complete_Faulty(m) == TRUE
Complete(m) == \A x \in Ila : m.old[x][2] /\ m.new[x][2]
\* The partial property is ((cmpl => assm) /\ assm) => prop.
Asserted(m) == partial => (((Complete(m) => Assm(m)) /\ Assm(m)) => Prop(m))

IncStart ==
    /\ pc = "call" /\ method # "EqCheck"
    /\ unit' = [u \in UID |-> [lo |-> 0, hi |-> MinStep[method]]]
    /\ i' = MinStep[method]
    /\ flushed' = [u \in UID |-> {0}]
    /\ pc' = "unroll"
    /\ UNCHANGED <<ref, method, verdict, steps, conn, marked, partial>>

\* The head of the loop, and the unrolling of the paths that need it.
IncUnroll ==
    LET new == {u \in UID : unit[u].hi = i}
        frames(u) == (Begin(u) .. Begin(u) + Length(u) - 1)
    IN  /\ pc = "unroll"
        /\ IF i > MaxStep \/ \A u \in UID : unit[u].hi < i
             THEN /\ pc' = "done" /\ verdict' = "true"
                  /\ UNCHANGED <<conn, flushed, marked>>
             ELSE /\ pc' = "check"
                  /\ conn' = [u \in UID |-> IF u \in new THEN conn[u] \cup frames(u) ELSE conn[u]]
                  /\ marked' = [u \in UID |-> IF u \in new
                        THEN marked[u] \cup (Begin(u) .. Begin(u) + Length(u)) ELSE marked[u]]
                  /\ flushed' = [u \in UID |-> flushed[u] \cup
                        UNION {frames(w) \cup {Length(w)} : w \in {w \in new : u \in FlushOf(w)}}]
                  /\ UNCHANGED verdict
        /\ UNCHANGED <<ref, method, steps, unit, i, partial>>

IncSolve ==
    /\ pc = "check"
    /\ IF \E m \in Models : Asserted(m) /\ Complete(m) /\ Assm(m) /\ ~Prop(m)
         THEN pc' = "done" /\ verdict' = "false" /\ UNCHANGED partial
         ELSE pc' = "advance" /\ partial' = TRUE /\ UNCHANGED verdict
    /\ UNCHANGED <<ref, method, steps, unit, i, conn, flushed, marked>>

\* CheckCmpl: no model leaves the path incomplete.
CheckCmpl(u) == ~\E m \in Models : Asserted(m) /\ ~m[u[2]][u[1]][2]

IncAdvance ==
    /\ pc = "advance"
    /\ unit' = [u \in UID |->
          [lo |-> unit[u].hi,
           hi |-> IF unit[u].hi = i /\ ~CheckCmpl(u) THEN unit[u].hi + IncStep
                  ELSE unit[u].hi]]
    /\ i' = i + IncStep
    /\ pc' = "unroll"
    /\ UNCHANGED <<ref, method, verdict, steps, solver>>

Terminated == pc = "done" /\ UNCHANGED vars

Next == EqDetSteps \/ EqSolve \/ IncStart \/ IncUnroll \/ IncSolve \/ IncAdvance
        \/ Terminated

Spec == Init /\ [][Next]_vars

-----------------------------------------------------------------------------
(* The reference.                                                           *)

\* The complete states that flushing reaches from s in at most n steps.
Completions(x, s, n) == {FlushRun(x, s)[k] : k \in 0 .. n} \cap ref[x].cmpl

\* The diagram, for paths that are complete after at most n steps.
Commutes(n) ==
    \A a, b \in State :
       \A ao \in Completions("A", a, n), bo \in Completions("B", b, n),
          an \in Completions("A", ref["A"].appl[a], n),
          bn \in Completions("B", ref["B"].appl[b], n) :
          <<ao, bo>> \in Relation => <<an, bn>> \in Relation

\* EqCheck decides the diagram: once the numbers of steps are determined, it
\* answers true if and only if the diagram commutes, however long the paths.
EqExact == (method = "EqCheck" /\ pc = "done" /\ \A u \in UID : steps[u] >= 0)
              => (verdict = "true" <=> Commutes(MaxFrame))

\* The first round of IncEqCheck and IncCheck misses nothing: they never answer
\* true when a diagram whose paths are complete after min steps does not commute.
\* (Later rounds do: the partial property each round leaves in the solver holds
\* back every later counterexample, so max cannot stand for min here.)
FirstRoundSound ==
    method # "EqCheck" /\ verdict = "true" => Commutes(MinStep[method])

\* IncEqCheck raises no false alarm: when it answers false, there is a diagram
\* that does not commute.  (IncCheck does, once it unrolls two frames at a time:
\* A is not flushed on the second.)
NoFalseAlarm ==
    method = "IncEqCheck" /\ verdict = "false" => ~Commutes(MaxFrame)
=============================================================================
