--------------------------- MODULE CommDiagProofs ---------------------------
(***************************************************************************)
(* What the answers of the equivalence checker mean, for every pair of     *)
(* ILAs, relation and bounds: EqCheck decides the diagram, the first round *)
(* of the incremental checks misses no counterexample, and IncEqCheck      *)
(* finds no spurious one.                                                  *)
(***************************************************************************)
EXTENDS CommDiag, WellFoundedInduction, TLAPS

-----------------------------------------------------------------------------
(* Iteration of a function.  Facts about all the frames of a path follow    *)
(* from the absence of a least frame that violates them.                    *)

LEMMA LeastNumber ==
    ASSUME NEW T \in SUBSET Nat, T # {}
    PROVE  \E n \in T : \A m \in T : n <= m
<1> DEFINE R == OpToRel(<, Nat)
<1>1. R = {ss \in Nat \X Nat : ss[1] < ss[2]}
  BY DEF OpToRel
<1>2. \E n \in T : \A m \in T : ~ (<<m, n>> \in R)
  <2>1. IsWellFoundedOn(R, Nat)
    BY NatLessThanWellFounded, Zenon
  <2> HIDE DEF R
  <2> QED
    BY <2>1, WFMin
<1>3. \A m, n \in T : ~ (<<m, n>> \in R) => n <= m
  <2> HIDE DEF R
  <2> QED
    BY <1>1
<1> HIDE DEF R
<1> QED
  BY <1>2, <1>3

\* The first n steps of p apply f.
Iterates(p, f, n) == \A k \in 0 .. n - 1 : p[k + 1] = f[p[k]]

LEMMA IterationExists ==
    ASSUME NEW f \in [State -> State], NEW s \in State, NEW n \in Nat
    PROVE  \E p \in [0 .. n -> State] : p[0] = s /\ Iterates(p, f, n)
<1> DEFINE T == {m \in Nat : ~ \E p \in [0 .. m -> State] : p[0] = s /\ Iterates(p, f, m)}
<1> SUFFICES ASSUME T # {} PROVE FALSE
  OBVIOUS
<1>1. PICK m \in T : \A l \in T : m <= l
  <2> HIDE DEF T
  <2>1. T \in SUBSET Nat
    BY DEF T
  <2> QED
    BY <2>1, LeastNumber
<1>2. CASE m = 0
  <2> DEFINE q == [k \in 0 .. m |-> s]
  <2>1. q \in [0 .. m -> State] /\ q[0] = s /\ Iterates(q, f, m)
    BY <1>2 DEF Iterates
  <2> QED
    BY <2>1
<1>3. CASE m # 0
  <2>1. m - 1 \in Nat /\ m - 1 \notin T
    BY <1>1, <1>3
  <2>2. PICK p \in [0 .. m - 1 -> State] : p[0] = s /\ Iterates(p, f, m - 1)
    BY <2>1
  <2> DEFINE q == [k \in 0 .. m |-> IF k = m THEN f[p[m - 1]] ELSE p[k]]
  <2>3. q \in [0 .. m -> State] /\ q[0] = s
    BY <2>1, <2>2
  <2>4. Iterates(q, f, m)
    <3> SUFFICES ASSUME NEW k \in 0 .. m - 1 PROVE q[k + 1] = f[q[k]]
      BY DEF Iterates
    <3>1. CASE k = m - 1
      BY <3>1
    <3>2. CASE k # m - 1
      <4>1. k \in 0 .. (m - 1) - 1 /\ k \in 0 .. m /\ k + 1 \in 0 .. m /\ k # m /\ k + 1 # m
        BY <3>2
      <4> QED
        BY <2>2 DEF Iterates
    <3> QED
      BY <3>2
  <2> QED
    BY <2>3, <2>4
<1> QED
  BY <1>2, <1>3

LEMMA IterationUnique ==
    ASSUME NEW f, NEW p, NEW q, NEW n \in Nat, p[0] = q[0], Iterates(p, f, n), Iterates(q, f, n)
    PROVE  \A k \in 0 .. n : p[k] = q[k]
<1> DEFINE T == {m \in 0 .. n : p[m] # q[m]}
<1> SUFFICES ASSUME T # {} PROVE FALSE
  OBVIOUS
<1>1. PICK m \in T : \A l \in T : m <= l
  <2> HIDE DEF T
  <2>1. T \in SUBSET Nat
    BY DEF T
  <2> QED
    BY <2>1, LeastNumber
<1>2. m # 0 /\ m - 1 \in 0 .. n - 1 /\ m - 1 \in 0 .. n /\ (m - 1) + 1 = m
  OBVIOUS
<1>3. p[m - 1] = q[m - 1]
  BY <1>1
<1>4. p[(m - 1) + 1] = f[p[m - 1]] /\ q[(m - 1) + 1] = f[q[m - 1]]
  BY DEF Iterates
<1> QED
  BY <1>3, <1>4

LEMMA FixedPointKept ==
    ASSUME NEW f, NEW p, NEW n \in Nat, NEW k \in 0 .. n, Iterates(p, f, n), f[p[k]] = p[k]
    PROVE  \A l \in k .. n : p[l] = p[k]
<1> DEFINE T == {m \in k .. n : p[m] # p[k]}
<1> SUFFICES ASSUME T # {} PROVE FALSE
  OBVIOUS
<1>1. PICK m \in T : \A l \in T : m <= l
  <2> HIDE DEF T
  <2>1. T \in SUBSET Nat
    BY DEF T
  <2> QED
    BY <2>1, LeastNumber
<1>2. m # k /\ m - 1 \in k .. n /\ m - 1 \in 0 .. n - 1 /\ (m - 1) + 1 = m
  OBVIOUS
<1>3. p[m - 1] = p[k]
  BY <1>1
<1>4. p[(m - 1) + 1] = f[p[m - 1]]
  BY DEF Iterates
<1> QED
  BY <1>3, <1>4

-----------------------------------------------------------------------------
(* The flush path.                                                          *)

RefTyped ==
    \A x \in Ila : /\ ref[x].flush \in [State -> State] /\ ref[x].appl \in [State -> State]
                   /\ ref[x].cmpl \subseteq State
                   /\ ref[x].step_orig \in Int /\ ref[x].step_appl \in Int

LEMMA FlushRunMeans ==
    ASSUME RefTyped, NEW x \in Ila, NEW s \in State
    PROVE  /\ FlushRun(x, s) \in [0 .. MaxFrame -> State]
           /\ FlushRun(x, s)[0] = s
           /\ Iterates(FlushRun(x, s), ref[x].flush, MaxFrame)
<1> DEFINE f == ref[x].flush
           Rec(p) == p = [k \in 0 .. MaxFrame |-> IF k = 0 THEN s ELSE f[p[k - 1]]]
           q == FlushRun(x, s)
<1>0. MaxFrame \in Nat /\ f \in [State -> State]
  BY CommDiagAssumption DEF MaxFrame, RefTyped
<1>1. PICK p \in [0 .. MaxFrame -> State] : p[0] = s /\ Iterates(p, f, MaxFrame)
  <2> HIDE DEF f
  <2> QED
    BY <1>0, IterationExists
<1>2. Rec(p)
  <2> SUFFICES ASSUME NEW k \in 0 .. MaxFrame
               PROVE  p[k] = IF k = 0 THEN s ELSE f[p[k - 1]]
    OBVIOUS
  <2>1. CASE k = 0
    BY <1>1, <2>1
  <2>2. CASE k # 0
    <3>1. k - 1 \in 0 .. MaxFrame - 1 /\ (k - 1) + 1 = k
      BY <1>0, <2>2
    <3>2. p[(k - 1) + 1] = f[p[k - 1]]
      BY <1>1, <3>1 DEF Iterates
    <3> QED
      BY <3>1, <3>2
  <2> QED
    BY <2>1, <2>2
<1>3. Rec(q)
  <2>1. q = CHOOSE r : Rec(r)
    BY DEF FlushRun
  <2> HIDE DEF Rec, q
  <2> QED
    BY <1>2, <2>1
<1>4. q[0] = s /\ Iterates(q, f, MaxFrame)
  <2> HIDE DEF q, f
  <2>1. q[0] = s
    BY <1>0, <1>3
  <2>2. ASSUME NEW k \in 0 .. MaxFrame - 1 PROVE q[k + 1] = f[q[k]]
    BY <1>0, <1>3
  <2> QED
    BY <2>1, <2>2 DEF Iterates
<1>5. \A k \in 0 .. MaxFrame : p[k] = q[k]
  <2> HIDE DEF q, f
  <2> QED
    BY <1>0, <1>1, <1>4, IterationUnique
<1>6. q \in [0 .. MaxFrame -> State]
  <2> HIDE DEF q, f
  <2>1. DOMAIN q = 0 .. MaxFrame /\ q = [k \in 0 .. MaxFrame |-> q[k]]
    BY <1>3
  <2> QED
    BY <1>5, <2>1
<1> QED
  BY <1>4, <1>6

-----------------------------------------------------------------------------
(* Completion.  The diagram speaks of the complete state of a path, so a    *)
(* flush path must have one at most; a completion condition that flushing   *)
(* keeps is enough.                                                         *)

OneCompletion ==
    \A r \in RefinesA \cup RefinesB : \A p \in [0 .. MaxFrame -> State] :
       Iterates(p, r.flush, MaxFrame) =>
         \A k, l \in 0 .. MaxFrame : p[k] \in r.cmpl /\ p[l] \in r.cmpl => p[k] = p[l]

(* Flushing leaves a complete state as it is, as where completion means that no
   instruction can fire: then no flush path has two complete states. *)
THEOREM StableCompletion ==
    ASSUME \A r \in RefinesA \cup RefinesB : \A s \in r.cmpl : r.flush[s] = s
    PROVE  OneCompletion
<1> SUFFICES ASSUME NEW r \in RefinesA \cup RefinesB, NEW p \in [0 .. MaxFrame -> State],
                    Iterates(p, r.flush, MaxFrame),
                    NEW k \in 0 .. MaxFrame, NEW l \in 0 .. MaxFrame,
                    p[k] \in r.cmpl, p[l] \in r.cmpl
             PROVE  p[k] = p[l]
  BY DEF OneCompletion
<1>0. MaxFrame \in Nat
  BY CommDiagAssumption DEF MaxFrame
<1>1. r.flush[p[k]] = p[k] /\ r.flush[p[l]] = p[l]
  OBVIOUS
<1>2. CASE k <= l
  <2>1. l \in k .. MaxFrame
    BY <1>2
  <2> QED
    BY <1>0, FixedPointKept
<1>3. CASE l <= k
  <2>1. k \in l .. MaxFrame
    BY <1>3
  <2> QED
    BY <1>0, FixedPointKept
<1> QED
  BY <1>2, <1>3

LEMMA CompletionsMeans ==
    ASSUME RefTyped, NEW x \in Ila, NEW s \in State, NEW n \in Nat, n <= MaxFrame, NEW v
    PROVE  v \in Completions(x, s, n)
             <=> \E k \in 0 .. n : v = FlushRun(x, s)[k] /\ FlushRun(x, s)[k] \in ref[x].cmpl
BY DEF Completions

LEMMA CompleteOnce ==
    ASSUME RefTyped, ref["A"] \in RefinesA, ref["B"] \in RefinesB, OneCompletion,
           NEW x \in Ila, NEW s \in State, NEW k \in 0 .. MaxFrame, NEW l \in 0 .. MaxFrame,
           FlushRun(x, s)[k] \in ref[x].cmpl, FlushRun(x, s)[l] \in ref[x].cmpl
    PROVE  FlushRun(x, s)[k] = FlushRun(x, s)[l]
<1>1. ref[x] \in RefinesA \cup RefinesB
  BY DEF Ila
<1> QED
  BY <1>1, FlushRunMeans DEF OneCompletion

-----------------------------------------------------------------------------
(* What no step changes: the two refinements and the method.                *)

Setting ==
    /\ ref["A"] \in RefinesA /\ ref["B"] \in RefinesB /\ RefTyped
    /\ method \in DOMAIN MinStep

LEMMA SettingInit == Init => Setting
<1> SUFFICES ASSUME Init PROVE Setting
  OBVIOUS
<1>1. ref["A"] \in RefinesA /\ ref["B"] \in RefinesB /\ method \in DOMAIN MinStep
  BY DEF Init
<1>2. RefTyped
  BY <1>1, CommDiagAssumption DEF RefTyped, Ila
<1> QED
  BY <1>1, <1>2 DEF Setting

LEMMA SettingStep == [Next]_vars => UNCHANGED <<ref, method>>
BY DEF Next, vars, EqDetSteps, EqSolve, IncStart, IncUnroll, IncSolve, IncAdvance, Terminated

LEMMA SettingKept == Setting /\ [Next]_vars => Setting'
BY SettingStep DEF Setting, RefTyped

-----------------------------------------------------------------------------
(* The first round of the incremental checks.                               *)

LEMMA OutcomeExists ==
    ASSUME Setting, OneCompletion, NEW x \in Ila, NEW pt \in Path, NEW s \in State,
           NEW n \in Nat, n <= MaxFrame, unit[<<x, pt>>].hi = n,
           conn[<<x, pt>>] \subseteq 0 .. MaxFrame - 1, marked[<<x, pt>>] \subseteq 0 .. MaxFrame,
           NEW v \in Completions(x, s, n)
    PROVE  <<v, TRUE>> \in Outcomes(<<x, pt>>, s)
<1> DEFINE u == <<x, pt>>
           p == FlushRun(x, s)
           C == ref[x].cmpl
           done(q) == \E k \in 0 .. unit[u].hi : q[k] \in ref[u[1]].cmpl
           agree(q) == {w \in State : \A k \in marked[u] : q[k] \in ref[u[1]].cmpl => w = q[k]}
<1>0. u[1] = x /\ RefTyped /\ MaxFrame \in Nat /\ C \subseteq State
  BY CommDiagAssumption DEF Setting, RefTyped, MaxFrame
<1>1. p \in [0 .. MaxFrame -> State] /\ p[0] = s /\ Iterates(p, ref[x].flush, MaxFrame)
  BY <1>0, FlushRunMeans
<1>2. p \in Runs(u, s)
  <2> HIDE DEF p, u
  <2>1. \A k \in conn[u] : p[k + 1] = ref[x].flush[p[k]]
    BY <1>1 DEF Iterates, u
  <2> QED
    BY <1>0, <1>1, <2>1 DEF Runs
<1>3. PICK k \in 0 .. n : v = p[k] /\ p[k] \in C
  BY <1>0, CompletionsMeans
<1>4. v \in agree(p)
  <2>1. ASSUME NEW l \in marked[u], p[l] \in C PROVE v = p[l]
    <3>1. k \in 0 .. MaxFrame /\ l \in 0 .. MaxFrame
      BY <1>0
    <3> QED
      BY <1>3, <2>1, <3>1, CompleteOnce DEF Setting
  <2>2. v \in State
    BY <1>0, <1>3
  <2> HIDE DEF p, u
  <2> QED
    BY <1>0, <2>1, <2>2
<1>5. done(p) = TRUE
  <2> HIDE DEF p
  <2> QED
    BY <1>3
<1>6. Outcomes(u, s) = UNION {{<<w, done(q)>> : w \in agree(q)} : q \in Runs(u, s)}
  BY DEF Outcomes
<1> HIDE DEF p, u, done, agree
<1>7. <<v, done(p)>> \in Outcomes(u, s)
  BY <1>2, <1>4, <1>6
<1> QED
  BY <1>5, <1>7 DEF u

\* The paths as the first round leaves them: whatever frames they connect.
FirstUnrolled ==
    \A u \in UID : /\ unit[u].hi = MinStep[method]
                   /\ conn[u] \subseteq 0 .. MaxFrame - 1 /\ marked[u] \subseteq 0 .. MaxFrame

LEMMA NoModelCommutes ==
    ASSUME Setting, OneCompletion, FirstUnrolled, MinStep[method] <= MaxStep, ~partial,
           ~ \E m \in Models : Asserted(m) /\ Complete(m) /\ Assm(m) /\ ~Prop(m)
    PROVE  Commutes(MinStep[method])
<1> DEFINE n == MinStep[method]
<1>0. n \in Nat /\ n <= MaxFrame /\ RefTyped
  BY CommDiagAssumption DEF Setting, MaxFrame
<1> HIDE DEF n
<1>1. SUFFICES ASSUME NEW a \in State, NEW b \in State,
                      NEW ao \in Completions("A", a, n), NEW bo \in Completions("B", b, n),
                      NEW an \in Completions("A", ref["A"].appl[a], n),
                      NEW bn \in Completions("B", ref["B"].appl[b], n),
                      <<ao, bo>> \in Relation, <<an, bn>> \notin Relation
               PROVE  FALSE
  BY DEF Commutes, n
<1>2. ref["A"].appl[a] \in State /\ ref["B"].appl[b] \in State
  BY <1>0 DEF RefTyped, Ila
<1>3. ASSUME NEW x \in Ila, NEW pt \in Path, NEW s \in State, NEW v \in Completions(x, s, n)
      PROVE  <<v, TRUE>> \in Outcomes(<<x, pt>>, s)
  <2>1. /\ unit[<<x, pt>>].hi = n /\ conn[<<x, pt>>] \subseteq 0 .. MaxFrame - 1
        /\ marked[<<x, pt>>] \subseteq 0 .. MaxFrame
    BY DEF FirstUnrolled, UID, n
  <2> QED
    BY <1>0, <2>1, OutcomeExists
<1> DEFINE m == [old |-> [A |-> <<ao, TRUE>>, B |-> <<bo, TRUE>>],
                 new |-> [A |-> <<an, TRUE>>, B |-> <<bn, TRUE>>]]
<1>4. m \in Models
  <2>1. /\ <<ao, TRUE>> \in Outcomes(<<"A", "old">>, a)
        /\ <<bo, TRUE>> \in Outcomes(<<"B", "old">>, b)
        /\ <<an, TRUE>> \in Outcomes(<<"A", "new">>, ref["A"].appl[a])
        /\ <<bn, TRUE>> \in Outcomes(<<"B", "new">>, ref["B"].appl[b])
    BY <1>2, <1>3 DEF Ila, Path
  <2> DEFINE D(c, d) == [old : [A : Outcomes(<<"A", "old">>, c), B : Outcomes(<<"B", "old">>, d)],
                         new : [A : Outcomes(<<"A", "new">>, ref["A"].appl[c]),
                                B : Outcomes(<<"B", "new">>, ref["B"].appl[d])]]
  <2>2. m \in D(a, b)
    BY <2>1
  <2>3. Models = UNION {D(c, d) : c \in State, d \in State}
    BY DEF Models
  <2> HIDE DEF D, m
  <2> QED
    BY <2>2, <2>3
<1>5. Complete(m) /\ Assm(m) /\ ~Prop(m)
  <2>1. /\ m.old["A"] = <<ao, TRUE>> /\ m.old["B"] = <<bo, TRUE>>
        /\ m.new["A"] = <<an, TRUE>> /\ m.new["B"] = <<bn, TRUE>>
    OBVIOUS
  <2> HIDE DEF m
  <2>2. Complete(m)
    <3>1. /\ m.old["A"][2] = TRUE /\ m.old["B"][2] = TRUE
          /\ m.new["A"][2] = TRUE /\ m.new["B"][2] = TRUE
      BY <2>1
    <3> QED
      BY <3>1, Zenon DEF Complete, Ila
  <2>3. Assm(m) /\ ~Prop(m)
    BY <1>1, <2>1 DEF Assm, Prop
  <2> QED
    BY <2>2, <2>3
<1>6. Asserted(m)
  BY DEF Asserted
<1> QED
  BY <1>4, <1>5, <1>6

FirstRound ==
    method # "EqCheck" =>
      \/ /\ pc = "call" /\ verdict = "none" /\ ~partial
         /\ \A u \in UID : conn[u] = {} /\ marked[u] = {}
      \/ /\ pc = "unroll" /\ verdict = "none" /\ ~partial /\ i = MinStep[method]
         /\ \A u \in UID : unit[u] = [lo |-> 0, hi |-> i] /\ conn[u] = {} /\ marked[u] = {}
      \/ pc = "check" /\ verdict = "none" /\ ~partial /\ FirstUnrolled
      \/ pc \in {"unroll", "check", "advance"} /\ verdict = "none" /\ Commutes(MinStep[method])
      \/ pc = "done" /\ (verdict = "true" => Commutes(MinStep[method]))

LEMMA CommutesKept ==
    ASSUME UNCHANGED <<ref, method>>
    PROVE  Commutes(MinStep[method])' <=> Commutes(MinStep[method])
BY DEF Commutes, Completions, FlushRun

LEMMA FirstRoundStep ==
    ASSUME Setting, FirstRound, [Next]_vars, OneCompletion, MinStep[method] <= MaxStep
    PROVE  FirstRound'
<1>0. UNCHANGED <<ref, method>> /\ MinStep[method] \in Nat
  BY SettingStep, CommDiagAssumption DEF Setting
<1> SUFFICES ASSUME method # "EqCheck" PROVE FirstRound'
  BY <1>0 DEF FirstRound
<1>1. CASE IncStart
  BY <1>1 DEF IncStart, FirstRound
<1>2. CASE IncUnroll
  <2>1. CASE pc' = "done"
    <3>1. i > MaxStep \/ \A u \in UID : unit[u].hi < i
      BY <1>2, <2>1 DEF IncUnroll
    <3>2. <<"A", "old">> \in UID
      BY DEF UID, Ila, Path
    <3>3. Commutes(MinStep[method])
      <4>1. CASE verdict = "none" /\ ~partial /\ i = MinStep[method]
                 /\ \A u \in UID : unit[u] = [lo |-> 0, hi |-> i]
        BY <1>0, <3>1, <3>2, <4>1, CommDiagAssumption
      <4> QED
        BY <1>2, <4>1 DEF IncUnroll, FirstRound
    <3> QED
      BY <1>0, <2>1, <3>3, CommutesKept DEF FirstRound
  <2>2. CASE pc' = "check" /\ Commutes(MinStep[method])
    BY <1>2, <2>2, CommutesKept DEF IncUnroll, FirstRound
  <2>3. CASE pc' = "check" /\ ~ Commutes(MinStep[method])
    <3> DEFINE frames(u) == Begin(u) .. Begin(u) + Length(u) - 1
    <3>1. /\ verdict = "none" /\ ~partial /\ i = MinStep[method]
          /\ \A u \in UID : unit[u] = [lo |-> 0, hi |-> i] /\ conn[u] = {} /\ marked[u] = {}
      BY <1>2, <2>3 DEF IncUnroll, FirstRound
    <3>2. /\ conn' = [u \in UID |-> conn[u] \cup frames(u)]
          /\ marked' = [u \in UID |-> marked[u] \cup (Begin(u) .. Begin(u) + Length(u))]
          /\ unit' = unit /\ verdict' = verdict /\ partial' = partial
      <4>1. \A u \in UID : u \in {w \in UID : unit[w].hi = i}
        BY <3>1
      <4> HIDE DEF frames
      <4> QED
        BY <1>2, <2>3, <4>1 DEF IncUnroll, frames
    <3>3. \A u \in UID : /\ Begin(u) \in Nat /\ Length(u) \in Nat
                         /\ Begin(u) + Length(u) <= MaxFrame
      BY <1>0, <3>1, CommDiagAssumption DEF Begin, Length, MaxFrame
    <3>4. MaxFrame \in Nat
      BY CommDiagAssumption DEF MaxFrame
    <3>5. ASSUME NEW u \in UID
          PROVE  /\ unit'[u].hi = MinStep[method] /\ conn'[u] \subseteq 0 .. MaxFrame - 1
                 /\ marked'[u] \subseteq 0 .. MaxFrame
      <4>1. conn'[u] = frames(u) /\ marked'[u] = Begin(u) .. Begin(u) + Length(u)
        BY <3>1, <3>2
      <4> QED
        BY <3>1, <3>2, <3>3, <3>4
    <3>6. FirstUnrolled'
      BY <1>0, <3>5 DEF FirstUnrolled
    <3> QED
      BY <2>3, <3>1, <3>2, <3>6 DEF FirstRound
  <2> QED
    BY <1>2, <2>1, <2>2, <2>3 DEF IncUnroll
<1>3. CASE IncSolve
  <2>1. CASE pc' = "done"
    BY <1>3, <2>1 DEF IncSolve, FirstRound
  <2>2. CASE pc' = "advance"
    <3>1. Commutes(MinStep[method])
      BY <1>3, <2>2, NoModelCommutes DEF IncSolve, FirstRound
    <3> QED
      BY <1>3, <3>1, CommutesKept DEF IncSolve, FirstRound
  <2> QED
    BY <1>3, <2>1, <2>2 DEF IncSolve
<1>4. CASE IncAdvance
  BY <1>4, CommutesKept DEF IncAdvance, FirstRound
<1>5. CASE EqDetSteps \/ EqSolve
  <2>1. CASE EqDetSteps
    BY <2>1 DEF EqDetSteps
  <2>2. CASE EqSolve
    BY <2>2 DEF EqSolve, FirstRound
  <2> QED
    BY <1>5, <2>1, <2>2
<1>6. CASE UNCHANGED vars
  BY <1>6, CommutesKept DEF vars, FirstRound, FirstUnrolled
<1> QED
  BY <1>1, <1>2, <1>3, <1>4, <1>5, <1>6 DEF Next, Terminated

(* FirstRoundSound for every pair of ILAs whose flush paths have one complete
   state at most: a diagram that does not commute is a model of the first
   query, so the loop of IncEqCheck and of IncCheck returns false in its first
   round.  (With min > max the loop has no round, and the answer is true.) *)
THEOREM FirstRoundIsSound ==
    ASSUME OneCompletion, \A m \in DOMAIN MinStep \ {"EqCheck"} : MinStep[m] <= MaxStep
    PROVE  Spec => []FirstRoundSound
<1>1. Init => Setting /\ FirstRound
  <2>1. Init => FirstRound
    BY DEF Init, FirstRound
  <2> QED
    BY <2>1, SettingInit
<1>2. Setting /\ FirstRound /\ [Next]_vars => (Setting /\ FirstRound)'
  <2>1. CASE method = "EqCheck"
    BY <2>1, SettingStep, SettingKept DEF FirstRound
  <2>2. CASE method # "EqCheck"
    BY <2>2, SettingKept, FirstRoundStep DEF Setting
  <2> QED
    BY <2>1, <2>2
<1>3. Setting /\ FirstRound => FirstRoundSound
  BY DEF FirstRound, FirstRoundSound
<1> QED
  BY <1>1, <1>2, <1>3, PTL DEF Spec

-----------------------------------------------------------------------------
(* IncEqCheck from frame 0.  What path u has up to a frame: it is connected,  *)
(* flushed, and tied to its representative.                                   *)

Joined(u, n) == 0 .. n - 1 \subseteq conn[u] \cap flushed[u] \cap marked[u]

Paths ==
    method = "IncEqCheck" =>
      \/ pc = "call" /\ verdict = "none"
      \/ /\ pc = "unroll" /\ verdict = "none" /\ i \in Nat
         /\ \A u \in UID : /\ unit[u].hi \in 0 .. i /\ Joined(u, unit[u].hi)
                           /\ unit[u].hi < i => unit[u].hi \in marked[u]
      \/ /\ pc \in {"check", "advance"} /\ verdict = "none" /\ i \in 0 .. MaxStep
         /\ \A u \in UID : /\ unit[u].hi \in 0 .. i /\ Joined(u, unit[u].hi)
                           /\ unit[u].hi \in marked[u]
                           /\ unit[u].hi = i => Joined(u, i + IncStep)
      \/ pc = "done" /\ (verdict = "false" => ~Commutes(MaxFrame))

LEMMA OutcomeCompletes ==
    ASSUME Setting, NEW x \in Ila, NEW pt \in Path, NEW s \in State,
           NEW n \in 0 .. MaxFrame, unit[<<x, pt>>].hi = n,
           Joined(<<x, pt>>, n), n \in marked[<<x, pt>>],
           NEW o \in Outcomes(<<x, pt>>, s), o[2]
    PROVE  o[1] \in Completions(x, s, MaxFrame)
<1> DEFINE u == <<x, pt>>
           q == FlushRun(x, s)
           f == ref[x].flush
           C == ref[x].cmpl
           done(p) == \E k \in 0 .. unit[u].hi : p[k] \in ref[u[1]].cmpl
           agree(p) == {w \in State : \A k \in marked[u] : p[k] \in ref[u[1]].cmpl => w = p[k]}
<1>0. u[1] = x /\ RefTyped /\ MaxFrame \in Nat
  BY CommDiagAssumption DEF Setting, MaxFrame
<1>1. q[0] = s /\ Iterates(q, f, MaxFrame)
  BY <1>0, FlushRunMeans
<1>2. Outcomes(u, s) = UNION {{<<w, done(p)>> : w \in agree(p)} : p \in Runs(u, s)}
  BY DEF Outcomes
<1>3. PICK p \in Runs(u, s) : \E w \in agree(p) : o = <<w, done(p)>>
  <2> HIDE DEF done, agree
  <2> QED
    BY <1>2
<1>4. o[1] \in agree(p) /\ done(p)
  <2>1. PICK w \in agree(p) : o = <<w, done(p)>>
    BY <1>3
  <2> HIDE DEF done, agree
  <2> QED
    BY <2>1
<1>5. PICK k \in 0 .. n : p[k] \in C
  <2> HIDE DEF u, C
  <2> QED
    BY <1>4 DEF u, C
<1>6. o[1] = p[k]
  <2>1. k \in marked[u]
    BY DEF Joined
  <2> QED
    BY <1>4, <1>5, <2>1
<1>7. p[0] = s /\ Iterates(p, f, n)
  <2>1. \A l \in 0 .. n - 1 : l \in conn[u] /\ l \in flushed[u]
    BY DEF Joined
  <2> HIDE DEF u, f
  <2> QED
    BY <1>0, <2>1 DEF Runs, Iterates, f
<1>8. p[k] = q[k]
  <2>1. Iterates(q, f, n)
    BY <1>0, <1>1 DEF Iterates
  <2> HIDE DEF q, f
  <2> QED
    BY <1>1, <1>7, <2>1, IterationUnique
<1> QED
  BY <1>0, <1>5, <1>6, <1>8, CompletionsMeans

LEMMA AlarmIsReal ==
    ASSUME Setting, MaxFrame \in Nat,
           \A u \in UID : /\ unit[u].hi \in 0 .. MaxFrame /\ Joined(u, unit[u].hi)
                          /\ unit[u].hi \in marked[u],
           NEW m \in Models, Complete(m), Assm(m), ~Prop(m)
    PROVE  ~Commutes(MaxFrame)
<1> DEFINE D(a, b) == [old : [A : Outcomes(<<"A", "old">>, a), B : Outcomes(<<"B", "old">>, b)],
                       new : [A : Outcomes(<<"A", "new">>, ref["A"].appl[a]),
                              B : Outcomes(<<"B", "new">>, ref["B"].appl[b])]]
<1>1. Models = UNION {D(a, b) : a \in State, b \in State}
  BY DEF Models
<1>2. PICK a \in State, b \in State : m \in D(a, b)
  <2> HIDE DEF D
  <2> QED
    BY <1>1
<1>3. /\ m.old["A"] \in Outcomes(<<"A", "old">>, a) /\ m.old["B"] \in Outcomes(<<"B", "old">>, b)
      /\ m.new["A"] \in Outcomes(<<"A", "new">>, ref["A"].appl[a])
      /\ m.new["B"] \in Outcomes(<<"B", "new">>, ref["B"].appl[b])
  BY <1>2
<1>4. ref["A"].appl[a] \in State /\ ref["B"].appl[b] \in State
  BY DEF Setting, RefTyped, Ila
<1>5. \A x \in Ila : m.old[x][2] /\ m.new[x][2]
  BY DEF Complete
<1>6. ASSUME NEW x \in Ila, NEW pt \in Path, NEW s \in State,
             NEW o \in Outcomes(<<x, pt>>, s), o[2]
      PROVE  o[1] \in Completions(x, s, MaxFrame)
  <2>1. <<x, pt>> \in UID
    BY DEF UID
  <2> DEFINE n == unit[<<x, pt>>].hi
  <2>2. n \in 0 .. MaxFrame /\ Joined(<<x, pt>>, n) /\ n \in marked[<<x, pt>>]
    BY <2>1
  <2> QED
    BY <1>6, <2>2, OutcomeCompletes
<1>7. /\ m.old["A"][1] \in Completions("A", a, MaxFrame)
      /\ m.old["B"][1] \in Completions("B", b, MaxFrame)
      /\ m.new["A"][1] \in Completions("A", ref["A"].appl[a], MaxFrame)
      /\ m.new["B"][1] \in Completions("B", ref["B"].appl[b], MaxFrame)
  BY <1>3, <1>4, <1>5, <1>6 DEF Ila, Path
<1> QED
  BY <1>7 DEF Commutes, Assm, Prop

LEMMA CommutesStable ==
    ASSUME UNCHANGED <<ref, method>>
    PROVE  Commutes(MaxFrame)' <=> Commutes(MaxFrame)
BY DEF Commutes, Completions, FlushRun

LEMMA PathsStep ==
    ASSUME Setting, Paths, [Next]_vars,
           "IncEqCheck" \in DOMAIN MinStep => MinStep["IncEqCheck"] = 0
    PROVE  Paths'
<1>0. /\ UNCHANGED <<ref, method>> /\ MaxStep \in Nat /\ IncStep \in Nat \ {0}
      /\ MaxFrame = MaxStep + IncStep + 1
  BY SettingStep, CommDiagAssumption DEF MaxFrame
<1> SUFFICES ASSUME method = "IncEqCheck" PROVE Paths'
  BY <1>0 DEF Paths
<1>a. MinStep[method] = 0
  BY DEF Setting
<1>1. CASE IncStart
  BY <1>a, <1>1 DEF IncStart, Paths, Joined
<1>2. CASE IncUnroll
  <2>1. CASE pc' = "done"
    BY <1>2, <2>1 DEF IncUnroll, Paths
  <2>2. CASE pc' = "check"
    <3>1. /\ i \in 0 .. MaxStep /\ verdict = "none"
          /\ \A u \in UID : /\ unit[u].hi \in 0 .. i /\ Joined(u, unit[u].hi)
                            /\ unit[u].hi < i => unit[u].hi \in marked[u]
      BY <1>0, <1>2, <2>2 DEF IncUnroll, Paths
    <3> DEFINE new == {u \in UID : unit[u].hi = i}
               frames(u) == Begin(u) .. Begin(u) + Length(u) - 1
    <3>2. /\ conn' = [u \in UID |-> IF u \in new THEN conn[u] \cup frames(u) ELSE conn[u]]
          /\ marked' = [u \in UID |-> IF u \in new
                THEN marked[u] \cup (Begin(u) .. Begin(u) + Length(u)) ELSE marked[u]]
          /\ flushed' = [u \in UID |-> flushed[u] \cup
                UNION {frames(w) \cup {Length(w)} : w \in {w \in new : u \in FlushOf(w)}}]
          /\ unit' = unit /\ i' = i /\ verdict' = verdict
      BY <1>2, <2>2 DEF IncUnroll
    <3>3. ASSUME NEW u \in UID
          PROVE  /\ unit'[u].hi \in 0 .. i' /\ Joined(u, unit[u].hi)' /\ unit'[u].hi \in marked'[u]
                 /\ unit'[u].hi = i' => Joined(u, i + IncStep)'
      <4>1. CASE unit[u].hi < i
        <5>1. u \notin new /\ ~(unit'[u].hi = i')
          BY <3>1, <3>2, <4>1
        <5>2. conn'[u] = conn[u] /\ marked'[u] = marked[u] /\ flushed[u] \subseteq flushed'[u]
          <6> HIDE DEF new, frames
          <6> QED
            BY <3>2, <5>1
        <5> QED
          BY <3>1, <3>2, <4>1, <5>1, <5>2 DEF Joined
      <4>2. CASE unit[u].hi = i
        <5>1. u \in new /\ frames(u) = i .. i + IncStep - 1 /\ u \in FlushOf(u)
              /\ Begin(u) = i /\ Length(u) = IncStep
          BY <4>2 DEF Begin, Length, FlushOf
        <5>2. /\ conn'[u] = conn[u] \cup (i .. i + IncStep - 1)
              /\ marked'[u] = marked[u] \cup (i .. i + IncStep)
              /\ flushed[u] \cup (i .. i + IncStep - 1) \subseteq flushed'[u]
          <6> HIDE DEF new, frames
          <6>1. /\ conn'[u] = conn[u] \cup frames(u)
                /\ marked'[u] = marked[u] \cup (i .. i + IncStep)
            BY <3>2, <5>1
          <6>2. frames(u) \subseteq flushed'[u] /\ flushed[u] \subseteq flushed'[u]
            <7>1. flushed'[u] = flushed[u] \cup
                    UNION {frames(w) \cup {Length(w)} : w \in {w \in new : u \in FlushOf(w)}}
              BY <3>2
            <7>2. u \in {w \in new : u \in FlushOf(w)}
              BY <5>1
            <7> QED
              BY <7>1, <7>2
          <6> QED
            BY <5>1, <6>1, <6>2
        <5>3. Joined(u, i + IncStep)'
          BY <1>0, <3>1, <3>2, <4>2, <5>2 DEF Joined
        <5> QED
          BY <1>0, <3>1, <3>2, <5>3 DEF Joined
      <4> QED
        BY <3>1, <4>1, <4>2
    <3> QED
      BY <2>2, <3>1, <3>2, <3>3 DEF Paths
  <2> QED
    BY <1>2, <2>1, <2>2 DEF IncUnroll
<1>3. CASE IncSolve
  <2>1. CASE pc' = "done"
    <3>1. PICK m \in Models : Complete(m) /\ Assm(m) /\ ~Prop(m)
      BY <1>3, <2>1 DEF IncSolve
    <3>2. \A u \in UID : /\ unit[u].hi \in 0 .. MaxFrame /\ Joined(u, unit[u].hi)
                         /\ unit[u].hi \in marked[u]
      BY <1>0, <1>3 DEF IncSolve, Paths
    <3>3. ~Commutes(MaxFrame)
      BY <1>0, <3>1, <3>2, AlarmIsReal
    <3> QED
      BY <1>0, <2>1, <3>3, CommutesStable DEF Paths
  <2>2. CASE pc' = "advance"
    BY <1>3, <2>2 DEF IncSolve, Paths, Joined
  <2> QED
    BY <1>3, <2>1, <2>2 DEF IncSolve
<1>4. CASE IncAdvance
  <2>1. /\ i \in 0 .. MaxStep /\ verdict = "none"
        /\ \A u \in UID : /\ unit[u].hi \in 0 .. i /\ Joined(u, unit[u].hi)
                          /\ unit[u].hi \in marked[u]
                          /\ unit[u].hi = i => Joined(u, i + IncStep)
    BY <1>4 DEF IncAdvance, Paths
  <2>2. i' = i + IncStep /\ i' \in Nat /\ UNCHANGED <<conn, flushed, marked, verdict>>
    BY <1>0, <1>4, <2>1 DEF IncAdvance, solver
  <2>3. ASSUME NEW u \in UID
        PROVE  /\ unit'[u].hi \in 0 .. i' /\ Joined(u, unit[u].hi)'
               /\ unit'[u].hi < i' => unit'[u].hi \in marked'[u]
    <3>1. \/ unit'[u].hi = unit[u].hi
          \/ unit[u].hi = i /\ unit'[u].hi = i + IncStep
      BY <1>4 DEF IncAdvance
    <3> QED
      BY <1>0, <2>1, <2>2, <3>1 DEF Joined
  <2> QED
    BY <1>4, <2>2, <2>3 DEF IncAdvance, Paths
<1>5. CASE EqDetSteps \/ EqSolve
  <2>1. CASE EqDetSteps
    BY <2>1 DEF EqDetSteps
  <2>2. CASE EqSolve
    BY <2>2 DEF EqSolve, Paths
  <2> QED
    BY <1>5, <2>1, <2>2
<1>6. CASE UNCHANGED vars
  BY <1>6, CommutesStable DEF vars, Paths, Joined
<1> QED
  BY <1>1, <1>2, <1>3, <1>4, <1>5, <1>6 DEF Next, Terminated

(* NoFalseAlarm for every pair of ILAs: from frame 0, the frames up to the one
   whose completion IncEqCheck asks about are connected by flush steps, so the
   representative of a path the solver shows complete is a state that flushing
   reaches.  No completion condition is assumed. *)
THEOREM AlarmsAreReal ==
    ASSUME "IncEqCheck" \in DOMAIN MinStep => MinStep["IncEqCheck"] = 0
    PROVE  Spec => []NoFalseAlarm
<1>1. Init => Setting /\ Paths
  <2>1. Init => Paths
    BY DEF Init, Paths
  <2> QED
    BY <2>1, SettingInit
<1>2. Setting /\ Paths /\ [Next]_vars => (Setting /\ Paths)'
  BY SettingKept, PathsStep
<1>3. Setting /\ Paths => NoFalseAlarm
  BY DEF Paths, NoFalseAlarm
<1> QED
  BY <1>1, <1>2, <1>3, PTL DEF Spec

-----------------------------------------------------------------------------
(* EqCheck.                                                                 *)

LEMMA MinIsLeast ==
    ASSUME NEW T \in SUBSET Nat, T # {}
    PROVE  Min(T) \in T
<1>1. \E n \in T : \A m \in T : n <= m
  BY LeastNumber
<1> QED
  BY <1>1 DEF Min

\* A determined number of steps is one that CheckStep accepts.
LEMMA DeterminedSteps ==
    ASSUME RefTyped, NEW u \in UID
    PROVE  \/ DetStep(u) = -1
           \/ DetStep(u) \in 0 .. MaxStep /\ CheckStep(u, DetStep(u))
<1> DEFINE given == IF u[2] = "old" THEN ref[u[1]].step_orig ELSE ref[u[1]].step_appl
           found == {n \in Max({given, 0}) .. MaxStep : CheckStep(u, n)}
<1>0. given \in Int /\ MaxStep \in Nat
  BY CommDiagAssumption DEF UID, RefTyped
<1>1. Max({given, 0}) \in Nat
  <2> HIDE DEF given
  <2>1. \E x \in {given, 0} : \A y \in {given, 0} : x >= y
    BY <1>0
  <2>2. Max({given, 0}) \in {given, 0} /\ \A y \in {given, 0} : Max({given, 0}) >= y
    BY <2>1 DEF Max
  <2> QED
    BY <1>0, <2>2
<1>2. DetStep(u) = IF found = {} THEN -1 ELSE Min(found)
  BY DEF DetStep
<1>3. found \subseteq 0 .. MaxStep /\ \A n \in found : CheckStep(u, n)
  <2> HIDE DEF given
  <2> QED
    BY <1>1
<1> HIDE DEF found
<1>4. found \in SUBSET Nat
  BY <1>3
<1>5. CASE found # {}
  <2>1. Min(found) \in found
    BY <1>4, <1>5, MinIsLeast
  <2> QED
    BY <1>2, <1>3, <2>1
<1> QED
  BY <1>2, <1>5

\* The state a path starts to flush from.
FlushFrom(u, s) == IF u[2] = "old" THEN s ELSE ref[u[1]].appl[s]

LEMMA RunOfMeans ==
    ASSUME RefTyped, NEW x \in Ila, NEW pt \in Path, NEW s \in State,
           NEW n \in 0 .. MaxStep
    PROVE  LET u == <<x, pt>> IN
           /\ FlushFrom(u, s) \in State
           /\ {RunOf(u, s)[k] : k \in Span(u, n)}
                = {FlushRun(x, FlushFrom(u, s))[k] : k \in 0 .. n}
<1> DEFINE u == <<x, pt>>
           q == FlushRun(x, FlushFrom(u, s))
<1>0. MaxFrame \in Nat /\ n + 1 <= MaxFrame /\ u[1] = x /\ u[2] = pt
  BY CommDiagAssumption DEF MaxFrame
<1>1. FlushFrom(u, s) \in State
  BY DEF FlushFrom, RefTyped
<1>2. CASE pt = "old"
  BY <1>2 DEF FlushFrom, RunOf, Span
<1>3. CASE pt = "new"
  <2>1. Span(u, n) = 1 .. n + 1 /\ FlushFrom(u, s) = ref[x].appl[s]
    BY <1>3 DEF Span, FlushFrom
  <2>2. RunOf(u, s) = [k \in 0 .. MaxFrame |-> IF k = 0 THEN s ELSE q[k - 1]]
    BY <1>3 DEF RunOf, FlushFrom
  <2> HIDE DEF q, u
  <2>3. \A k \in 1 .. n + 1 : RunOf(u, s)[k] = q[k - 1] /\ k - 1 \in 0 .. n
    BY <1>0, <2>2
  <2>4. \A k \in 0 .. n : k + 1 \in 1 .. n + 1 /\ RunOf(u, s)[k + 1] = q[k]
    BY <1>0, <2>2
  <2>5. {RunOf(u, s)[k] : k \in 1 .. n + 1} = {q[k] : k \in 0 .. n}
    BY <2>3
  <2> QED
    BY <1>1, <2>1, <2>5 DEF u, q
<1> QED
  BY <1>2, <1>3 DEF Path

\* When every run is complete within n steps, the representatives of a path are
\* the complete states that flushing ever reaches, and there is one.
LEMMA RepresentativesExact ==
    ASSUME Setting, OneCompletion, NEW x \in Ila, NEW pt \in Path, NEW s \in State,
           NEW n \in 0 .. MaxStep, CheckStep(<<x, pt>>, n)
    PROVE  LET u == <<x, pt>>
               R == Representatives(u, s, Span(u, n))
           IN  R = Completions(x, FlushFrom(u, s), MaxFrame) /\ R # {}
<1> DEFINE u == <<x, pt>>
           t == FlushFrom(u, s)
           q == FlushRun(x, t)
           r == RunOf(u, s)
           C == ref[x].cmpl
           R == Representatives(u, s, Span(u, n))
<1>0. RefTyped /\ u[1] = x /\ MaxFrame \in Nat /\ n \in Nat /\ n <= MaxFrame /\ C \subseteq State
  BY CommDiagAssumption DEF Setting, MaxFrame, RefTyped
<1>1. t \in State /\ {r[k] : k \in Span(u, n)} = {q[k] : k \in 0 .. n}
  BY <1>0, RunOfMeans
<1>2. PICK k \in 0 .. n : q[k] \in C
  <2>1. AtLeastOnce(r, C, Span(u, n))
    BY DEF CheckStep
  <2>2. PICK l \in Span(u, n) : r[l] \in C
    BY <2>1 DEF AtLeastOnce
  <2> HIDE DEF r, q, u, t, C
  <2>3. r[l] \in {q[k] : k \in 0 .. n}
    BY <1>1
  <2> QED
    BY <2>2, <2>3
<1>3. ASSUME NEW l \in 0 .. MaxFrame, q[l] \in C PROVE q[l] = q[k]
  <2>1. k \in 0 .. MaxFrame
    BY <1>0
  <2> QED
    BY <1>1, <1>2, <1>3, <2>1, CompleteOnce DEF Setting
<1>4. Completions(x, t, MaxFrame) = {q[k]}
  <2>1. k \in 0 .. MaxFrame
    BY <1>0
  <2>2. \A v : v \in Completions(x, t, MaxFrame)
                 <=> \E l \in 0 .. MaxFrame : v = q[l] /\ q[l] \in C
    BY DEF Completions
  <2> HIDE DEF q, C, t
  <2> QED
    BY <1>2, <1>3, <2>1, <2>2
<1>5. R = {q[k]}
  <2>1. R = {v \in State : \A l \in Span(u, n) : r[l] \in C => v = r[l]}
    BY DEF Representatives
  <2>2. \A l \in Span(u, n) : r[l] \in C => r[l] = q[k]
    <3> SUFFICES ASSUME NEW l \in Span(u, n), r[l] \in C PROVE r[l] = q[k]
      OBVIOUS
    <3> HIDE DEF r, q, u, t, C
    <3>1. PICK j \in 0 .. n : r[l] = q[j]
      BY <1>1
    <3>2. j \in 0 .. MaxFrame
      BY <1>0
    <3> QED
      BY <1>3, <3>1, <3>2
  <2> HIDE DEF r, q, u, t, C, R
  <2>3. PICK l \in Span(u, n) : r[l] = q[k]
    BY <1>1
  <2>4. q[k] \in State
    BY <1>0, <1>2
  <2> QED
    BY <1>2, <2>1, <2>2, <2>3, <2>4
<1> QED
  BY <1>4, <1>5

Determined == \A u \in UID : steps[u] \in 0 .. MaxStep /\ CheckStep(u, steps[u])

\* The transition relation EqSolve takes for x: the two ends of its diagrams.
LEMMA GenTranRelMeans ==
    ASSUME Setting, OneCompletion, Determined, NEW x \in Ila
    PROVE  /\ \A d : d \in GenTranRel(x) <=>
                \E s \in State : d \in Completions(x, s, MaxFrame)
                                       \X Completions(x, ref[x].appl[s], MaxFrame)
           /\ GenTranRel(x) # {}
<1> DEFINE R(pt, s) == Representatives(<<x, pt>>, s, Span(<<x, pt>>, steps[<<x, pt>>]))
<1>1. ASSUME NEW pt \in Path, NEW s \in State
      PROVE  R(pt, s) = Completions(x, FlushFrom(<<x, pt>>, s), MaxFrame) /\ R(pt, s) # {}
  <2>1. <<x, pt>> \in UID
    BY DEF UID
  <2>2. steps[<<x, pt>>] \in 0 .. MaxStep /\ CheckStep(<<x, pt>>, steps[<<x, pt>>])
    BY <2>1 DEF Determined
  <2> QED
    BY <2>2, RepresentativesExact
<1>2. ASSUME NEW s \in State
      PROVE  R("old", s) \X R("new", s)
               = Completions(x, s, MaxFrame) \X Completions(x, ref[x].appl[s], MaxFrame)
  <2>1. R("old", s) = Completions(x, FlushFrom(<<x, "old">>, s), MaxFrame)
        /\ R("new", s) = Completions(x, FlushFrom(<<x, "new">>, s), MaxFrame)
    BY <1>1 DEF Path
  <2>2. FlushFrom(<<x, "old">>, s) = s /\ FlushFrom(<<x, "new">>, s) = ref[x].appl[s]
    BY DEF FlushFrom
  <2> QED
    BY <2>1, <2>2
<1>3. GenTranRel(x) = UNION {R("old", s) \X R("new", s) : s \in State}
  BY DEF GenTranRel
<1> HIDE DEF R
<1>4. \A d : d \in GenTranRel(x) <=> \E s \in State : d \in R("old", s) \X R("new", s)
  BY <1>3
<1>5. PICK s \in State : TRUE
  BY CommDiagAssumption
<1>6. R("old", s) # {} /\ R("new", s) # {}
  BY <1>1 DEF Path
<1>7. GenTranRel(x) # {}
  <2>1. PICK v \in R("old", s), w \in R("new", s) : TRUE
    BY <1>6
  <2>2. <<v, w>> \in GenTranRel(x)
    BY <1>4
  <2> QED
    BY <2>2
<1> QED
  BY <1>2, <1>4, <1>7

LEMMA SolveDecides ==
    ASSUME Setting, OneCompletion, Determined
    PROVE  Commutes(MaxFrame) <=>
             /\ GenTranRel("A") # {} /\ GenTranRel("B") # {}
             /\ \A a \in GenTranRel("A"), b \in GenTranRel("B") :
                   <<a[1], b[1]>> \in Relation => <<a[2], b[2]>> \in Relation
<1> DEFINE Old(x, s) == Completions(x, s, MaxFrame)
           New(x, s) == Completions(x, ref[x].appl[s], MaxFrame)
           Agree == \A a \in GenTranRel("A"), b \in GenTranRel("B") :
                       <<a[1], b[1]>> \in Relation => <<a[2], b[2]>> \in Relation
<1>1. ASSUME NEW x \in Ila
      PROVE  /\ \A d : d \in GenTranRel(x) <=> \E s \in State : d \in Old(x, s) \X New(x, s)
             /\ GenTranRel(x) # {}
  BY GenTranRelMeans
<1>2. Commutes(MaxFrame) <=>
        \A a, b \in State :
          \A ao \in Old("A", a), bo \in Old("B", b), an \in New("A", a), bn \in New("B", b) :
             <<ao, bo>> \in Relation => <<an, bn>> \in Relation
  BY DEF Commutes
<1> HIDE DEF Old, New
<1>3. ASSUME Commutes(MaxFrame) PROVE Agree
  <2> SUFFICES ASSUME NEW a \in GenTranRel("A"), NEW b \in GenTranRel("B"),
                      <<a[1], b[1]>> \in Relation
               PROVE  <<a[2], b[2]>> \in Relation
    OBVIOUS
  <2>1. PICK s \in State, t \in State :
          a \in Old("A", s) \X New("A", s) /\ b \in Old("B", t) \X New("B", t)
    BY <1>1 DEF Ila
  <2> QED
    BY <1>2, <1>3, <2>1
<1>4. ASSUME Agree PROVE Commutes(MaxFrame)
  <2> SUFFICES ASSUME NEW s \in State, NEW t \in State,
                      NEW ao \in Old("A", s), NEW bo \in Old("B", t),
                      NEW an \in New("A", s), NEW bn \in New("B", t),
                      <<ao, bo>> \in Relation
               PROVE  <<an, bn>> \in Relation
    BY <1>2
  <2>1. <<ao, an>> \in GenTranRel("A") /\ <<bo, bn>> \in GenTranRel("B")
    BY <1>1 DEF Ila
  <2> QED
    BY <1>4, <2>1
<1>5. GenTranRel("A") # {} /\ GenTranRel("B") # {}
  BY <1>1 DEF Ila
<1> QED
  BY <1>3, <1>4, <1>5

EqRound ==
    method = "EqCheck" =>
      \/ pc = "call"
      \/ pc = "eq" /\ Determined
      \/ pc = "done" /\ ((\A u \in UID : steps[u] >= 0) =>
                            (verdict = "true" <=> Commutes(MaxFrame)))

LEMMA CheckStepKept ==
    ASSUME UNCHANGED ref
    PROVE  \A u \in UID, n \in Int : CheckStep(u, n)' <=> CheckStep(u, n)
BY DEF CheckStep, RunOf, FlushRun

LEMMA EqRoundStep ==
    ASSUME Setting, EqRound, [Next]_vars, OneCompletion
    PROVE  EqRound'
<1>0. UNCHANGED <<ref, method>>
  BY SettingStep
<1> SUFFICES ASSUME method = "EqCheck" PROVE EqRound'
  BY <1>0 DEF EqRound
<1>1. CASE EqDetSteps
  <2>1. steps' = [u \in UID |-> DetStep(u)]
    BY <1>1 DEF EqDetSteps
  <2>2. CASE \E u \in UID : steps'[u] < 0
    <3>1. pc' = "done" /\ ~(\A u \in UID : steps'[u] >= 0)
      <4>1. PICK u \in UID : steps'[u] < 0
        BY <2>2
      <4>2. steps'[u] = DetStep(u)
        BY <2>1
      <4>3. ~(steps'[u] >= 0)
        <5>1. DetStep(u) = -1 \/ DetStep(u) \in 0 .. MaxStep
          BY DeterminedSteps DEF Setting
        <5> QED
          BY <4>1, <4>2, <5>1
      <4> QED
        BY <1>1, <2>2, <4>3 DEF EqDetSteps
    <3> QED
      BY <3>1 DEF EqRound
  <2>3. CASE ~ \E u \in UID : steps'[u] < 0
    <3>1. pc' = "eq"
      BY <1>1, <2>3 DEF EqDetSteps
    <3>2. ASSUME NEW u \in UID
          PROVE  steps'[u] \in 0 .. MaxStep /\ CheckStep(u, steps[u])'
      <4>1. steps'[u] = DetStep(u) /\ ~(DetStep(u) < 0)
        BY <2>1, <2>3
      <4>2. DetStep(u) \in 0 .. MaxStep /\ CheckStep(u, DetStep(u))
        BY <4>1, DeterminedSteps DEF Setting
      <4> QED
        BY <1>0, <2>1, <4>2, CheckStepKept
    <3> QED
      BY <3>1, <3>2 DEF EqRound, Determined
  <2> QED
    BY <2>2, <2>3
<1>2. CASE EqSolve
  <2>1. Determined
    BY <1>2 DEF EqSolve, EqRound
  <2>2. verdict' = "true" <=> Commutes(MaxFrame)
    BY <1>2, <2>1, SolveDecides DEF EqSolve
  <2> QED
    BY <1>2, <2>2, CommutesStable DEF EqSolve, EqRound
<1>3. CASE UNCHANGED vars
  <2>1. Determined => Determined'
    BY <1>3, CheckStepKept DEF Determined, vars
  <2> QED
    BY <1>3, <2>1, CommutesStable DEF EqRound, vars
<1>4. CASE IncStart \/ IncUnroll \/ IncSolve \/ IncAdvance
  BY <1>4 DEF IncStart, IncUnroll, IncSolve, IncAdvance, EqRound
<1> QED
  BY <1>1, <1>2, <1>3, <1>4 DEF Next, Terminated

(* EqExact for every pair of ILAs whose flush paths have one complete state at
   most: with the numbers of steps DetStepOrig and DetStepAppl determine, every
   path is complete, so the transition relations are the two ends of all the
   diagrams, never dead, and the last query finds a diagram that does not
   commute if there is one, however many frames its paths would take. *)
THEOREM EqCheckDecides == ASSUME OneCompletion PROVE Spec => []EqExact
<1>1. Init => Setting /\ EqRound
  <2>1. Init => EqRound
    BY DEF Init, EqRound
  <2> QED
    BY <2>1, SettingInit
<1>2. Setting /\ EqRound /\ [Next]_vars => (Setting /\ EqRound)'
  BY SettingKept, EqRoundStep
<1>3. Setting /\ EqRound => EqExact
  BY DEF EqRound, EqExact
<1> QED
  BY <1>1, <1>2, <1>3, PTL DEF Spec
=============================================================================
