--------------------------- MODULE UnrollerProofs ---------------------------
(***************************************************************************)
(* What the constraints of an unrolling mean, for every ILA, sequence,     *)
(* length and set of predicates: their solutions are the executions.       *)
(***************************************************************************)
EXTENDS Unroller, FiniteSetTheorems, TLAPS

-----------------------------------------------------------------------------
(* A chain of steps: all the unrollings are one, over other names.  Step k  *)
(* leads from the copy a[k] of the state to the copy b[k].                  *)

Chain(Q, prog, len, a, b) ==
    UNION {StepPreds(Q, prog, k, a[k]) \cup {Related(prog[k].k_next, a[k], b[k])}
             : k \in 0 .. len - 1}

Satisfies(e, C) == \A c \in C : <<e[c.from], e[c.to]>> \in c.rel

\* Step k of the chain may lead from state s to state t.
Fits(Q, prog, k, s, t) ==
    /\ \A p \in Q.g \cup Q.s[k] : s \in p
    /\ k = 0 => \A p \in Q.i : s \in p
    /\ s \in prog[k].k_pred
    /\ <<s, t>> \in prog[k].k_next

LEMMA AssertedMeans ==
    ASSUME NEW e, NEW p, NEW x
    PROVE  /\ Asserted(p, x).from = x /\ Asserted(p, x).to = x
           /\ <<e[x], e[x]>> \in Asserted(p, x).rel <=> e[x] \in p
BY DEF Asserted, Related

\* Constraints that assert each predicate of S of the copy x.
LEMMA AllAsserted ==
    ASSUME NEW e, NEW x, NEW S, NEW C, C = {Asserted(p, x) : p \in S}
    PROVE  Satisfies(e, C) <=> \A p \in S : e[x] \in p
<1>1. ASSUME NEW c \in C, \A p \in S : e[x] \in p
      PROVE  <<e[c.from], e[c.to]>> \in c.rel
  <2>1. PICK p \in S : c = Asserted(p, x)
    OBVIOUS
  <2> QED
    BY <1>1, <2>1, AssertedMeans
<1>2. ASSUME Satisfies(e, C), NEW p \in S
      PROVE  e[x] \in p
  <2>1. Asserted(p, x) \in C
    OBVIOUS
  <2>2. <<e[Asserted(p, x).from], e[Asserted(p, x).to]>> \in Asserted(p, x).rel
    BY <1>2, <2>1 DEF Satisfies
  <2> QED
    BY <2>2, AssertedMeans
<1> QED
  BY <1>1, <1>2 DEF Satisfies

\* The constraints of one step.
LEMMA StepMeans ==
    ASSUME NEW Q, NEW prog, NEW k, NEW x, NEW y, NEW e
    PROVE  Satisfies(e, StepPreds(Q, prog, k, x) \cup {Related(prog[k].k_next, x, y)})
             <=> Fits(Q, prog, k, e[x], e[y])
<1> DEFINE S == (IF k = 0 THEN Q.i ELSE {}) \cup Q.g \cup Q.s[k] \cup {prog[k].k_pred}
<1>1. Satisfies(e, StepPreds(Q, prog, k, x)) <=> \A p \in S : e[x] \in p
  <2>1. StepPreds(Q, prog, k, x) = {Asserted(p, x) : p \in S}
    BY DEF StepPreds
  <2> HIDE DEF S
  <2> QED
    BY <2>1, AllAsserted
<1>2. Satisfies(e, {Related(prog[k].k_next, x, y)}) <=> <<e[x], e[y]>> \in prog[k].k_next
  BY DEF Satisfies, Related
<1>3. (\A p \in S : e[x] \in p) <=>
        /\ \A p \in Q.g \cup Q.s[k] : e[x] \in p
        /\ k = 0 => \A p \in Q.i : e[x] \in p
        /\ e[x] \in prog[k].k_pred
  OBVIOUS
<1> QED
  BY <1>1, <1>2, <1>3 DEF Satisfies, Fits

\* The constraints of a chain, and the copies of the state that they name.
LEMMA ChainMeans ==
    ASSUME NEW Q, NEW prog, NEW len \in Nat, NEW a, NEW b, NEW e
    PROVE  Satisfies(e, Chain(Q, prog, len, a, b))
             <=> \A k \in 0 .. len - 1 : Fits(Q, prog, k, e[a[k]], e[b[k]])
<1> DEFINE C(k) == StepPreds(Q, prog, k, a[k]) \cup {Related(prog[k].k_next, a[k], b[k])}
<1>1. Satisfies(e, Chain(Q, prog, len, a, b)) <=> \A k \in 0 .. len - 1 : Satisfies(e, C(k))
  BY DEF Chain, Satisfies
<1> QED
  BY <1>1, StepMeans

LEMMA ChainNames ==
    ASSUME NEW Q, NEW prog, NEW len \in Nat, NEW a, NEW b,
           NEW c \in Chain(Q, prog, len, a, b)
    PROVE  \E k \in 0 .. len - 1 : c.from = a[k] /\ c.to \in {a[k], b[k]}
<1>1. PICK k \in 0 .. len - 1 :
        c \in StepPreds(Q, prog, k, a[k]) \cup {Related(prog[k].k_next, a[k], b[k])}
  BY DEF Chain
<1>2. c.from = a[k] /\ c.to \in {a[k], b[k]}
  <2>1. CASE c \in StepPreds(Q, prog, k, a[k])
    BY <2>1 DEF StepPreds, Asserted, Related
  <2>2. CASE c = Related(prog[k].k_next, a[k], b[k])
    BY <2>2 DEF Related
  <2> QED
    BY <1>1, <2>1, <2>2
<1> QED
  BY <1>2

\* The constraints on the end state.
LEMMA EndMeans ==
    ASSUME NEW Q, NEW len, NEW e
    PROVE  /\ Satisfies(e, EndPreds(Q, len))
                <=> \A p \in Q.g \cup Q.s[len] : e[SuffCurr(len)] \in p
           /\ \A c \in EndPreds(Q, len) : c.from = SuffCurr(len) /\ c.to = SuffCurr(len)
<1> DEFINE S == Q.g \cup Q.s[len]
<1>1. EndPreds(Q, len) = {Asserted(p, SuffCurr(len)) : p \in S}
  BY DEF EndPreds
<1>2. \A c \in EndPreds(Q, len) : c.from = SuffCurr(len) /\ c.to = SuffCurr(len)
  BY <1>1, AssertedMeans
<1> HIDE DEF S
<1>3. Satisfies(e, EndPreds(Q, len)) <=> \A p \in S : e[SuffCurr(len)] \in p
  BY <1>1, AllAsserted
<1> QED
  BY <1>2, <1>3 DEF S

\* The values of the copies `all' of the state that satisfy a chain and other
\* constraints D.
ChainValues(Q, prog, len, a, b, D, all) ==
    {e \in [all -> State] :
       /\ Satisfies(e, D)
       /\ \A k \in 0 .. len - 1 : Fits(Q, prog, k, e[a[k]], e[b[k]])}

\* They are its solutions, if `all' are the copies that are named.
LEMMA ChainSolutions ==
    ASSUME NEW Q, NEW prog, NEW len \in Nat, NEW a, NEW b, NEW D, NEW names, NEW all,
           NEW C, C = D \cup Chain(Q, prog, len, a, b),
           names \subseteq all,
           \A k \in 0 .. len - 1 : a[k] \in all /\ b[k] \in all,
           \A d \in D : d.from \in all /\ d.to \in all,
           \A n \in all \ names : (\E k \in 0 .. len - 1 : n = a[k] \/ n = b[k])
    PROVE  Solutions(C, names) = ChainValues(Q, prog, len, a, b, D, all)
<1> DEFINE used == names \cup {c.from : c \in C} \cup {c.to : c \in C}
<1>1. \A c \in C : c.from \in all /\ c.to \in all
  <2> SUFFICES ASSUME NEW c \in C PROVE c.from \in all /\ c.to \in all
    OBVIOUS
  <2>1. CASE c \in D
    BY <2>1
  <2>2. CASE c \in Chain(Q, prog, len, a, b)
    <3>1. PICK k \in 0 .. len - 1 : c.from = a[k] /\ c.to \in {a[k], b[k]}
      BY <2>2, ChainNames
    <3> QED
      BY <3>1
  <2> QED
    BY <2>1, <2>2
<1>2. all \subseteq used
  <2> SUFFICES ASSUME NEW n \in all \ names PROVE n \in used
    OBVIOUS
  <2>1. PICK k \in 0 .. len - 1 : n = a[k] \/ n = b[k]
    OBVIOUS
  <2>2. Related(prog[k].k_next, a[k], b[k]) \in C
    BY DEF Chain
  <2>3. a[k] \in used /\ b[k] \in used
    BY <2>2 DEF Related
  <2> QED
    BY <2>1, <2>3
<1>3. used = all
  BY <1>1, <1>2
<1>4. Solutions(C, names) = {e \in [all -> State] : Satisfies(e, C)}
  BY <1>3 DEF Solutions, Satisfies
<1>5. \A e : Satisfies(e, C)
               <=> /\ Satisfies(e, D)
                   /\ \A k \in 0 .. len - 1 : Fits(Q, prog, k, e[a[k]], e[b[k]])
  <2>1. \A e : Satisfies(e, C) <=> Satisfies(e, D) /\ Satisfies(e, Chain(Q, prog, len, a, b))
    BY DEF Satisfies
  <2> QED
    BY <2>1, ChainMeans
<1> QED
  BY <1>4, <1>5 DEF ChainValues

LEMMA NameFacts ==
    ASSUME NEW j, NEW k
    PROVE  /\ SuffCurr(j)[2] = j /\ SuffNext(j)[2] = j /\ Subst(j)[2] = j
           /\ SuffCurr(j)[1] = "curr" /\ SuffNext(j)[1] = "nxt" /\ Subst(j)[1] = "subst"
           /\ SuffCurr(j) # SuffNext(k) /\ SuffCurr(j) # Subst(k)
           /\ SuffCurr(j) = SuffCurr(k) => j = k
BY DEF SuffCurr, SuffNext, Subst

-----------------------------------------------------------------------------
(* The three unrollings, each as a chain and the constraints on its end.    *)

\* The runs of a program of len steps, of which the last state is an end state
\* if `ends' holds.
RunsOf(Q, prog, len, ends) ==
    {r \in [0 .. len -> State] :
       /\ \A k \in 0 .. len - 1 : Fits(Q, prog, k, r[k], r[k + 1])
       /\ ends => \A p \in Q.g \cup Q.s[len] : r[len] \in p}

\* UnrollAssn from frame 0: the values of the frames are the runs.
LEMMA AssnSolutions ==
    ASSUME NEW Q, NEW prog, NEW len \in Nat, NEW pos \in {0}
    PROVE  {[k \in 0 .. len |-> e[SuffCurr(pos + k)]] :
              e \in Solutions(UnrollAssn(Q, prog, len, pos), Frames(pos, pos + len))}
             = RunsOf(Q, prog, len, TRUE)
<1> DEFINE a == [k \in 0 .. len - 1 |-> SuffCurr(pos + k)]
           b == [k \in 0 .. len - 1 |-> SuffCurr(pos + k + 1)]
           C == Chain(Q, prog, len, a, b)
           all == Frames(pos, pos + len)
           run(e) == [k \in 0 .. len |-> e[SuffCurr(pos + k)]]
<1>1. UnrollAssn(Q, prog, len, pos) = EndPreds(Q, len) \cup C
  <2>1. \A k \in 0 .. len - 1 : a[k] = SuffCurr(pos + k) /\ b[k] = SuffCurr(pos + k + 1)
    OBVIOUS
  <2> HIDE DEF a, b
  <2> QED
    BY <2>1 DEF UnrollAssn, Chain
<1>2. /\ \A k \in 0 .. len - 1 : a[k] \in all /\ b[k] \in all
      /\ \A d \in EndPreds(Q, len) : d.from \in all /\ d.to \in all
  <2>1. \A k \in 0 .. len : SuffCurr(pos + k) \in all
    BY DEF Frames
  <2>2. \A k \in 0 .. len - 1 : a[k] \in all /\ b[k] \in all
    BY <2>1
  <2>3. SuffCurr(len) \in all
    BY DEF Frames
  <2> HIDE DEF a, b, all
  <2> QED
    BY <2>2, <2>3, EndMeans
<1>3. Solutions(UnrollAssn(Q, prog, len, pos), all)
        = ChainValues(Q, prog, len, a, b, EndPreds(Q, len), all)
  <2>1. \A n \in all \ all : \E k \in 0 .. len - 1 : n = a[k] \/ n = b[k]
    OBVIOUS
  <2> HIDE DEF a, b, all
  <2> QED
    BY <1>1, <1>2, <2>1, ChainSolutions
<1>4. ASSUME NEW e \in Solutions(UnrollAssn(Q, prog, len, pos), all)
      PROVE  run(e) \in RunsOf(Q, prog, len, TRUE)
  <2>1. /\ e \in [all -> State] /\ Satisfies(e, EndPreds(Q, len))
        /\ \A k \in 0 .. len - 1 : Fits(Q, prog, k, e[a[k]], e[b[k]])
    BY <1>3 DEF ChainValues
  <2>2. run(e) \in [0 .. len -> State]
    BY <2>1 DEF Frames
  <2>3. \A k \in 0 .. len - 1 : Fits(Q, prog, k, run(e)[k], run(e)[k + 1])
    <3>1. \A k \in 0 .. len - 1 : run(e)[k] = e[a[k]] /\ run(e)[k + 1] = e[b[k]]
      OBVIOUS
    <3> HIDE DEF a, b, run
    <3> QED
      BY <2>1, <3>1
  <2>4. \A p \in Q.g \cup Q.s[len] : run(e)[len] \in p
    BY <2>1, EndMeans
  <2> QED
    BY <2>2, <2>3, <2>4 DEF RunsOf
<1>5. ASSUME NEW r \in RunsOf(Q, prog, len, TRUE)
      PROVE  \E e \in Solutions(UnrollAssn(Q, prog, len, pos), all) : r = run(e)
  <2> DEFINE e == [n \in all |-> r[n[2]]]
  <2>1. \A k \in 0 .. len : SuffCurr(pos + k) \in all /\ e[SuffCurr(pos + k)] = r[k]
    BY NameFacts DEF Frames
  <2>2. r \in [0 .. len -> State]
    BY DEF RunsOf
  <2>3. e \in [all -> State]
    BY <2>2, NameFacts DEF Frames
  <2>4. \A k \in 0 .. len - 1 : Fits(Q, prog, k, e[a[k]], e[b[k]])
    <3>1. \A k \in 0 .. len - 1 : e[a[k]] = r[k] /\ e[b[k]] = r[k + 1]
      BY <2>1
    <3> HIDE DEF e
    <3> QED
      BY <3>1 DEF RunsOf
  <2>5. Satisfies(e, EndPreds(Q, len))
    <3>1. e[SuffCurr(len)] = r[len]
      BY <2>1
    <3> HIDE DEF e
    <3> QED
      BY <3>1, EndMeans DEF RunsOf
  <2>6. r = run(e)
    BY <2>1, <2>2
  <2> QED
    BY <1>3, <2>3, <2>4, <2>5, <2>6 DEF ChainValues
<1>6. {run(e) : e \in Solutions(UnrollAssn(Q, prog, len, pos), all)} = RunsOf(Q, prog, len, TRUE)
  <2> HIDE DEF run, all
  <2> QED
    BY <1>4, <1>5
<1> QED
  BY <1>6

\* UnrollNone from any frame: once the .nxt symbols are connected, the values are
\* the runs, with nothing said of the last state.
LEMMA NoneSolutions ==
    ASSUME NEW Q, NEW prog, NEW len \in Nat \ {0}, NEW pos \in Int
    PROVE  {[k \in 0 .. len |-> IF k = len THEN e[SuffNext(pos + k - 1)]
                                ELSE e[SuffCurr(pos + k)]] :
              e \in {f \in Solutions(UnrollNone(Q, prog, len, pos), {}) : \A k \in 1 .. len - 1 :
                       f[SuffNext(pos + k - 1)] = f[SuffCurr(pos + k)]}}
             = RunsOf(Q, prog, len, FALSE)
<1> DEFINE a == [k \in 0 .. len - 1 |-> SuffCurr(pos + k)]
           b == [k \in 0 .. len - 1 |-> SuffNext(pos + k)]
           all == {SuffCurr(pos + k) : k \in 0 .. len - 1}
                  \cup {SuffNext(pos + k) : k \in 0 .. len - 1}
           linked(f) == \A k \in 1 .. len - 1 : f[SuffNext(pos + k - 1)] = f[SuffCurr(pos + k)]
           run(e) == [k \in 0 .. len |-> IF k = len THEN e[SuffNext(pos + k - 1)]
                                         ELSE e[SuffCurr(pos + k)]]
           sol == {f \in Solutions(UnrollNone(Q, prog, len, pos), {}) : linked(f)}
<1>0. \A k \in 0 .. len - 1 : a[k] = SuffCurr(pos + k) /\ b[k] = SuffNext(pos + k)
  OBVIOUS
<1>1. UnrollNone(Q, prog, len, pos) = {} \cup Chain(Q, prog, len, a, b)
  <2> HIDE DEF a, b
  <2> QED
    BY <1>0 DEF UnrollNone, Chain
<1>2. Solutions(UnrollNone(Q, prog, len, pos), {}) = ChainValues(Q, prog, len, a, b, {}, all)
  <2>1. \A k \in 0 .. len - 1 : a[k] \in all /\ b[k] \in all
    BY <1>0
  <2>2. \A n \in all \ {} : \E k \in 0 .. len - 1 : n = a[k] \/ n = b[k]
    BY <1>0
  <2> DEFINE D == {}
             names == {}
  <2>3. names \subseteq all /\ \A d \in D : d.from \in all /\ d.to \in all
    OBVIOUS
  <2>4. /\ UnrollNone(Q, prog, len, pos) = D \cup Chain(Q, prog, len, a, b)
        /\ \A n \in all \ names : \E k \in 0 .. len - 1 : n = a[k] \/ n = b[k]
        /\ len \in Nat
    BY <1>1, <2>2
  <2> HIDE DEF a, b, all, D, names
  <2>5. Solutions(UnrollNone(Q, prog, len, pos), names)
          = ChainValues(Q, prog, len, a, b, D, all)
    BY <2>1, <2>3, <2>4, ChainSolutions
  <2> QED
    BY <2>5 DEF D, names
<1>3. ASSUME NEW e \in sol PROVE run(e) \in RunsOf(Q, prog, len, FALSE)
  <2>1. /\ e \in [all -> State] /\ linked(e)
        /\ \A k \in 0 .. len - 1 : Fits(Q, prog, k, e[a[k]], e[b[k]])
    BY <1>2 DEF ChainValues
  <2>2. /\ SuffNext(pos + len - 1) \in all
        /\ \A k \in 0 .. len - 1 : SuffCurr(pos + k) \in all
    <3>1. len - 1 \in 0 .. len - 1 /\ pos + len - 1 = pos + (len - 1)
      OBVIOUS
    <3> QED
      BY <3>1
  <2>3. run(e) \in [0 .. len -> State]
    BY <2>1, <2>2
  <2>4. \A k \in 0 .. len - 1 : run(e)[k] = e[a[k]] /\ run(e)[k + 1] = e[b[k]]
    <3> SUFFICES ASSUME NEW k \in 0 .. len - 1
                 PROVE  run(e)[k] = e[a[k]] /\ run(e)[k + 1] = e[b[k]]
      OBVIOUS
    <3>1. k # len /\ k \in 0 .. len /\ k + 1 \in 0 .. len /\ pos + (k + 1) - 1 = pos + k
      OBVIOUS
    <3>2. CASE k + 1 = len
      BY <3>1, <3>2
    <3>3. CASE k + 1 # len
      <4>1. k + 1 \in 1 .. len - 1
        BY <3>3
      <4>2. e[SuffNext(pos + k)] = e[SuffCurr(pos + (k + 1))]
        BY <2>1, <3>1, <4>1
      <4> QED
        BY <3>1, <3>3, <4>2
    <3> QED
      BY <3>2, <3>3
  <2> HIDE DEF a, b, run
  <2> QED
    BY <2>1, <2>3, <2>4 DEF RunsOf
<1>4. ASSUME NEW r \in RunsOf(Q, prog, len, FALSE) PROVE \E e \in sol : r = run(e)
  <2> DEFINE e == [n \in all |-> IF n[1] = "curr" THEN r[n[2] - pos] ELSE r[n[2] - pos + 1]]
  <2>1. r \in [0 .. len -> State]
    BY DEF RunsOf
  <2>2. ASSUME NEW k \in 0 .. len - 1
        PROVE  /\ SuffCurr(pos + k) \in all /\ e[SuffCurr(pos + k)] = r[k]
               /\ SuffNext(pos + k) \in all /\ e[SuffNext(pos + k)] = r[k + 1]
    <3>1. pos + k - pos = k
      OBVIOUS
    <3>2. SuffCurr(pos + k) \in all /\ SuffNext(pos + k) \in all
      OBVIOUS
    <3>3. /\ e[SuffCurr(pos + k)] = r[pos + k - pos]
          /\ e[SuffNext(pos + k)] = r[pos + k - pos + 1]
      BY <3>2, NameFacts
    <3> QED
      BY <3>1, <3>2, <3>3
  <2>3. e \in [all -> State]
    <3>1. ASSUME NEW n \in all PROVE e[n] \in State
      <4>1. PICK k \in 0 .. len - 1 : n = SuffCurr(pos + k) \/ n = SuffNext(pos + k)
        OBVIOUS
      <4>2. r[k] \in State /\ r[k + 1] \in State
        BY <2>1
      <4> HIDE DEF e
      <4> QED
        BY <2>2, <4>1, <4>2
    <3> QED
      BY <3>1
  <2> HIDE DEF e
  <2>4. \A k \in 0 .. len - 1 : Fits(Q, prog, k, e[a[k]], e[b[k]])
    BY <1>0, <2>2 DEF RunsOf
  <2>5. linked(e)
    <3> SUFFICES ASSUME NEW k \in 1 .. len - 1
                 PROVE  e[SuffNext(pos + k - 1)] = e[SuffCurr(pos + k)]
      OBVIOUS
    <3>1. k - 1 \in 0 .. len - 1 /\ k \in 0 .. len - 1
          /\ pos + k - 1 = pos + (k - 1) /\ (k - 1) + 1 = k
      OBVIOUS
    <3>2. e[SuffNext(pos + (k - 1))] = r[(k - 1) + 1] /\ e[SuffCurr(pos + k)] = r[k]
      BY <2>2, <3>1
    <3> QED
      BY <3>1, <3>2
  <2>6. e \in sol
    <3>1. Satisfies(e, {})
      BY DEF Satisfies
    <3> HIDE DEF all, a, b
    <3> QED
      BY <1>2, <2>3, <2>4, <2>5, <3>1 DEF ChainValues
  <2>7. r = run(e)
    <3> SUFFICES ASSUME NEW k \in 0 .. len PROVE r[k] = run(e)[k]
      BY <2>1
    <3>1. CASE k = len
      <4>1. len - 1 \in 0 .. len - 1 /\ pos + len - 1 = pos + (len - 1) /\ (len - 1) + 1 = len
        OBVIOUS
      <4>2. e[SuffNext(pos + (len - 1))] = r[(len - 1) + 1]
        BY <2>2, <4>1
      <4> QED
        BY <3>1, <4>1, <4>2
    <3>2. CASE k # len
      <4>1. k \in 0 .. len - 1
        BY <3>2
      <4> QED
        BY <2>2, <3>2, <4>1
    <3> QED
      BY <3>1, <3>2
  <2> QED
    BY <2>6, <2>7
<1>5. {run(e) : e \in sol} = RunsOf(Q, prog, len, FALSE)
  <2> HIDE DEF run, sol
  <2> QED
    BY <1>3, <1>4
<1> QED
  BY <1>5

\* The values of two copies in the solutions of C, and the ends of the runs.
EndPairs(C, from, to) == {<<e[from], e[to]>> : e \in Solutions(C, {from, to})}
RunPairs(Q, prog, len) == {<<r[0], r[len]>> : r \in RunsOf(Q, prog, len, TRUE)}

\* UnrollSubs from frame 0: the first and the last frame are the ends of the runs.
LEMMA SubsSolutions ==
    ASSUME NEW Q, NEW prog, NEW len \in Nat, NEW pos \in {0}
    PROVE  EndPairs(UnrollSubs(Q, prog, len, pos), SuffCurr(pos), SuffCurr(pos + len))
             = RunPairs(Q, prog, len)
<1> DEFINE prev(k) == IF k = 0 THEN SuffCurr(pos) ELSE Subst(k)
           a == [k \in 0 .. len - 1 |-> prev(k)]
           b == [k \in 0 .. len - 1 |-> prev(k + 1)]
           link == Related(Equal, prev(len), SuffCurr(len))
           D == EndPreds(Q, len) \cup {link}
           ends == {SuffCurr(pos), SuffCurr(pos + len)}
           all == ends \cup {prev(k) : k \in 0 .. len}
           pair(e) == <<e[SuffCurr(pos)], e[SuffCurr(pos + len)]>>
           sol == Solutions(UnrollSubs(Q, prog, len, pos), ends)
<1>0. \A k \in 0 .. len - 1 : a[k] = prev(k) /\ b[k] = prev(k + 1)
  OBVIOUS
<1>1. UnrollSubs(Q, prog, len, pos) = D \cup Chain(Q, prog, len, a, b)
  <2>1. Chain(Q, prog, len, a, b)
          = UNION {StepPreds(Q, prog, k, prev(k))
                   \cup {Related(prog[k].k_next, prev(k), prev(k + 1))} : k \in 0 .. len - 1}
    <3> HIDE DEF a, b, prev
    <3> QED
      BY <1>0 DEF Chain
  <2> QED
    BY <2>1 DEF UnrollSubs
<1>2. sol = ChainValues(Q, prog, len, a, b, D, all)
  <2>1. \A k \in 0 .. len : prev(k) \in all
    OBVIOUS
  <2>2. \A k \in 0 .. len - 1 : a[k] \in all /\ b[k] \in all
    <3> HIDE DEF a, b, prev, all
    <3> QED
      BY <1>0, <2>1
  <2>3. \A n \in all \ ends : \E k \in 0 .. len - 1 : n = a[k] \/ n = b[k]
    <3> SUFFICES ASSUME NEW n \in all \ ends
                 PROVE  \E k \in 0 .. len - 1 : n = a[k] \/ n = b[k]
      OBVIOUS
    <3>1. PICK k \in 0 .. len : n = prev(k)
      OBVIOUS
    <3>2. k # 0
      BY <3>1
    <3>3. k - 1 \in 0 .. len - 1 /\ (k - 1) + 1 = k
      BY <3>2
    <3>4. n = b[k - 1]
      BY <1>0, <3>1, <3>3
    <3> QED
      BY <3>3, <3>4
  <2>4. ends \subseteq all /\ \A d \in D : d.from \in all /\ d.to \in all
    <3>1. SuffCurr(len) \in all /\ prev(len) \in all
      BY <2>1
    <3>2. link.from = prev(len) /\ link.to = SuffCurr(len)
      BY DEF Related
    <3>3. \A d \in EndPreds(Q, len) : d.from = SuffCurr(len) /\ d.to = SuffCurr(len)
      BY EndMeans
    <3> HIDE DEF link, prev
    <3>4. \A d \in D : {d.from, d.to} \subseteq {prev(len), SuffCurr(len)}
      BY <3>2, <3>3
    <3>5. ends \subseteq all
      OBVIOUS
    <3> HIDE DEF D, all
    <3> QED
      BY <3>1, <3>4, <3>5
  <2> HIDE DEF a, b, D, ends, all
  <2> QED
    BY <1>1, <2>2, <2>3, <2>4, ChainSolutions
<1>3. \A e \in [all -> State] :
        Satisfies(e, D) <=> /\ \A p \in Q.g \cup Q.s[len] : e[SuffCurr(len)] \in p
                            /\ e[prev(len)] = e[SuffCurr(len)]
  <2> SUFFICES ASSUME NEW e \in [all -> State]
               PROVE  Satisfies(e, D) <=>
                        /\ \A p \in Q.g \cup Q.s[len] : e[SuffCurr(len)] \in p
                        /\ e[prev(len)] = e[SuffCurr(len)]
    OBVIOUS
  <2>1. e[prev(len)] \in State
    BY DEF Frames
  <2>2. Satisfies(e, {link}) <=> e[prev(len)] = e[SuffCurr(len)]
    <3> HIDE DEF prev
    <3> QED
      BY <2>1 DEF Satisfies, Related, Equal
  <2>3. Satisfies(e, D) <=> Satisfies(e, EndPreds(Q, len)) /\ Satisfies(e, {link})
    BY DEF Satisfies
  <2> QED
    BY <2>2, <2>3, EndMeans
<1>4. ASSUME NEW e \in sol
      PROVE  \E r \in RunsOf(Q, prog, len, TRUE) : pair(e) = <<r[0], r[len]>>
  <2> DEFINE r == [k \in 0 .. len |-> e[prev(k)]]
  <2>1. /\ e \in [all -> State] /\ Satisfies(e, D)
        /\ \A k \in 0 .. len - 1 : Fits(Q, prog, k, e[a[k]], e[b[k]])
    BY <1>2 DEF ChainValues
  <2>2. r \in [0 .. len -> State]
    BY <2>1
  <2>3. r[0] = e[SuffCurr(pos)] /\ r[len] = e[prev(len)]
    OBVIOUS
  <2>4. e[prev(len)] = e[SuffCurr(len)] /\ \A p \in Q.g \cup Q.s[len] : e[SuffCurr(len)] \in p
    BY <1>3, <2>1
  <2>5. \A k \in 0 .. len - 1 : Fits(Q, prog, k, r[k], r[k + 1])
    <3>1. \A k \in 0 .. len - 1 : r[k] = e[prev(k)] /\ r[k + 1] = e[prev(k + 1)]
      OBVIOUS
    <3> HIDE DEF r, a, b, prev
    <3> QED
      BY <1>0, <2>1, <3>1
  <2>6. pos + len = len
    OBVIOUS
  <2> HIDE DEF r, prev
  <2> QED
    BY <2>2, <2>3, <2>4, <2>5, <2>6 DEF RunsOf
<1>5. ASSUME NEW r \in RunsOf(Q, prog, len, TRUE)
      PROVE  \E e \in sol : pair(e) = <<r[0], r[len]>>
  <2> DEFINE e == [n \in all |-> r[n[2]]]
  <2>1. r \in [0 .. len -> State]
    BY DEF RunsOf
  <2>2. ASSUME NEW k \in 0 .. len PROVE prev(k) \in all /\ e[prev(k)] = r[k]
    <3>1. prev(k) \in all
      OBVIOUS
    <3>2. prev(k)[2] = k
      BY NameFacts
    <3> HIDE DEF prev, all
    <3> QED
      BY <3>1, <3>2
  <2>3. e[SuffCurr(pos)] = r[0] /\ e[SuffCurr(len)] = r[len] /\ e[SuffCurr(pos + len)] = r[len]
    <3>1. pos = 0 /\ pos + len = len /\ SuffCurr(pos) \in all /\ SuffCurr(pos + len) \in all
      OBVIOUS
    <3>2. e[SuffCurr(pos)] = r[pos] /\ e[SuffCurr(pos + len)] = r[pos + len]
      BY <3>1, NameFacts
    <3> QED
      BY <3>1, <3>2
  <2>4. e \in [all -> State]
    <3> SUFFICES ASSUME NEW n \in all PROVE e[n] \in State
      OBVIOUS
    <3>1. n = SuffCurr(pos) \/ n = SuffCurr(len) \/ \E k \in 0 .. len : n = prev(k)
      OBVIOUS
    <3>2. r[0] \in State /\ r[len] \in State /\ \A k \in 0 .. len : r[k] \in State
      BY <2>1
    <3> HIDE DEF e, prev
    <3> QED
      BY <2>2, <2>3, <3>1, <3>2
  <2> HIDE DEF e
  <2>5. \A k \in 0 .. len - 1 : Fits(Q, prog, k, e[a[k]], e[b[k]])
    <3>1. \A k \in 0 .. len - 1 : e[prev(k)] = r[k] /\ e[prev(k + 1)] = r[k + 1]
      BY <2>2
    <3> HIDE DEF a, b, prev
    <3> QED
      BY <1>0, <3>1 DEF RunsOf
  <2>6. Satisfies(e, D)
    <3> HIDE DEF prev, all, D
    <3> QED
      BY <1>3, <2>2, <2>3, <2>4 DEF RunsOf
  <2>7. e \in sol
    <3> HIDE DEF a, b, D, all, sol
    <3> QED
      BY <1>2, <2>4, <2>5, <2>6 DEF ChainValues
  <2> QED
    BY <2>3, <2>7
<1>6. {pair(e) : e \in sol} = {<<r[0], r[len]>> : r \in RunsOf(Q, prog, len, TRUE)}
  <2> HIDE DEF pair, sol
  <2> QED
    BY <1>4, <1>5
<1> QED
  BY <1>6 DEF EndPairs, RunPairs

-----------------------------------------------------------------------------
(* The invariant of an unroller object: what the last call returned are the *)
(* constraints of that call alone, and only the unroller over smt-switch    *)
(* remembers the frame of an earlier one.                                   *)

Objects ==
    /\ class \in {"Path", "Mono", "Smt", "Switch", "Api"}
    /\ g_pred \subseteq Preds /\ i_pred \subseteq Preds
    /\ s_pred \in [0 .. MaxLen -> SUBSET Preds]

Members ==
    /\ term_at = {} \/ \E t \in Poss \cup 0 .. MaxLen : term_at = {t}
    /\ class # "Switch" => term_at = {}
    /\ k_next = {} \/ \E t : k_next = {t}

\* Transition(k) of the last call, for each of its steps.
Program ==
    IF ret.kind = "Path" THEN [k \in 0 .. ret.len - 1 |-> PathTransition(ret.src[k + 1])]
    ELSE [k \in 0 .. ret.len - 1 |-> MonoTransition(ret.src)]

Returned ==
    ret # NoCall =>
      /\ ret.mode \in {"Subs", "Assn", "None"} /\ ret.pos \in Poss /\ ret.len \in 0 .. MaxLen
      /\ \/ ret.kind = "Path" /\ ret.src \in Seq(Instr) /\ Len(ret.src) = ret.len
         \/ ret.kind = "Mono" /\ ret.src \subseteq Instr
      /\ IF class = "Switch" THEN ret.mode = "Assn"
         ELSE cstr = Constraints(ret.mode, Program, ret.len, ret.pos)

UnrollerInv == Objects /\ Members /\ Returned

LEMMA UnrollerInit == Init => UnrollerInv
BY DEF Init, UnrollerInv, Objects, Members, Returned

\* A call that returns nothing leaves nothing to be said of what was returned.
LEMMA NothingReturned ==
    ASSUME UnrollerInv, NoReturn, UNCHANGED <<class, term_at, k_next>>, Objects'
    PROVE  UnrollerInv'
BY DEF UnrollerInv, Members, Returned, NoReturn

\* The terms of an unroller over z3 are about the frames that they were made for.
LEMMA FramesKept ==
    ASSUME NEW Q, NEW prog, NEW len, NEW begin
    PROVE  {Related(c.rel, SuffCurr(FrameOf(c.from[2], {})), SuffCurr(FrameOf(c.to[2], {}))) :
              c \in Unroll_(Q, prog, len, begin)}
             = UnrollAssn(Q, prog, len, begin)
<1>1. ASSUME NEW c \in UnrollAssn(Q, prog, len, begin)
      PROVE  Related(c.rel, SuffCurr(FrameOf(c.from[2], {})), SuffCurr(FrameOf(c.to[2], {}))) = c
  <2>1. \E R, i, j : c = Related(R, SuffCurr(i), SuffCurr(j))
    <3>1. CASE c \in EndPreds(Q, len)
      BY <3>1 DEF EndPreds, Asserted
    <3>2. CASE \E k \in 0 .. len - 1 : c \in StepPreds(Q, prog, k, SuffCurr(begin + k))
      BY <3>2 DEF StepPreds, Asserted
    <3>3. CASE \E k \in 0 .. len - 1 :
                 c = Related(prog[k].k_next, SuffCurr(begin + k), SuffCurr(begin + k + 1))
      BY <3>3
    <3> QED
      BY <3>1, <3>2, <3>3 DEF UnrollAssn
  <2>2. PICK R, i, j : c = Related(R, SuffCurr(i), SuffCurr(j))
    BY <2>1
  <2>3. c.rel = R /\ c.from = SuffCurr(i) /\ c.to = SuffCurr(j)
    BY <2>2 DEF Related
  <2>4. FrameOf(c.from[2], {}) = i /\ FrameOf(c.to[2], {}) = j
    BY <2>3, NameFacts DEF FrameOf
  <2> QED
    BY <2>2, <2>3, <2>4
<1> QED
  BY <1>1 DEF Unroll_

\* What a call that unrolls must do to keep the invariant.
LEMMA CallReturned ==
    ASSUME UnrollerInv, NEW kind, NEW mode \in {"Subs", "Assn", "None"}, NEW src,
           NEW len \in 0 .. MaxLen, NEW pos \in Poss, NEW C, Return(kind, mode, src, len, pos, C),
           \/ kind = "Path" /\ src \in Seq(Instr) /\ Len(src) = len
           \/ kind = "Mono" /\ src \subseteq Instr,
           class = "Switch" => mode = "Assn",
           class # "Switch" =>
             C = Constraints(mode, IF kind = "Path"
                                   THEN [k \in 0 .. len - 1 |-> PathTransition(src[k + 1])]
                                   ELSE [k \in 0 .. len - 1 |-> MonoTransition(src)], len, pos),
           UNCHANGED <<class, preds>>
    PROVE  Objects' /\ Returned'
<1>1. Objects'
  BY DEF UnrollerInv, Objects, preds
<1>2. cstr' = C /\ ret'.kind = kind /\ ret'.mode = mode /\ ret'.src = src /\ ret'.len = len
      /\ ret'.pos = pos
  BY DEF Return
<1>3. Program' = IF kind = "Path" THEN [k \in 0 .. len - 1 |-> PathTransition(src[k + 1])]
                 ELSE [k \in 0 .. len - 1 |-> MonoTransition(src)]
  BY <1>2 DEF Program
<1>4. P' = P
  BY DEF P, preds
<1>5. class # "Switch" => cstr' = Constraints(ret.mode, Program, ret.len, ret.pos)'
  <2> SUFFICES ASSUME class # "Switch"
               PROVE  cstr' = Constraints(ret.mode, Program, ret.len, ret.pos)'
    OBVIOUS
  <2>1. cstr' = Constraints(mode, Program', len, pos)
    BY <1>2, <1>3
  <2>2. CASE mode = "Subs"
    BY <1>2, <1>4, <2>1, <2>2 DEF Constraints
  <2>3. CASE mode = "Assn"
    BY <1>2, <1>4, <2>1, <2>3 DEF Constraints
  <2>4. CASE mode = "None"
    BY <1>2, <1>4, <2>1, <2>4 DEF Constraints
  <2> QED
    BY <2>2, <2>3, <2>4
<1>6. Returned'
  BY <1>2, <1>5 DEF Returned
<1> QED
  BY <1>1, <1>6

LEMMA SeqFacts ==
    ASSUME NEW seq \in Seqs
    PROVE  seq \in Seq(Instr) /\ Len(seq) \in 0 .. MaxLen
BY UnrollerAssumption

LEMMA UnrollerStep == UnrollerInv /\ [Next]_vars => UnrollerInv'
<1> SUFFICES ASSUME UnrollerInv, [Next]_vars PROVE UnrollerInv'
  OBVIOUS
<1>0. Objects /\ Members /\ Returned
  BY DEF UnrollerInv
<1>1. ASSUME NEW p \in Preds, AddGlobPred(p) \/ AddInitPred(p) PROVE UnrollerInv'
  <2>1. NoReturn /\ UNCHANGED <<class, term_at, k_next>> /\ Objects'
    BY <1>0, <1>1 DEF AddGlobPred, AddInitPred, Objects
  <2> QED
    BY <2>1, NothingReturned
<1>2. ASSUME NEW p \in Preds, NEW k \in 0 .. MaxLen, AddStepPred(p, k) PROVE UnrollerInv'
  <2>1. NoReturn /\ UNCHANGED <<class, term_at, k_next>> /\ Objects'
    BY <1>0, <1>2 DEF AddStepPred, Objects
  <2> QED
    BY <2>1, NothingReturned
<1>3. CASE ClearGlobPred \/ ClearInitPred \/ ClearStepPred \/ ClearPred
  <2>1. NoReturn /\ UNCHANGED <<class, term_at, k_next>> /\ Objects'
    BY <1>0, <1>3 DEF ClearGlobPred, ClearInitPred, ClearStepPred, ClearPred, Objects
  <2> QED
    BY <2>1, NothingReturned
<1>4. ASSUME NEW mode \in {"Subs", "Assn", "None"}, NEW seq \in Seqs, NEW pos \in Poss,
             PathUnroll(mode, seq, pos) \/ UnrollPath(mode, seq, pos)
      PROVE  UnrollerInv'
  <2> DEFINE prog == [k \in 0 .. Len(seq) - 1 |-> PathTransition(seq[k + 1])]
             C == Constraints(mode, prog, Len(seq), pos)
  <2>1. class # "Switch" /\ Return("Path", mode, seq, Len(seq), pos, C)
        /\ UNCHANGED <<class, term_at, preds, k_next>>
    BY <1>4 DEF PathUnroll, UnrollPath, BootStrap, Return
  <2>2. Objects' /\ Returned'
    BY <2>1, SeqFacts, CallReturned
  <2> QED
    BY <1>0, <2>1, <2>2 DEF UnrollerInv, Members
<1>5. ASSUME NEW seq \in Seqs, NEW pos \in Poss, SmtUnroll(seq, pos) PROVE UnrollerInv'
  <2> DEFINE prog == [k \in 0 .. Len(seq) - 1 |-> PathTransition(seq[k + 1])]
             X == Unroll_(P, prog, Len(seq), pos)
             C == {Related(c.rel, SuffCurr(FrameOf(c.from[2], Remember(pos))),
                           SuffCurr(FrameOf(c.to[2], Remember(pos)))) : c \in X}
  <2>1. /\ class \in {"Smt", "Switch"} /\ term_at' = Remember(pos)
        /\ Return("Path", "Assn", seq, Len(seq), pos, C)
        /\ UNCHANGED <<class, preds, k_next>>
    BY <1>5 DEF SmtUnroll
  <2>2. class # "Switch" => C = Constraints("Assn", prog, Len(seq), pos)
    <3>1. class # "Switch" => Remember(pos) = {}
      BY <1>0, <2>1 DEF Remember, Members
    <3> QED
      BY <3>1, FramesKept DEF Constraints
  <2> HIDE DEF C
  <2>3. Objects' /\ Returned'
    BY <2>1, <2>2, SeqFacts, CallReturned
  <2>4. Members'
    BY <1>0, <2>1 DEF Members, Remember
  <2> QED
    BY <2>3, <2>4 DEF UnrollerInv
<1>6. ASSUME NEW mode \in {"Subs", "Assn", "None"}, NEW top \in Tops, NEW len \in 0 .. MaxLen,
             NEW pos \in Poss, MonoUnroll(mode, top, len, pos)
      PROVE  UnrollerInv'
  <2> DEFINE prog == [k \in 0 .. len - 1 |-> MonoTransition(top)]
             C == Constraints(mode, prog, len, pos)
  <2>1. /\ class = "Mono" /\ Return("Mono", mode, top, len, pos, C)
        /\ k_next' \in {{}, {MonoTransition(top)}}
        /\ UNCHANGED <<class, term_at, preds>>
    BY <1>6 DEF MonoUnroll, BootStrap, Return
  <2>2. top \subseteq Instr
    BY UnrollerAssumption
  <2>3. Objects' /\ Returned'
    BY <2>1, <2>2, CallReturned
  <2>4. Members'
    BY <1>0, <2>1 DEF Members
  <2> QED
    BY <2>3, <2>4 DEF UnrollerInv
<1>7. ASSUME NEW mode \in {"Subs", "Assn", "None"}, NEW top \in Tops, NEW len \in 0 .. MaxLen,
             NEW pos \in Poss, UnrollMono(mode, top, len, pos)
      PROVE  UnrollerInv'
  <2> DEFINE prog == [k \in 0 .. len - 1 |-> MonoTransition(top)]
             C == Constraints(mode, prog, len, pos)
  <2>1. /\ class = "Api" /\ Return("Mono", mode, top, len, pos, C)
        /\ UNCHANGED <<class, term_at, preds, k_next>>
    BY <1>7 DEF UnrollMono
  <2>2. top \subseteq Instr
    BY UnrollerAssumption
  <2>3. Objects' /\ Returned'
    BY <2>1, <2>2, CallReturned
  <2> QED
    BY <1>0, <2>1, <2>3 DEF UnrollerInv, Members
<1>8. ASSUME NEW k \in 0 .. MaxLen, GetSmtCurrent(k) PROVE UnrollerInv'
  <2>1. Objects' /\ Returned'
    BY <1>0, <1>8 DEF GetSmtCurrent, NoReturn, Objects, Returned, preds
  <2>2. Members'
    BY <1>0, <1>8 DEF GetSmtCurrent, Members, Remember
  <2> QED
    BY <2>1, <2>2 DEF UnrollerInv
<1>9. CASE Reset
  <2>1. Objects' /\ Returned'
    BY <1>0, <1>9 DEF Reset, NoReturn, Objects, Returned, preds
  <2>2. Members'
    BY <1>0, <1>9 DEF Reset, Members
  <2> QED
    BY <2>1, <2>2 DEF UnrollerInv
<1>10. CASE UNCHANGED vars
  <2>1. UNCHANGED <<class, term_at, preds, g_pred, i_pred, s_pred, k_next, cstr, ret>>
    BY <1>10 DEF vars, preds
  <2>2. Returned'
    BY <1>0, <2>1 DEF Returned, Program, Constraints, P
  <2> QED
    BY <1>0, <2>1, <2>2 DEF UnrollerInv, Objects, Members
<1> QED
  BY <1>1, <1>2, <1>3, <1>4, <1>5, <1>6, <1>7, <1>8, <1>9, <1>10 DEF Next

LEMMA UnrollerInvariant == Spec => []UnrollerInv
BY UnrollerInit, UnrollerStep, PTL DEF Spec

(* The members of an unroller keep their types whatever a client calls: one
   transition table at most, and one frame at most that a term is about. *)
THEOREM UnrollerTypeCorrect == Spec => []TypeOK
<1>1. UnrollerInv => TypeOK
  <2> SUFFICES ASSUME UnrollerInv PROVE TypeOK
    OBVIOUS
  <2>1. term_at \in SUBSET (Poss \cup 0 .. MaxLen) /\ Cardinality(term_at) <= 1
    <3>1. CASE term_at = {}
      BY <3>1, FS_EmptySet
    <3>2. ASSUME NEW t \in Poss \cup 0 .. MaxLen, term_at = {t}
          PROVE  term_at \in SUBSET (Poss \cup 0 .. MaxLen) /\ Cardinality(term_at) <= 1
      BY <3>2, FS_Singleton
    <3> QED
      BY <3>1, <3>2 DEF UnrollerInv, Members
  <2>2. Cardinality(k_next) <= 1
    <3>1. CASE k_next = {}
      BY <3>1, FS_EmptySet
    <3>2. ASSUME NEW t, k_next = {t} PROVE Cardinality(k_next) <= 1
      <4>1. Cardinality({t}) = 1
        BY FS_Singleton
      <4> QED
        BY <3>2, <4>1
    <3> QED
      BY <3>1, <3>2 DEF UnrollerInv, Members
  <2> QED
    BY <2>1, <2>2 DEF UnrollerInv, Objects, TypeOK
<1> QED
  BY <1>1, UnrollerInvariant, PTL

-----------------------------------------------------------------------------
(* The runs of the program of the last call are its executions.             *)

\* One-hot selection: an instruction that decodes fires, or none does.
LEMMA MonoMeans ==
    ASSUME NEW top, NEW s \in State, NEW t \in State
    PROVE  <<s, t>> \in MonoTransition(top).k_next
             <=> \/ \E i \in top : s \in DecodeCmpl(i) /\ t = Update[i][s]
                 \/ s = t /\ \A i \in top : s \notin DecodeCmpl(i)
<1> DEFINE Hot(sel, dead) ==
             /\ \A i \in sel : s \in DecodeCmpl(i) /\ t = Update[i][s]
             /\ dead => s = t /\ \A i \in top : s \notin DecodeCmpl(i)
             /\ dead \/ sel # {}
             /\ \A i, j \in sel : i = j
<1>1. <<s, t>> \in MonoTransition(top).k_next
        <=> \E sel \in SUBSET top, dead \in BOOLEAN : Hot(sel, dead)
  BY DEF MonoTransition
<1>2. ASSUME NEW sel \in SUBSET top, NEW dead \in BOOLEAN, Hot(sel, dead)
      PROVE  \/ \E i \in top : s \in DecodeCmpl(i) /\ t = Update[i][s]
             \/ s = t /\ \A i \in top : s \notin DecodeCmpl(i)
  BY <1>2
<1>3. ASSUME NEW i \in top, s \in DecodeCmpl(i) /\ t = Update[i][s]
      PROVE  \E sel \in SUBSET top, dead \in BOOLEAN : Hot(sel, dead)
  <2>1. {i} \in SUBSET top /\ Hot({i}, FALSE)
    BY <1>3
  <2> HIDE DEF Hot
  <2> QED
    BY <2>1
<1>4. ASSUME s = t, \A i \in top : s \notin DecodeCmpl(i)
      PROVE  \E sel \in SUBSET top, dead \in BOOLEAN : Hot(sel, dead)
  <2>1. {} \in SUBSET top /\ Hot({}, TRUE)
    BY <1>4
  <2> HIDE DEF Hot
  <2> QED
    BY <2>1
<1> HIDE DEF Hot
<1> QED
  BY <1>1, <1>2, <1>3, <1>4

\* A step of the program is a step of the instruction or of the ILA that the
\* predicates allow.
LEMMA FitsMeans ==
    ASSUME UnrollerInv, ret # NoCall, NEW k \in 0 .. ret.len - 1, NEW s \in State, NEW t \in State
    PROVE  Fits(P, Program, k, s, t) <=> Allowed(k, s) /\ Steps(k, s, t)
<1>1. (/\ \A p \in P.g \cup P.s[k] : s \in p
       /\ k = 0 => \A p \in P.i : s \in p) <=> Allowed(k, s)
  <2>1. ret.len \in Nat
    BY UnrollerAssumption DEF UnrollerInv, Returned
  <2> QED
    BY <2>1 DEF P, Allowed
<1>2. s \in Program[k].k_pred /\ <<s, t>> \in Program[k].k_next <=> Steps(k, s, t)
  <2>1. CASE ret.kind = "Path" /\ ret.src \in Seq(Instr) /\ Len(ret.src) = ret.len
    <3>1. ret.src[k + 1] \in Instr
      BY <2>1
    <3>2. Program[k] = PathTransition(ret.src[k + 1])
      BY <2>1 DEF Program
    <3> QED
      BY <2>1, <3>1, <3>2 DEF PathTransition, Steps
  <2>2. CASE ret.kind = "Mono"
    <3>1. Program[k] = MonoTransition(ret.src)
      BY <2>2 DEF Program
    <3>2. s \in MonoTransition(ret.src).k_pred
      BY DEF MonoTransition
    <3> QED
      BY <2>2, <3>1, <3>2, MonoMeans DEF Steps
  <2> QED
    BY <2>1, <2>2 DEF UnrollerInv, Returned
<1> QED
  BY <1>1, <1>2 DEF Fits

LEMMA RunsAreExecutions ==
    ASSUME UnrollerInv, ret # NoCall
    PROVE  /\ RunsOf(P, Program, ret.len, TRUE) = Executions
           /\ RunsOf(P, Program, ret.len, FALSE)
                = {r \in [0 .. ret.len -> State] :
                     \A k \in 0 .. ret.len - 1 : Allowed(k, r[k]) /\ Steps(k, r[k], r[k + 1])}
<1>0. ret.len \in Nat
  BY UnrollerAssumption DEF UnrollerInv, Returned
<1>1. ASSUME NEW r \in [0 .. ret.len -> State]
      PROVE  /\ (\A k \in 0 .. ret.len - 1 : Fits(P, Program, k, r[k], r[k + 1]))
                  <=> \A k \in 0 .. ret.len - 1 : Allowed(k, r[k]) /\ Steps(k, r[k], r[k + 1])
             /\ (\A p \in P.g \cup P.s[ret.len] : r[ret.len] \in p) <=> Allowed(ret.len, r[ret.len])
  <2>1. \A k \in 0 .. ret.len - 1 : r[k] \in State /\ r[k + 1] \in State
    BY <1>0
  <2>2. \A k \in 0 .. ret.len - 1 : Fits(P, Program, k, r[k], r[k + 1])
                                      <=> Allowed(k, r[k]) /\ Steps(k, r[k], r[k + 1])
    BY <2>1, FitsMeans
  <2>3. (\A p \in P.g \cup P.s[ret.len] : r[ret.len] \in p) <=> Allowed(ret.len, r[ret.len])
    BY <1>0 DEF P, Allowed
  <2> QED
    BY <2>2, <2>3
<1>2. RunsOf(P, Program, ret.len, FALSE)
        = {r \in [0 .. ret.len -> State] :
             \A k \in 0 .. ret.len - 1 : Allowed(k, r[k]) /\ Steps(k, r[k], r[k + 1])}
  BY <1>1 DEF RunsOf
<1>3. RunsOf(P, Program, ret.len, TRUE) = Executions
  <2>1. \A r : (\A k \in 0 .. ret.len : Allowed(k, r[k]))
                 <=> (\A k \in 0 .. ret.len - 1 : Allowed(k, r[k])) /\ Allowed(ret.len, r[ret.len])
    BY <1>0
  <2> QED
    BY <1>1, <2>1 DEF RunsOf, Executions
<1> QED
  BY <1>2, <1>3

-----------------------------------------------------------------------------
\* The last call unrolled from frame 0, as every call without a `pos' does.
FromZero == ret # NoCall => ret.pos = 0

(* PathAssn, MonoAssn, MonoIncr and the unroller over z3 return exactly the
   executions from frame 0, whatever the object unrolled before (from any
   frame), for every ILA, sequence, length and set of predicates. *)
THEOREM UnrollAssnExact == Spec => [](FromZero => AssnExact)
<1>1. UnrollerInv => (FromZero => AssnExact)
  <2> SUFFICES ASSUME UnrollerInv, FromZero, Called("Assn"), class # "Switch"
               PROVE  SolutionsAreExecutions
    BY DEF AssnExact
  <2>1. /\ ret # NoCall /\ ret.pos \in {0} /\ ret.len \in Nat
        /\ cstr = UnrollAssn(P, Program, ret.len, ret.pos)
    BY UnrollerAssumption DEF UnrollerInv, Returned, Called, Constraints, FromZero
  <2> QED
    BY <2>1, AssnSolutions, RunsAreExecutions DEF SolutionsAreExecutions
<1> QED
  BY <1>1, UnrollerInvariant, PTL

(* PathSubs and MonoSubs, which keep no inner frames, relate exactly the ends
   of the executions from frame 0. *)
THEOREM UnrollSubsExact == Spec => [](FromZero => SubsExact)
<1>1. UnrollerInv => (FromZero => SubsExact)
  <2> SUFFICES ASSUME UnrollerInv, FromZero, Called("Subs") PROVE SubsExact
    BY DEF SubsExact
  <2>1. /\ ret # NoCall /\ ret.pos \in {0} /\ ret.len \in Nat
        /\ cstr = UnrollSubs(P, Program, ret.len, ret.pos)
    BY UnrollerAssumption DEF UnrollerInv, Returned, Called, Constraints, FromZero
  <2> QED
    <3>1. EndPairs(cstr, SuffCurr(ret.pos), SuffCurr(ret.pos + ret.len))
            = RunPairs(P, Program, ret.len)
      BY <2>1, SubsSolutions
    <3>2. RunsOf(P, Program, ret.len, TRUE) = Executions
      BY <2>1, RunsAreExecutions
    <3> QED
      BY <3>1, <3>2 DEF SubsExact, EndPairs, RunPairs
<1> QED
  BY <1>1, UnrollerInvariant, PTL

(* PathNone and MonoNone, from any frame: once a client connects the .nxt
   symbols with the next frames, the solutions are the executions, except that
   nothing is asserted of the last state. *)
THEOREM UnrollNoneExact == Spec => []NoneExact
<1>1. UnrollerInv => NoneExact
  <2> SUFFICES ASSUME UnrollerInv, Called("None"), ret.len > 0 PROVE NoneExact
    BY DEF NoneExact
  <2>1. /\ ret # NoCall /\ ret.pos \in Int /\ ret.len \in Nat \ {0}
        /\ cstr = UnrollNone(P, Program, ret.len, ret.pos)
    BY UnrollerAssumption DEF UnrollerInv, Returned, Called, Constraints
  <2> QED
    BY <2>1, NoneSolutions, RunsAreExecutions DEF NoneExact
<1> QED
  BY <1>1, UnrollerInvariant, PTL
=============================================================================
