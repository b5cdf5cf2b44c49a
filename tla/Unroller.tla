------------------------------ MODULE Unroller ------------------------------
(***************************************************************************)
(* An unroller object (PathUnroll, MonoUnroll, the PathUnroller of         *)
(* u_unroller_smt.h, or the IlaZ3Unroller of the API) in the hands of a    *)
(* client that adds and clears predicates and unrolls again and again,     *)
(* each time with another sequence, length or starting frame.  The members *)
(* the object carries from one call to the next are variables.             *)
(***************************************************************************)
EXTENDS UnrollOps, Sequences, FiniteSets

CONSTANTS
    Preds,    \* predicates a client may add
    Seqs,     \* instruction sequences a client may unroll
    Tops,     \* ILAs a client may unroll, each given by its instructions
    Poss,     \* starting frames
    MaxLen,   \* bound on the length of an unrolling
    MaxPreds  \* bound on the number of predicates of the object

ASSUME UnrollerAssumption ==
    /\ Preds \subseteq SUBSET State
    /\ Seqs \subseteq {q \in Seq(Instr) : Len(q) <= MaxLen /\ q # <<>>}
    /\ Tops \subseteq SUBSET Instr
    /\ Poss \subseteq Nat
    /\ MaxLen \in Nat /\ MaxPreds \in Nat

VARIABLES
    class,  \* "Path", "Mono", a PathUnroller over z3 ("Smt") or smt-switch ("Switch"),
            \* or IlaZ3Unroller ("Api")
    term_at, \* expr_map_ of SmtSwitchItf: {}, or the frame its terms are about
    g_pred, i_pred, s_pred,
    k_next, \* the transition table of MonoUnroll: {} or one transition
    cstr,   \* cstr_
    ret     \* the last call; it returned the conjunction of cstr

vars == <<class, term_at, g_pred, i_pred, s_pred, k_next, cstr, ret>>
preds == <<g_pred, i_pred, s_pred>>

P == [g |-> g_pred, i |-> i_pred, s |-> s_pred]
NoCall == [mode |-> "none"]

Init ==
    /\ class \in {"Path", "Mono", "Smt", "Switch", "Api"}
    /\ term_at = {}
    /\ g_pred = {}
    /\ i_pred = {}
    /\ s_pred = [k \in 0 .. MaxLen |-> {}]
    /\ k_next = {}
    /\ cstr = {}
    /\ ret = NoCall

PredNum == Cardinality(g_pred) + Cardinality(i_pred)
           + Cardinality({kp \in (0 .. MaxLen) \X Preds : kp[2] \in s_pred[kp[1]]})

\* A call that returns no constraints; an IlaZ3Unroller has no cstr_.
NoReturn ==
    /\ ret' = NoCall
    /\ cstr' = IF class = "Api" THEN {} ELSE cstr

AddGlobPred(p) ==
    /\ PredNum < MaxPreds
    /\ g_pred' = g_pred \cup {p}
    /\ UNCHANGED <<class, term_at, i_pred, s_pred, k_next>> /\ NoReturn

AddInitPred(p) ==
    /\ PredNum < MaxPreds
    /\ i_pred' = i_pred \cup {p}
    /\ UNCHANGED <<class, term_at, g_pred, s_pred, k_next>> /\ NoReturn

\* A later predicate replaces an earlier one.
AddStepPred_Faulty(p, k) ==
    /\ PredNum < MaxPreds
    /\ s_pred' = [s_pred EXCEPT ![k] = p]
    /\ UNCHANGED <<class, term_at, g_pred, i_pred, k_next>> /\ NoReturn

AddStepPred(p, k) ==
    /\ PredNum < MaxPreds
    /\ s_pred' = [s_pred EXCEPT ![k] = @ \cup {p}]
    /\ UNCHANGED <<class, term_at, g_pred, i_pred, k_next>> /\ NoReturn

ClearGlobPred ==
    /\ g_pred' = {}
    /\ UNCHANGED <<class, term_at, i_pred, s_pred, k_next>> /\ NoReturn

ClearInitPred ==
    /\ i_pred' = {}
    /\ UNCHANGED <<class, term_at, g_pred, s_pred, k_next>> /\ NoReturn

ClearStepPred ==
    /\ s_pred' = [k \in 0 .. MaxLen |-> {}]
    /\ UNCHANGED <<class, term_at, g_pred, i_pred, k_next>> /\ NoReturn

ClearPred ==
    /\ class # "Api"
    /\ g_pred' = {} /\ i_pred' = {} /\ s_pred' = [k \in 0 .. MaxLen |-> {}]
    /\ UNCHANGED <<class, term_at, k_next>> /\ NoReturn

-----------------------------------------------------------------------------
\* The member is kept.
BootStrap_Faulty(member, cache) == member

\* BootStrap: what a member that the call is about to fill starts from.
BootStrap(member, cache) == IF cache THEN member ELSE {}

Constraints(mode, prog, len, pos) ==
    CASE mode = "Subs" -> UnrollSubs(P, prog, len, pos)
      [] mode = "Assn" -> UnrollAssn(P, prog, len, pos)
      [] mode = "None" -> UnrollNone(P, prog, len, pos)

\* The source of a call is a sequence ("Path") or an ILA ("Mono").
Return(kind, mode, src, len, pos, C) ==
    /\ cstr' = C
    /\ ret' = [kind |-> kind, mode |-> mode, src |-> src, len |-> len, pos |-> pos]

\* PathSubs, PathAssn and PathNone; Transition stops the program at an
\* instruction without a decode function.
PathUnroll(mode, seq, pos) ==
    LET prog == [k \in 0 .. Len(seq) - 1 |-> PathTransition(seq[k + 1])]
    IN  /\ class = "Path"
        /\ \A k \in 1 .. Len(seq) : seq[k] \notin NoDecode
        /\ Return("Path", mode, seq, Len(seq), pos,
                  BootStrap(cstr, FALSE) \cup Constraints(mode, prog, Len(seq), pos))
        /\ UNCHANGED <<class, term_at, preds, k_next>>

\* GetShimExpr: a request for suffix t.  Z3ExprAdapter clears its map first;
\* SmtSwitchItf keeps the terms it has made, the state variables among them,
\* with the suffix they were made with.
Remember(t) == IF class = "Switch" /\ term_at = {} THEN {t} ELSE term_at
FrameOf(t, cache) == IF cache = {} THEN t ELSE CHOOSE u \in cache : TRUE

\* PathUnroller::Unroll asks for every expression of every step; the first
\* request is about the frame `begin'.
SmtUnroll(seq, begin) ==
    LET prog == [k \in 0 .. Len(seq) - 1 |-> PathTransition(seq[k + 1])]
        cache == Remember(begin)
        named(a) == SuffCurr(FrameOf(a[2], cache))
    IN  /\ class \in {"Smt", "Switch"}
        /\ \A k \in 1 .. Len(seq) : seq[k] \notin NoDecode
        /\ Return("Path", "Assn", seq, Len(seq), begin,
                  {Related(c.rel, named(c.from), named(c.to)) :
                      c \in Unroll_(P, prog, Len(seq), begin)})
        /\ term_at' = cache
        /\ UNCHANGED <<class, preds, k_next>>

\* GetSmtCurrent: a client asks for an expression at frame k.
GetSmtCurrent(k) ==
    /\ class \in {"Smt", "Switch"}
    /\ term_at' = Remember(k)
    /\ UNCHANGED <<class, preds, k_next>> /\ NoReturn

\* SmtSwitchItf::Reset
Reset ==
    /\ class = "Switch"
    /\ term_at' = {}
    /\ UNCHANGED <<class, preds, k_next>> /\ NoReturn

\* MonoSubs, MonoAssn, MonoNone, and MonoIncr, which does not cache.  Transition
\* keeps the table that it finds; a call of length 0 does not build one.
MonoUnroll(mode, top, len, pos) ==
    LET table == BootStrap(k_next, FALSE)
        tran == IF table = {} THEN MonoTransition(top) ELSE CHOOSE t \in table : TRUE
        prog == [k \in 0 .. len - 1 |-> tran]
    IN  /\ class = "Mono"
        /\ k_next' = IF len = 0 THEN table ELSE {tran}
        /\ Return("Mono", mode, top, len, pos,
                  BootStrap(cstr, FALSE) \cup Constraints(mode, prog, len, pos))
        /\ UNCHANGED <<class, term_at, preds>>

\* IlaZ3Unroller: every call makes an unroller of its own, gives it the
\* predicates (InitializeUnroller) and drops it.
UnrollPath(mode, seq, pos) ==
    /\ class = "Api"
    /\ \A k \in 1 .. Len(seq) : seq[k] \notin NoDecode
    /\ Return("Path", mode, seq, Len(seq), pos,
              Constraints(mode, [k \in 0 .. Len(seq) - 1 |-> PathTransition(seq[k + 1])],
                          Len(seq), pos))
    /\ UNCHANGED <<class, term_at, preds, k_next>>

\* UnrollMonoConn and UnrollMonoFree
UnrollMono(mode, top, len, pos) ==
    /\ class = "Api"
    /\ mode \in {"Assn", "None"}
    /\ Return("Mono", mode, top, len, pos,
              Constraints(mode, [k \in 0 .. len - 1 |-> MonoTransition(top)], len, pos))
    /\ UNCHANGED <<class, term_at, preds, k_next>>

Next ==
    \/ \E p \in Preds : AddGlobPred(p) \/ AddInitPred(p)
    \/ \E p \in Preds, k \in 0 .. MaxLen : AddStepPred(p, k)
    \/ ClearGlobPred \/ ClearInitPred \/ ClearStepPred \/ ClearPred
    \/ \E mode \in {"Subs", "Assn", "None"}, seq \in Seqs, pos \in Poss :
          PathUnroll(mode, seq, pos) \/ UnrollPath(mode, seq, pos)
    \/ \E seq \in Seqs, pos \in Poss : SmtUnroll(seq, pos)
    \/ \E mode \in {"Subs", "Assn", "None"}, top \in Tops, len \in 0 .. MaxLen, pos \in Poss :
          MonoUnroll(mode, top, len, pos) \/ UnrollMono(mode, top, len, pos)
    \/ \E k \in 0 .. MaxLen : GetSmtCurrent(k)
    \/ Reset

Spec == Init /\ [][Next]_vars

-----------------------------------------------------------------------------
TypeOK ==
    /\ class \in {"Path", "Mono", "Smt", "Switch", "Api"}
    /\ term_at \in SUBSET (Poss \cup 0 .. MaxLen) /\ Cardinality(term_at) <= 1
    /\ g_pred \in SUBSET Preds
    /\ i_pred \in SUBSET Preds
    /\ s_pred \in [0 .. MaxLen -> SUBSET Preds]
    /\ Cardinality(k_next) <= 1

-----------------------------------------------------------------------------
(* The reference: executions of an instruction sequence, and of an ILA in   *)
(* which any instruction that decodes may fire and nothing changes when     *)
(* none does.  A predicate of the object holds at the k-th state where the  *)
(* documentation of AddGlobPred, AddInitPred and AddStepPred says so.       *)

\* Step k of the last call takes state s to state t.
Steps(k, s, t) ==
    IF ret.kind = "Path"
      THEN LET i == ret.src[k + 1] IN s \in Decode[i] /\ t = Update[i][s]
      ELSE \/ \E i \in ret.src : s \in DecodeCmpl(i) /\ t = Update[i][s]
           \/ s = t /\ \A i \in ret.src : s \notin DecodeCmpl(i)

\* The predicates allow s as the k-th state of the last call; an initial
\* predicate belongs to the first step, so an empty unrolling has none.
Allowed(k, s) ==
    /\ \A p \in g_pred \cup s_pred[k] : s \in p
    /\ k = 0 /\ ret.len > 0 => \A p \in i_pred : s \in p

Executions ==
    {r \in [0 .. ret.len -> State] :
       /\ \A k \in 0 .. ret.len : Allowed(k, r[k])
       /\ \A k \in 0 .. ret.len - 1 : Steps(k, r[k], r[k + 1])}

Frames(lo, hi) == {SuffCurr(t) : t \in lo .. hi}
Called(mode) == ret # NoCall /\ ret.mode = mode

\* The values of the frames from pos to pos + len in the solutions are exactly
\* the executions.
SolutionsAreExecutions ==
    {[k \in 0 .. ret.len |-> e[SuffCurr(ret.pos + k)]] :
        e \in Solutions(cstr, Frames(ret.pos, ret.pos + ret.len))}
    = Executions

\* PathAssn, MonoAssn, MonoIncr and the PathUnroller over z3 return exactly the
\* executions, whatever the object unrolled before.
AssnExact == Called("Assn") /\ class # "Switch" => SolutionsAreExecutions

\* The same of the PathUnroller over smt-switch, whose suffix stands for the
\* "time step" of each generated expression (smt_switch_itf.h).
SwitchExact == Called("Assn") /\ class = "Switch" => SolutionsAreExecutions

\* PathSubs and MonoSubs keep no inner frames; the first and the last frame
\* are the ends of the executions.
SubsExact ==
    Called("Subs") =>
      {<<e[SuffCurr(ret.pos)], e[SuffCurr(ret.pos + ret.len)]>> :
          e \in Solutions(cstr, {SuffCurr(ret.pos), SuffCurr(ret.pos + ret.len)})}
      = {<<r[0], r[ret.len]>> : r \in Executions}

\* PathNone and MonoNone: once a client connects the symbols var.nxt of each
\* frame with the next frame, the solutions are the executions, except that
\* nothing is asserted of the last state.
NoneExact ==
    Called("None") /\ ret.len > 0 =>
      {[k \in 0 .. ret.len |-> IF k = ret.len THEN e[SuffNext(ret.pos + k - 1)]
                               ELSE e[SuffCurr(ret.pos + k)]] :
          e \in {f \in Solutions(cstr, {}) : \A k \in 1 .. ret.len - 1 :
                   f[SuffNext(ret.pos + k - 1)] = f[SuffCurr(ret.pos + k)]}}
      = {r \in [0 .. ret.len -> State] :
           \A k \in 0 .. ret.len - 1 : Allowed(k, r[k]) /\ Steps(k, r[k], r[k + 1])}
=============================================================================
