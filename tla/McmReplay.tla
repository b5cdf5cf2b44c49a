----------------------------- MODULE McmReplay ------------------------------
(***************************************************************************)
(* The converse of ScMachine and TsoMachine.  An initial state is any      *)
(* solution of the constraints, as CheckSat may return it, with time       *)
(* stamps up to MaxTime.  The steps replay the events of the solution in   *)
(* the order of their time stamps (see Precedes for equal time stamps)     *)
(* on a machine with a memory and, for TSO, store buffers, and collect in  *)
(* `refused' what the machine would not have done.  Solutions that cannot  *)
(* be replayed are outcomes ILAng would report although no machine shows   *)
(* them.                                                                   *)
(***************************************************************************)
EXTENDS MemoryModel

CONSTANTS
    Models,   \* the memory models that may be selected: "SC", "TSO"
    MaxTime   \* bound on the time stamps of a solution

ASSUME ModelAssumption == Models \subseteq {"SC", "TSO"} /\ MaxTime \in Nat

\* A fence does not go through the buffer itself.  (An instruction named FENCE
\* that also stores would have to wait for stores of its own core with its own
\* time stamp, and TSO_Fence only makes it wait for those with smaller ones.)
ASSUME FenceAssumption == FENCE_list \cap PureWrite_list = {}

VARIABLES
    model,           \* the model mm_selector made
    ts, g, dec, rf,  \* the solution
    mem,             \* the write whose data the shared memory holds
    happened,        \* the events replayed so far
    refused          \* events and reads that the machine would not have done

solution == <<model, ts, g, dec, rf>>
vars == <<model, ts, g, dec, rf, mem, happened, refused>>

Stores == PureWrite_list \cup RMW_list
Buffered == IF model = "TSO" THEN PureWrite_list ELSE {}

\* The events of an execution: the steps, and the facet events of the stores
\* that go through a buffer.
Events == ((Inst \cup {FinalStep}) \X {"local"}) \cup (Buffered \X {"global"})
Time(e) == IF e[2] = "local" THEN ts[e[1]] ELSE g[e[1]]

ReadsFrom(p, w) == IF model = "TSO" THEN TsoReadsFrom(ts, g, dec, p, w)
                   ELSE ScReadsFrom(ts, dec, p, w)
Axioms == IF model = "TSO" THEN TsoAxioms(ts, g, dec, rf) ELSE ScAxioms(ts, dec, rf)

Stampings ==
    {t \in {[x \in Steps |-> IF x = InitStep THEN 0 ELSE u[x]] :
              u \in [Inst \cup {FinalStep} -> 1 .. MaxTime]} :
       ProgramOrder(t) /\ FinalOrder(t)}
\* Only the decode of a write matters.
Decodings == {d \in [Steps -> BOOLEAN] : d[InitStep] /\ \A x \in Steps \ Stores : d[x]}

\* CheckSat: any solution.  SC has no facet events.  (The conjuncts before Axioms
\* are parts of it, for the model checker to drop candidates early.)
Init ==
    /\ model \in Models
    /\ ts \in Stampings
    /\ IF model = "TSO"
         THEN g \in {h \in [Stores -> 1 .. MaxTime] :
                       /\ TSO_WriteFacetOrder(ts, h) /\ TSO_RMW(ts, h)
                       /\ TSO_Store(ts, h) /\ TSO_Fence(ts, h)}
         ELSE g = [w \in Stores |-> ts[w]]
    /\ dec \in Decodings
    /\ LET src == [p \in Reads |-> {w \in Writers(p[1], p[2]) : ReadsFrom(p, w)}]
       IN  /\ \A p \in Reads : src[p] # {}
           /\ rf \in {f \in [Reads -> UNION {src[p] : p \in Reads}] :
                        \A p \in Reads : f[p] \in src[p]}
    /\ Axioms
    /\ mem = [s \in Shared |-> InitStep]
    /\ happened = {}
    /\ refused = {}

\* No template is looked at.
Idle ==
    /\ model = CHOOSE m \in Models : TRUE
    /\ ts = [i \in Steps |-> 0]
    /\ g = [w \in Stores |-> 0]
    /\ dec = [i \in Steps |-> TRUE]
    /\ rf = [p \in Reads |-> InitStep]
    /\ mem = [s \in Shared |-> InitStep]
    /\ happened = {}
    /\ refused = {}

Pending(c) == {w \in Buffered : /\ CoreOf[w] = c
                                /\ <<w, "local">> \in happened
                                /\ <<w, "global">> \notin happened}
Forwardable(c, s) == {w \in Pending(c) : dec[w] /\ s \in InstWrite[w]}

\* What the machine lets step r read from s: the youngest of its own buffered
\* stores (any of them, if their time stamps agree), else the memory.
Answers(r, s) ==
    LET own == Forwardable(Host(r), s)
    IN  IF own = {} THEN {mem[s]} ELSE {w \in own : \A v \in own : ts[v] <= ts[w]}

WriteBack(w) == [s \in Shared |-> IF dec[w] /\ s \in InstWrite[w] THEN w ELSE mem[s]]

\* Events with equal time stamps go in any order, but a step that waits for the
\* buffer goes before the other steps of its core: it waits for those with
\* smaller time stamps only.
Waits(e) == e[2] = "local" /\ e[1] \in FENCE_list \cup RMW_list
Precedes(e, f) ==
    \/ Time(e) < Time(f)
    \/ Time(e) = Time(f) /\ SameCore(e[1], f[1]) /\ Waits(e) /\ ~ Waits(f)
Earliest(e) == /\ e \in Events \ happened
               /\ \A f \in Events \ happened : ~ Precedes(f, e)

ReplayLocal(i) ==
    /\ i \in Inst \cup {FinalStep} /\ Earliest(<<i, "local">>)
    /\ happened' = happened \cup {<<i, "local">>}
    /\ refused' = refused
         \cup {p \in Reads : p[1] = i /\ rf[p] \notin Answers(i, p[2])}
         \cup (IF i \in FENCE_list \cup RMW_list /\ Pending(CoreOf[i]) # {}
                 THEN {<<i, "local">>} ELSE {})
    /\ mem' = IF i \in Stores \ Buffered THEN WriteBack(i) ELSE mem
    /\ UNCHANGED solution

ReplayGlobal(w) ==
    /\ w \in Buffered /\ Earliest(<<w, "global">>)
    /\ happened' = happened \cup {<<w, "global">>}
    /\ refused' = IF \A v \in Pending(CoreOf[w]) : ts[w] <= ts[v]
                    THEN refused ELSE refused \cup {<<w, "global">>}
    /\ mem' = WriteBack(w)
    /\ UNCHANGED solution

Terminated == happened = Events /\ UNCHANGED vars

Next ==
    \/ \E i \in Inst \cup {FinalStep} : ReplayLocal(i)
    \/ \E w \in PureWrite_list : ReplayGlobal(w)
    \/ Terminated

Spec == Init /\ [][Next]_vars

-----------------------------------------------------------------------------
\* Every solution of the constraints can be run: with the steps taken in the
\* order of the time stamps, each read finds the data the solution gives it,
\* fences and read-modify-writes find an empty buffer, and the buffers are
\* emptied in order.  The time stamps need not be distinct.
Replayable == refused = {}
=============================================================================
