----------------------------- MODULE SimKernel -----------------------------
(***************************************************************************)
(* The function compute() that Ilator and IlaSim generate.  K is the state *)
(* of the simulator: registers s, memory mem, inputs in, and, with an      *)
(* external memory, for every instruction its store map, how much of it    *)
(* was sent, and the control and the data of its load.  "ilator", "sim"    *)
(* and "ext" (IlaSim with an external memory) are the three kernels.       *)
(***************************************************************************)
EXTENDS Design

Instrs(d) == d.top \o d.kid
HostValid(d, i, s) == IF i <= Len(d.top) THEN s \in d.valid ELSE s \in d.kvalid

(* std::map mem_update_map, filled from the innermost store to the outermost. *)
StoreMap(st) ==
  [a \in AddressesOf(st) |->
    LET first == CHOOSE n \in DOMAIN st : st[n][1] = a /\ \A m \in 1..(n - 1) : st[m][1] # a
    IN  st[first][2]]
MapSize(m) == Cardinality(DOMAIN m)
NthKey(m, n) == CHOOSE a \in DOMAIN m : Cardinality({b \in DOMAIN m : b < a}) = n
CommitMap(mem, m) == [a \in DOMAIN mem |-> IF a \in DOMAIN m THEN m[a] ELSE mem[a]]

(* The members of the generated class; _ctrl and _iter are never initialised:
   junk is what they hold. *)
Kernel(d, s, mem, junk) ==
  LET all(v) == [i \in DOMAIN Instrs(d) |-> v]
  IN  [s |-> s, mem |-> mem, in |-> 0, booted |-> FALSE, hung |-> FALSE, fired |-> 0,
       maps |-> all(<<>>), iter |-> all(junk), ctrl |-> all(junk), data |-> all(0)]

(* execute_instruction: the update functions see the old state, then registers
   and memory are committed. *)
RunInternal(K, ins) ==
  [K EXCEPT !.s = Updated(ins, K.s, LoadedData(ins, K.mem)),
            !.mem = CommitMap(@, StoreMap(StoresOf(ins, K.s)))]

(* With an external memory the store map is left to be sent, and the registers
   wait for the load: its control goes to 1 here, to 2 when the data is there. *)
LoadControl(K, i, ins) == IF ins.ld # NoLoad /\ K.ctrl[i] = 0 THEN 1 ELSE K.ctrl[i]
RunExternal(K, i, ins) ==
  LET L == [K EXCEPT !.ctrl[i] = LoadControl(K, i, ins),
                     !.maps[i] = IF HasStore(ins) THEN StoreMap(ins.st[K.s]) ELSE @]
  IN  IF L.ctrl[i] = 1 /\ ins.ld # NoLoad THEN L
      ELSE [L EXCEPT !.s = Updated(ins, K.s, K.data[i])]
Commits(kind, K, i, ins) == kind # "ext" \/ ins.ld = NoLoad \/ LoadControl(K, i, ins) # 1

(* if (valid && decode) { ... schedule_counter++ for a child }.  IlaSim leaves
   out an instruction without updates, Ilator does not. *)
Skipped(kind, ins) == kind # "ilator" /\ ~HasUpdate(ins) /\ ~HasStore(ins)
RunInstr(d, kind, K, i) ==
  LET ins == Instrs(d)[i]
      L == IF kind = "ext" THEN RunExternal(K, i, ins) ELSE RunInternal(K, ins)
  IN  IF Skipped(kind, ins) \/ ~HostValid(d, i, K.s) \/ ~Decodes(ins, K.s, K.in) THEN K
      ELSE [L EXCEPT !.fired = IF Commits(kind, K, i, ins) THEN @ + 1 ELSE @]
RunAll(d, kind, K, is) ==
  LET run[n \in 0..Len(is)] ==
        IF n = 0 THEN K ELSE RunInstr(d, kind, run[n - 1], is[n])
  IN  run[Len(is)]

TopOrder(d) == [n \in DOMAIN d.top |-> n]
KidOrder(d) == [n \in DOMAIN d.kid |-> Len(d.top) + n]

(* setup_initial_condition of Ilator, in the first compute only. *)
Bootstrapped(d, kind, K) ==
  [(IF kind = "ilator" /\ ~K.booted THEN StartChild(d, K) ELSE K) EXCEPT !.booted = TRUE]

(* execute_init of IlaSim: a valid child is initialised in every compute, after
   the instructions of the parent. *)
InitChild(d, kind, K) ==
  IF kind # "ilator" /\ K.s \in d.kvalid THEN StartChild(d, K) ELSE K

(* while (1) over the instructions of the children, until none was executed;
   the loop is followed for bound passes. *)
OnePass(d, kind, K) == RunAll(d, kind, [K EXCEPT !.fired = 0], KidOrder(d))
ChildLoop(d, kind, K, bound) ==
  LET pass[n \in 0..bound] ==
        IF n = 0 THEN OnePass(d, kind, K)
        ELSE LET L == pass[n - 1] IN IF L.fired = 0 THEN L ELSE OnePass(d, kind, L)
      last == pass[bound]
  IN  IF last.fired = 0 THEN last ELSE [last EXCEPT !.hung = TRUE, !.fired = 0]

RunBody(d, kind, K, bound) ==
  ChildLoop(d, kind, InitChild(d, kind, RunAll(d, kind, K, TopOrder(d))), bound)

-----------------------------------------------------------------------------
(* The external memory: stores and loads of the instructions. *)
Storing(d) == {i \in DOMAIN Instrs(d) : HasStore(Instrs(d)[i])}
Loading(d) == {i \in DOMAIN Instrs(d) : Instrs(d)[i].ld # NoLoad}
Unsent(d, K) == {i \in Storing(d) : K.iter[i] < MapSize(K.maps[i])}
Waiting(d, K) == {i \in Loading(d) : K.ctrl[i] = 1}
LeastOf(is) == CHOOSE i \in is : \A j \in is : i <= j

(* execute_write_external_mem: the entry of the first map that is not sent. *)
WriteRequest(d, K) ==
  LET i == LeastOf(Unsent(d, K))
      a == NthKey(K.maps[i], K.iter[i])
  IN  <<a, K.maps[i][a]>>
EntrySent(d, K) == [K EXCEPT !.iter[LeastOf(Unsent(d, K))] = @ + 1]

(* execute_read_external_mem: every load that waits takes the valid data. *)
ReadRequest(d, K) == Instrs(d)[LeastOf(Waiting(d, K))].ld
Received(d, K, v) ==
  [K EXCEPT !.ctrl = [i \in DOMAIN @ |-> IF i \in Waiting(d, K) THEN 2 ELSE @[i]],
            !.data = [i \in DOMAIN @ |-> IF i \in Waiting(d, K) THEN v ELSE @[i]]]
FreshInputs(d, K) == \A i \in Loading(d) : K.ctrl[i] = 0

(* execute_external_mem_return: if every store function has entries to send, or
   a load waits, the call returns; otherwise all is cleared.
   Mutant: a load that waits does not keep the call open. *)
Cleared(K) ==
  [K EXCEPT !.ctrl = [i \in DOMAIN @ |-> 0], !.iter = [i \in DOMAIN @ |-> 0],
            !.maps = [i \in DOMAIN @ |-> <<>>]]
ExtReturn_Faulty(d, K) == IF Unsent(d, K) = Storing(d) THEN K ELSE Cleared(K)
ExtReturn(d, K) ==
  IF Unsent(d, K) = Storing(d) \/ Waiting(d, K) # {} THEN K ELSE Cleared(K)
=============================================================================
