----------------------------- MODULE TargetRun -----------------------------
(***************************************************************************)
(* One generated program, a SystemC simulator or a Verilog module, driven  *)
(* by an arbitrary test bench next to the ILA it was generated from.  ref  *)
(* is the state of the ILA, and faithful says that no step so far had one  *)
(* of the shapes the generators do not support.                            *)
(***************************************************************************)
EXTENDS SimKernel, VlgModule

CONSTANTS Designs,     \* the designs to generate from
          Targets,     \* [kind, mode, start, ext, rand]
          Data, Addrs, \* values of a register, an input and an element; addresses
          ChildBound,  \* passes of a child loop that are followed
          Width        \* width of the internal counter (8 in the code)

ASSUME BoundsAssumption == ChildBound \in Nat /\ Width \in Nat \ {0}

(* What the generators are given: updates and stores of the right sorts. *)
Regs == Data \X Data
Instructions ==
  [dec : SUBSET (Data \X Data \X Data), to : {<<>>} \cup [Regs -> Regs],
   ld : {NoLoad} \cup Addrs, st : {<<>>} \cup [Regs -> Seq(Addrs \X Data)]]
ASSUME DesignAssumption ==
  /\ 0 \in Data /\ 0 \in Addrs /\ Addrs \subseteq Nat
  /\ Designs \subseteq [top : Seq(Instructions) \ {<<>>}, kid : Seq(Instructions),
                       init : BOOLEAN, valid : SUBSET Regs, kvalid : SUBSET Regs,
                       size : Nat]
  /\ \A d \in Designs : d.kid = <<>> => ~ d.init
  /\ Targets \subseteq [kind : {"ilator", "sim", "ext", "vlg"}, mode : Modes,
                       start : BOOLEAN, ext : BOOLEAN, rand : BOOLEAN]

VARIABLES design, target,
          k,        \* the registers, the memory and the bookkeeping of the program
          bus,      \* the read port of the simulator: <<ready, address>>
          ref, faithful,
          cnt, since
vars == <<design, target, k, bus, ref, faithful, cnt, since>>

(* With an external memory the generated return condition needs a store and a
   load (pop_back of an empty string otherwise); ExportIla takes a flat ILA, and
   what it writes has to be a module at all. *)
Supports(t, d) ==
  /\ t.kind = "ext" => Storing(d) # {} /\ Loading(d) # {}
  /\ t.kind = "vlg" => d.kid = <<>> /\ Elaborates(d, t)
  /\ t.kind # "vlg" => d.size = Cardinality(Addrs)

Init ==
  /\ design \in Designs /\ target \in Targets
  /\ Supports(target, design)
  /\ \E s \in Regs, junk \in {0, 1} :
       LET mem == [a \in Addrs |-> 0] IN
       /\ junk = 1 => target.kind = "ext"
       /\ k = Kernel(design, s, mem, junk)
       /\ ref = [s |-> s, mem |-> mem]
       /\ faithful = (junk = 0)
  /\ bus = <<FALSE, 0>>
  /\ cnt = 0 /\ since = 0

-----------------------------------------------------------------------------
(* The reference: the instruction that decodes, then the child.  IlaSim starts
   a valid child anew in every step, Ilator once and for all. *)
IlaStep(d, kind, x, first, in) ==
  LET y == TopStep(d, IF kind = "ilator" /\ first THEN StartChild(d, x) ELSE x, in)
      z == IF kind # "ilator" /\ y.s \in d.kvalid THEN StartChild(d, y) ELSE y
  IN  ChildRun(d, z, in, ChildBound)

(* The steps the simulators support: one instruction decodes and enables no
   later one, the child is deterministic, stops, and an instruction without
   updates does not keep Ilator in its loop. *)
NoLaterInstr(d, x, in) ==
  LET y == TopStep(d, x, in)
  IN  \A i \in TopOn(d, x.s, in), j \in TopOn(d, y.s, in) : j <= i
ChildEnds(d, kind, x, first, in) == KidOn(d, IlaStep(d, kind, x, first, in).s, in) = {}
SupportedStep(d, kind, x, first, in) ==
  LET x0 == IF kind = "ilator" /\ first THEN StartChild(d, x) ELSE x
  IN  /\ OneHot(d.top, x0.s, in) /\ NoLaterInstr(d, x0, in)
      /\ \A s \in Regs : OneHot(d.kid, s, in)
      /\ ChildEnds(d, kind, x, first, in)

(* With an external memory also: one instruction of the design stores, the last
   store was cleared before the next one, a load has no child beside it and is
   not of what the instruction stores, and the child leaves the memory alone. *)
SupportedMemory(d, K, in) ==
  /\ \A j \in DOMAIN d.kid : ~HasStore(d.kid[j]) /\ d.kid[j].ld = NoLoad
  /\ \A i \in TopOn(d, K.s, in) :
    LET st == StoresOf(d.top[i], K.s)
    IN  /\ st # <<>> => Cardinality(Storing(d)) = 1 /\ \A j \in Storing(d) : K.iter[j] = 0
        /\ d.top[i].ld # NoLoad => d.kid = <<>> /\ d.top[i].ld \notin AddressesOf(st)

StartStep(in) ==
  /\ ref' = IlaStep(design, target.kind, ref, ~k.booted, in)
  /\ faithful' = (faithful /\ SupportedStep(design, target.kind, ref, ~k.booted, in)
                  /\ (target.kind = "ext" => SupportedMemory(design, k, in)))

-----------------------------------------------------------------------------
(* compute() with internal memories: a step of the ILA in every call. *)
Compute(in) ==
  /\ target.kind \in {"ilator", "sim"} /\ ~k.hung
  /\ k' = RunBody(design, target.kind,
                  [Bootstrapped(design, target.kind, k) EXCEPT !.in = in], ChildBound)
  /\ StartStep(in)
  /\ UNCHANGED <<design, target, bus, cnt, since>>

(* compute() with an external memory, while an entry is to be sent: it is put
   on the port and the call returns. *)
ComputeSends(ready) ==
  /\ target.kind = "ext" /\ ~k.hung /\ Unsent(design, k) # {}
  /\ k' = IF ready
          THEN [EntrySent(design, k) EXCEPT !.mem =
                  [@ EXCEPT ![WriteRequest(design, k)[1]] = WriteRequest(design, k)[2]]]
          ELSE k
  /\ UNCHANGED <<design, target, bus, ref, faithful, cnt, since>>

(* ... while a load waits and the data is not valid: the address is put on the
   port and the call returns. *)
ComputeAwaits ==
  /\ target.kind = "ext" /\ ~k.hung
  /\ Unsent(design, k) = {} /\ Waiting(design, k) # {}
  /\ bus' = <<TRUE, ReadRequest(design, k)>>
  /\ UNCHANGED <<design, target, k, ref, faithful, cnt, since>>

(* ... otherwise: the inputs are read unless a load is under way, and the
   instructions run.  The memory answers a request that is on the port. *)
ComputeRuns(in) ==
  /\ target.kind = "ext" /\ ~k.hung /\ Unsent(design, k) = {}
  /\ Waiting(design, k) # {} => bus[1]
  /\ LET K == IF Waiting(design, k) = {} THEN k ELSE Received(design, k, k.mem[bus[2]])
         fresh == FreshInputs(design, K)
         L == RunBody(design, "ext",
                [K EXCEPT !.in = IF fresh THEN in ELSE @, !.booted = TRUE], ChildBound)
     IN  /\ k' = IF L.hung THEN L ELSE ExtReturn(design, L)
         /\ IF fresh THEN StartStep(in) ELSE UNCHANGED <<ref, faithful>>
  /\ bus' = <<Waiting(design, k) = {} /\ bus[1], bus[2]>>
  /\ UNCHANGED <<design, target, cnt, since>>

(* A rising clock edge of the Verilog module; the ILA takes a step when it is
   valid and its instruction is granted. *)
Edge(w) ==
  /\ target.kind = "vlg"
  /\ LET on == {i \in TopOn(design, ref.s, w.in) \cap Exported(design, target) :
                  target.mode = "ila" => i \in w.grant}
         steps == ~w.rst /\ (target.start => w.start) /\ on # {}
     IN  /\ k' = [k EXCEPT !.s = EdgeOf(design, target, k, w).s,
                           !.mem = EdgeOf(design, target, k, w).mem]
         /\ ref' = IF steps THEN Execute(design.top[Only(on)], ref)
                   ELSE IF w.rst /\ target.rand THEN [ref EXCEPT !.s = w.randinit] ELSE ref
  /\ faithful' = (faithful /\ FaithfulEdge(design, target, k.s, w))
  /\ IF target.mode = "ila" THEN UNCHANGED <<cnt, since>>
     ELSE /\ cnt' = CounterNext(design, target, k.s, w, cnt, Width)
          /\ since' = IF w.rst THEN 0
                      ELSE IF ~((target.start => w.start) /\ k.s \in design.valid) THEN since
                      ELSE IF Decodes(design.top[1], k.s, w.in) THEN 1
                      ELSE IF since > 0 /\ since <= CounterMax(Width) THEN since + 1 ELSE since
  /\ UNCHANGED <<design, target, bus>>

Edges ==
  {w \in [rst : BOOLEAN, start : BOOLEAN, in : Data, grant : SUBSET (DOMAIN design.top),
          randinit : {<<v, v>> : v \in Data}, junk : Data] :
     (target.start \/ w.start) /\ (w.rst \/ w.randinit = <<0, 0>>)}
Next ==
  \/ \E in \in Data : Compute(in)
  \/ \E ready \in BOOLEAN : ComputeSends(ready)
  \/ ComputeAwaits
  \/ \E in \in Data : ComputeRuns(in)
  \/ \E w \in Edges : Edge(w)
Spec == Init /\ [][Next]_vars

-----------------------------------------------------------------------------
(* Nothing of a step is under way. *)
Quiescent == Unsent(design, k) = {} /\ Waiting(design, k) = {}

(* compute() of Ilator and of IlaSim: as long as every step had a supported
   shape, the simulator never stays in its child loop, and once stores are
   sent and loads are answered, in whatever order and with whatever delay the
   memory takes them, registers and memory are those of the ILA. *)
SimExact ==
  target.kind # "vlg" /\ faithful =>
    ~k.hung /\ (Quiescent => k.s = ref.s /\ k.mem = ref.mem)

(* VerilogGenerator: as long as every edge had a supported shape, whatever
   reset, start, grants and configuration are, the registers and the memory of
   the module are those of the ILA that steps when it is valid and granted. *)
VlgExact == target.kind = "vlg" /\ faithful => k.s = ref.s /\ k.mem = ref.mem

(* addInternalCounter: the counter is the number of active edges since the
   instruction last decoded, 0 before, and stays at its largest value instead
   of coming back to the value that says "just decoded" or "never". *)
CounterExact ==
  cnt = IF since > CounterMax(Width) THEN CounterMax(Width) ELSE since
=============================================================================
