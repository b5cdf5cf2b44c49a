----------------------------- MODULE VlgModule -----------------------------
(***************************************************************************)
(* The Verilog module that VerilogGenerator writes, as the registers and   *)
(* the memory after one rising clock edge.  w is what the module sees at   *)
(* the edge: rst, start, in, grant (the set of granted instructions),      *)
(* randinit (the free wires <reg>_randinit) and junk (what is read from or *)
(* left in a memory that has no such element).  c is the configuration: mode     *)
(* "ila" (ExportIla) or "instr" (ExportTopLevelInstr of the first          *)
(* instruction), start, ext and rand.                                      *)
(***************************************************************************)
EXTENDS Design

Modes == {"ila", "instr"}
Exported(d, c) == IF c.mode = "ila" THEN DOMAIN d.top ELSE {1}
DecodedBy(d, c, s, in) == Enabled(d.top, s, in) \cap Exported(d, c)
FirstOf(is) == CHOOSE i \in is : \A j \in is : i <= j
LastOf(is) == CHOOSE i \in is : \A j \in is : i >= j

(* WidthToRange(1) is empty.  The grant and decode ports of a single instruction
   are scalars that the text still indexes with [0]: no module elaborates. *)
Elaborates(d, c) == c.mode = "ila" => Len(d.top) > 1

(* else if (start && valid): the guard of everything but the reset. *)
Active(d, c, s, w) == ~w.rst /\ (c.start => w.start) /\ s \in d.valid

(* An internal memory of one entry is declared as a plain register, so that
   mem[a] selects a bit of it; an entry beyond the declared ones does not exist. *)
IsArray(d, c) == c.ext \/ d.size > 1
HasElement(d, c, a) == IsArray(d, c) /\ a < d.size
ReadElement(d, c, mem, a, junk) == IF HasElement(d, c, a) THEN mem[a] ELSE junk

(* ExportIla: of the instructions that decode and are granted, the first that
   updates a register gives its value; ExportTopLevelInstr needs no grant. *)
WritersOf(d, c, s, w, reg) ==
  {i \in DecodedBy(d, c, s, w.in) :
     /\ c.mode = "ila" => i \in w.grant
     /\ IF reg = 1 THEN HasUpdate(d.top[i]) ELSE d.top[i].to # <<>>}
RegNext(d, c, x, w, reg) ==
  LET on == WritersOf(d, c, x.s, w, reg)
      ins == d.top[FirstOf(on)]
      v == IF ins.ld = NoLoad THEN 0 ELSE ReadElement(d, c, x.mem, ins.ld, w.junk)
  IN  IF on = {} THEN x.s[reg] ELSE Updated(ins, x.s, v)[reg]

(* The memory update is ITE(decode_n, update_n, ... ITE(decode_1, update_1, mem)):
   the last instruction that decodes and stores gives the write ports, the
   outermost store on port 0.  The grant is not asked. *)
WritePorts(d, c, s, in) ==
  LET on == {i \in DecodedBy(d, c, s, in) : HasStore(d.top[i])}
  IN  IF on = {} THEN <<>> ELSE d.top[LastOf(on)].st[s]

(* One non-blocking assignment for each port, in the order of the ports: the
   last one to an element holds; in a plain register each sets some bit.
   Mutant: the start signal is not asked. *)
PortsWritten(d, c, mem, ports, junk) ==
  LET after[n \in 0..Len(ports)] ==
        IF n = 0 THEN mem
        ELSE LET p == ports[n] m == after[n - 1]
             IN  IF HasElement(d, c, p[1]) THEN [m EXCEPT ![p[1]] = p[2]]
                 ELSE IF IsArray(d, c) THEN m ELSE [m EXCEPT ![0] = junk]
  IN  after[Len(ports)]
WriteEnable_Faulty(c, w, active) == c.ext \/ active
WriteEnable(c, w, active) == IF c.ext THEN (c.start => w.start) ELSE active

(* always @(posedge clk) if (rst) ... else if (...) ...  An external memory
   sees the write ports whatever rst and valid are. *)
MemNext(d, c, x, w) ==
  IF WriteEnable(c, w, Active(d, c, x.s, w))
  THEN PortsWritten(d, c, x.mem, WritePorts(d, c, x.s, w.in), w.junk) ELSE x.mem
RegsNext(d, c, x, w) ==
  IF w.rst THEN (IF c.rand THEN w.randinit ELSE x.s)
  ELSE IF Active(d, c, x.s, w)
       THEN <<RegNext(d, c, x, w, 1), RegNext(d, c, x, w, 2)>> ELSE x.s
EdgeOf(d, c, x, w) == [s |-> RegsNext(d, c, x, w), mem |-> MemNext(d, c, x, w)]

(* addInternalCounter: 1 at a decode, then one more at every active edge up to
   the largest value of its width.  Mutant: the reset leaves it. *)
CounterMax(width) ==
  LET power[n \in 0..width] == IF n = 0 THEN 1 ELSE 2 * power[n - 1] IN power[width] - 1
CounterStep(cnt, decode, width) ==
  IF decode THEN 1 ELSE IF cnt >= 1 /\ cnt < CounterMax(width) THEN cnt + 1 ELSE cnt
CounterNext_Faulty(d, c, s, w, cnt, width) ==
  IF Active(d, c, s, w) THEN CounterStep(cnt, Decodes(d.top[1], s, w.in), width) ELSE cnt
CounterNext(d, c, s, w, cnt, width) ==
  IF w.rst THEN 0
  ELSE IF Active(d, c, s, w) THEN CounterStep(cnt, Decodes(d.top[1], s, w.in), width)
  ELSE cnt

(* The edges at which the module is a faithful step of the ILA: one
   instruction decodes, a store is granted and not hidden by another of the
   same address, every element exists, and an external memory is not written
   while the module is inactive. *)
FaithfulEdge(d, c, s, w) ==
  LET on == DecodedBy(d, c, s, w.in)
      ports == WritePorts(d, c, s, w.in)
  IN  /\ Cardinality(on) <= 1
      /\ \A i \in on : d.top[i].ld = NoLoad \/ HasElement(d, c, d.top[i].ld)
      /\ ports # <<>> =>
           /\ c.mode = "ila" => on \subseteq w.grant
           /\ DistinctAddresses(ports)
           /\ \A a \in AddressesOf(ports) : HasElement(d, c, a)
           /\ c.ext /\ (c.start => w.start) => ~w.rst /\ s \in d.valid
=============================================================================
