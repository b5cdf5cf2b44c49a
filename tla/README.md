# ILAng in TLA+

This directory specifies and checks the reasoning core of ILAng, a C++ library
for instruction-level abstractions (ILAs) of processors and accelerators. An
ILA has state variables, inputs, and instructions with a decode condition and
state updates; ILAs form hierarchies. ILAng builds ILAs, copies and rewrites
them, turns them into solver constraints ("these two models are equivalent",
"this program outcome is impossible"), and generates Verilog and SystemC from
them. A constraint too many hides a bug, one too few raises a false alarm, a
generated model that differs from its ILA in one operator or one cycle misleads
every later proof, and none of this shows in a unit test with one program and
one outcome.

The library is sequential, apart from the child processes it starts. What is
hard in it is: the interleavings its constraints describe (cores, store
buffers), the state that solver, unroller and rewriter objects carry from one
call to the next, the many back ends that must mean the same by an expression,
the protocols of the generated programs, and the parent, the child and the alarm
of an external tool.

## Inventory

| Part (source) | State | Operations | What makes it correct | Modules |
|---|---|---|---|---|
| Memory models (`mcm/memory_model.cc`, `tso_manual.cc`, `sc_manual.cc`, `axiom_helper.cc`) | trace steps, read and write sets, instruction sets, constraints | RegisterSteps, FinishRegisterSteps, SetFinalProperty, ApplyAxioms, SetLocalState, SameAddress, SameData | solutions are exactly the executions of an SC or TSO machine; private reads see the latest definition, loads the latest store | MemoryModel, ScMachine, TsoMachine, McmReplay, LocalState, AddrData |
| InterIlaUnroller (`mcm/inter_ila_unroller.cc`) | constraint list, stack of positions, last model | GenSysInitConstraints, Unroll, properties, LinkStates, Push, Pop, CheckSat | no variable of a property stays unconstrained; the stack fits the list | InterIla |
| Unrollers (`u_unroller.cc`, `u_unroller_smt.cc`, `IlaZ3Unroller`) | predicates, transition table, constraints, the solver interface's terms | Add/Clear predicates, Path/Mono × Subs/Assn/None/Incr | solutions are exactly the executions under the predicates, also on the object's tenth use | UnrollOps, Unroller |
| Equivalence checking (`v_eq_check_crr.cc`, `v_refinement.cc`) | two refinements, a relation, a solver with push/pop | EqCheck, IncEqCheck, IncCheck | true if and only if the diagram commutes | CommDiag |
| ILA core and API (`src/src/ila`, `ilang++.cc`) | hierarchies, name tables, instructions | NewState, NewInput, NewInstr, NewChild, SetFetch, SetValid, SetDecode, SetUpdate, SetProgram, AddInit, AddSeqTran | names resolve uniquely, later calls do not disturb earlier definitions | IlaCore, IlaClient |
| AbsKnob, JSON (`u_abs_knob.cc`, `u_rewrite_ila.cc`, `target-json`) | maps from old to new objects | CopyIlaTree, FlattenIla, ExtrDeptModl, save and load | the copy is the original over variables of its own | AbsKnob, IlaClient |
| Expressions (`ast_hub.cc`, `ilang++.cc`, `hash_ast.cc`, `u_rewrite_expr.cc`, `p_*.cc`) | shared nodes, the flag UnsignedComparison | the API operators, ExprMngr, rewriting passes | lowering and passes keep the meaning | BitVector, IlaExpr, OpConformance, ExprPass |
| Back ends, operators (`target-smt`, `verilog_gen.cc`, `dfs.cc`, `ilator_dfs.cc`, `target-json`) | terms, text | one translation per operator | all mean what z3 means | BackEnds, OpConformance |
| Generated programs (`verilog-out`, `target-sc`) | registers, memories, pending stores and loads, a counter | compute(), a clock edge | the generated program is in the ILA's state | Design, SimKernel, VlgModule, TargetRun |
| Child processes (`util/fs.cc`) | processes, a pipe, an alarm, a pid file | os_portable_execute_shell | the answer is how the program ended; a limited call returns | Shell, RunProgram |
| Verification targets (`vtarget-out`) | a wrapper's monitor registers: cycle counter, start, end, delays, recorded values | GenerateTargets, ConstructWrapper; a clock edge | the assertion fails exactly when the implementation ends the instruction with another result than the ILA's | VtgWrapper, VtgRun |
| Legacy BMC, `rfmap-in`, `verilog-in`, `smt-inout`, `target-itsy` | text, syntax trees | parsing and generation | see "Not modelled" | |

Interactions: CommDiag and the API drive the unrollers; InterIlaUnroller drives
a memory model through callbacks and shares its constraint list with it by
reference; all of them read the ILA core through AbsKnob and its expressions
through a solver interface; the generators run passes first and then read the
ILA. `PROJECT.json` lists every part, also those without a module, and the
hazards with the line where each bites.

`ILA_ASSERT` is active in debug builds only (`log.h:33`), `ILA_CHECK` always.
The models are of the debug build: where an assertion fails, the call stops.

## Modules

### Constraints

**MemoryModel** holds the axioms as pure operators over an *execution*: time
stamps `ts` of the steps, stamps `g` of the facet events `wfe.global`, decode
outcomes `dec` and the source `rf` of each read. `WRITE_list`, `READ_list` and
`PureWrite_list` are the instruction sets RegisterSteps fills; `ScAxioms` and
`TsoAxioms` are the constraint lists of the two models, one conjunct per axiom
of the source. Data is symbolic (a write is its own value) and a location is
compared by name.

**ScMachine** and **TsoMachine** are references written independently of the
axioms: an interleaving machine and a machine with FIFO store buffers, which
record the execution they perform. `ScSound` and `TsoSound` say that the axioms
admit every run. **McmReplay** goes the other way: its initial states are the
solutions of the axioms up to `MaxTime`, and it replays each by time stamps on a
machine; `Replayable` says that the machine accepts it. Together the axioms are
neither too strong nor too weak.

**LocalState** is `SetLocalState` for one core, in order and out of order, with
the same replay idea: a solution's private reads are compared with a register
file (`ReadsLatestDefinition`).

**AddrData** opens what MemoryModel takes for granted: SameAddress and SameData
over the addresses and the data of the stores and loads of a step, for a shared
memory or bit-vector under the axiom RF_CO_FR of Sc. For a step with one load
`LoadsLatestStore` says that a load returns what the latest store left, which is
what MemoryModel means by a location. A step that loads from two addresses of a
memory is where the formulas are weaker: one write is asked for all its loads.

**InterIla** is the client-visible object: the constraint list as a sequence of
groups that record which solver variables they use or tie, the stack of Push and
Pop, and the read sets that properties extend. Calls are arbitrary except for
what the header demands (initial constraints before Unroll, Unroll once, links
before CheckSat). A filter does not select the initial step.

**UnrollOps** gives, as pure operators, the constraints of UnrollSubs,
UnrollAssn, UnrollNone and the SMT variant: relations between named copies of
the state. **Unroller** is an object of one of the classes (path, monolithic,
SMT, and IlaZ3Unroller of the API, which makes a new unroller for each call)
under any sequence of calls. Its properties compare the solutions with the
executions. For the SMT class it also has the table of terms of the smt-switch
interface.

**CommDiag** is EqCheck, IncEqCheck and IncCheck. A refinement is two functions
(flush and apply), a set of complete states, and the given numbers of steps; the
solver's content is the frames that are connected, flushed and marked and
whether the partial property is there. One run covers all implementations over
a small state set against an atomic specification.

### Models and expressions

**IlaCore** is a heap of ILAs and instructions with the methods that build them.
An expression is the set of variables in it: what copying can get wrong is which
variables a copy refers to. **AbsKnob** is CopyIlaTree, FlattenIla, ExtrDeptModl
and the JSON round trip, each as a fold over the hierarchy in the order of the
code, with its maps of variables and ILAs. **IlaClient** builds any hierarchy and
then applies one of the four. `CopyExact`, `FlattenExact`, `ExtractExact` and
`JsonExact` are equivalences: the result is right *if and only if* the hierarchy
has the stated shape, so they say what a client must obey, and that it is enough.
`DefinitionsStable` is an action property: no call takes back a definition.

**BitVector** is bit-vector arithmetic, **IlaExpr** the SMT-LIB operators, z3's
translation of each operator and the lowering of API calls by `ast_hub`,
**BackEnds** the translation of each operator by smt-switch, Verilog, IlaSim,
Ilator, JSON and the rewriter. In **OpConformance** a client builds an
expression call by call, with the flag UnsignedComparison changing under it, and
every node has a value under each back end. A back end that does not produce a
well-formed text has no value: so in Verilog any part or bit select of a 1-bit
wire, which is declared without a range (`verilog_gen.cc:729`, `:747`; only
constants are special-cased, `:743`). `SmtAndJsonAgree` and `RewriteExact` hold for all
expressions; `VerilogFragment` and `SystemCFragment` name the operators and
operands on which the generated code deviates. **ExprPass** runs passes on the
finished expression, one after the other, with nodes shared and changed in place.

### Generated programs and processes

**Design** is a small ILA with a top level, one child, two registers and a
memory. **SimKernel** is the generated `compute()` of Ilator and IlaSim, with
internal and with external memory, where a step takes several calls: stores are
sent entry by entry, loads wait for an answer. **VlgModule** is the generated
Verilog module: reset, start, valid, grant, write ports and the counter.
**TargetRun** runs one of them next to the ILA under an arbitrary test bench.
`faithful` becomes false at the first step whose shape the generator does not
support, and `SimExact` and `VlgExact` say that up to then nothing differs. The
shapes are spelled out in `SupportedStep`, `SupportedMemory` and `FaithfulEdge`,
and the hazards in `PROJECT.json` give the line of each. Two things follow from
`WidthToRange(1)` being empty (`verilog_gen.cc:215-220`). An internal memory of
one entry is declared as a plain register, so that `mem[a]` selects a bit:
`IsArray` is false, what is read or left is an arbitrary value (`junk`), and an
edge that uses the memory is no faithful one. And the grant and decode ports of
an ILA with a single instruction are scalars that the text indexes with `[0]`:
there is no module to run (`Elaborates`, part of `Supports`).

**VtgWrapper** is the wrapper that `VlgSglTgtGen` writes around the ILA's Verilog
module and the implementation to have one instruction, or the invariants,
checked. A *target* is a record of what the refinement map and the configuration
ask for. The registers are those of the monitor (`__CYCLE_CNT__`, `__START__`,
`__STARTED__`, `__ENDED__`, `__RESETED__`), of delayed ready signals (`##n`,
`##[n:u]`, `##[n:$]`) and stages, of post-value holders, and of the ILA module,
which runs its instruction in the start cycle; `Assumed`, `Asserted` and
`SanityHolds` are the three outputs a model checker is given. The implementation
is arbitrary: its signals are free wires. **VtgRun** runs the wrapper as the Pono
script does, `ResetCycles` cycles of reset without assumptions and then every
behaviour in which they hold, next to `truth`, which follows the same wires
without the monitor. `TargetDecides` says that the assertion of an instruction
target fails in a cycle if and only if the implementation completes the
instruction in it, for the first time and within the bound, with another state or
memory write than the ILA's; and that an invariants target that passes has seen
every invariant the instruction targets assume. Recorded values count only while
the sanity assertions hold. It excludes two things the code
does not get right: a value that was recorded in an earlier check, because
`_sn_condmet` is never cleared (`single_target_misc.cc:355`), and a target that
assumes equality of updated states only but compares all (`Tied`,
`single_target.cc:208`).

**Shell** is `os_portable_execute_shell` on Linux: a process each for parent and
child, a pipe with up to two reports, a signal handler that may run between any
two steps of the parent. **RunProgram** is what a caller relies on, and
`RunsProgram` states that Shell implements it under the mapping `progBar`,
`answerBar`: an answer that is neither a failure nor a timeout is how the program
ended. A signal from outside to the child before it reports is not modelled.

The `MC*` modules give the constants values. Definitions named `..._Faulty` are
no part of the models: each is a plausible slip in the code, put in place of the
definition it is named after to show that the property next to it in
`PROJECT.json` notices.

## Runs and bounds

| Run | Shows |
|---|---|
| `tso` | TSO axioms admit every run of the store-buffer machine; reads are coherent |
| `sc` | SC axioms admit every interleaving, and TSO admits what SC admits |
| `replay` | every solution, SC or TSO, is an execution of the machine, ties included; private reads see the latest definition, loads the latest store |
| `inter` | no untied variable after any calls |
| `unroll` | solutions = executions for all modes and classes from frame 0 |
| `diag` | EqCheck decides the diagram; the first round of the incremental checks misses nothing; IncEqCheck raises no false alarm from bound 0 |
| `exprs` | what each back end, the lowering and the passes make of an expression |
| `ila` | when exactly copying, flattening, extraction and JSON are right; definitions are stable |
| `shell` | the call implements RunProgram; a timeout reaches the program; limited calls return |
| `targets` | simulators and Verilog modules follow their ILA; the assertion of a verification target decides the instruction |

- `tso`, `sc`, `replay`: the program (`MCLitmus`) has two cores and two
  locations. Core A, linked out of order, has a store, a fence and a load of both
  locations; core B, linked in order, has a store, an atomic step on the location
  A stores to and, in `tso` and `sc`, a load. This is where forwarding,
  reordering, fences, atomics and decode failures first meet. `MaxTime` = 5 gives
  solutions in which events tie as well as ones in which the events that matter
  for a read are strictly ordered. Where stamps tie, events are replayed in any
  order, except that a fence or an atomic step goes before the other steps of its
  core: out of order, two steps of a core may have one stamp, and a fence waits
  for smaller stamps only. For private states three steps define, increment and
  copy; in order, only the incrementing step may fail to decode (see below). For
  addresses, four steps over two addresses and two values let a load be separated
  from its store by a store to either address.
- `inter`: `MaxCstr` = 4 and `MaxPush` = 2 let a property be popped and another
  one be linked in its place.
- `unroll`: three states, lengths up to 2 and two predicates let an unrolling be
  dead, forced or free in each frame; every call may follow every other.
- `diag`: three states give an implementation that needs 0, 1 or 2 flushes.
- `exprs`: widths 1 to 3 at the leaves and up to 5 in between. Every operator
  meets every pair of two-bit values, mixed signs included, all its overloads and
  integer arguments; two calls in a row combine an operator with the result of
  another; two passes in any order meet stores to one memory with equal and
  different addresses.
- `ila`: six objects and definitions with two names of each sort are enough for a
  hierarchy of three ILAs, siblings and descendants with the same name, late
  declarations and references across the hierarchy. The two names of a sort are
  symmetric.
- `shell`: two calls, so that what one leaves behind (flag, alarm, pid file) meets
  the next.
- `targets`: every pair of nine top instructions (register transfer, store,
  double store, load, load and store) with four children, two valid conditions,
  memories of one and two elements, and each kind of target. A child is followed
  for four rounds, more than a child that ends needs. The counter is two bits
  wide instead of eight, so that it reaches its end. A behaviour of the run is one
  program or one wrapper. The wrappers have a mapped register and data of two
  values, two cycles of reset, bounds and delays of at most three cycles, and a
  counter that stops `Slack` = 2 cycles after the bound instead of 10: enough to
  be ready before, at and after the bound, to complete twice, and to be reset in
  the middle of a check and start another. They cover each kind of end, each kind
  of map, the knobs `ForceInstCheckReset`, `OnlyAssumeUpdatedVarsEq` and
  `OnlyCheckInstUpdatedVars`, and the modes of invariants.

`CHECK_DEADLOCK FALSE` only stands where a client may stop or a bound stops it.

Fairness is assumed in `shell` alone: weak fairness of each step of parent and
child and of the pending alarm, because the operating system schedules both
processes and delivers signals. That a program ends by itself is not assumed;
`LimitedReturns` is about programs that do not ignore SIGTERM. All other
operations of the library are bounded loops and their properties are safety.

### Disagreements between code and text

Two runs expect a violation, each of one property that states what a comment of
the source says; `PROJECT.json` quotes the lines.

- `unroll_later`: from a frame `pos > 0` the end predicates land on frame `len`.
- `switch`: SmtSwitchItf keeps its terms across time frames, so an unrolling of
  two steps relates a frame to itself. The unit test on it expects an
  unsatisfiable answer, which such constraints also give.

More shows when the constants of a passing run are widened or a property is
stated without its exception; the properties and the hazards in `PROJECT.json`
say so:

- The final step under TSO is after the instruction steps but not after the facet
  events (`tso_manual.cc:115`).
- Private states: a step of an ordered core that writes a private state without
  reading it and does not decode leaves the state unconstrained.
- A filter that selects a facet event alone extends a read set no link visits.
- `MemVarSameAddress` ties a step's loads to one write; its match of loads with
  loads starts from `true ||` and constrains nothing, but no axiom asks for it.
- CommDiag: "at most once" is asked of an already unsatisfiable solver
  (`v_eq_check_crr.cc:632`); the partial property makes rounds after the first
  vacuous (`:451`); IncCheck loses A's flush condition when B, which shares the
  unrollers, is initialised; from a bound above 0 the first frames stay
  unconnected (`:375`).
- FlattenIla drops the valid conditions of children: `VALID_STACK` is undefined
  right after its definition (`u_rewrite_ila.cc:8-10`). The specification flag of
  an extracted child-program and instruction sequences are not carried over.
- RewriteStoreLoad never rewrites a load: its `RewriteOp` takes the argument by
  value and so hides the virtual function (`p_rewrite_store_load.cc:19`).
- Simulators: a store right after a store, or one of two store functions, is lost
  (`sim_gen_execute.cc:348`); two waiting loads take the same data (`:289`);
  `_ctrl` and `_iter` start uninitialised; Ilator's `g_initialized` is shared by
  all instances and never initialises a second one; `compute` of IlaSim is
  sensitive to inputs only; a design without external loads or stores makes the
  generator shorten an empty string.
- Verilog: one-bit wires are selected from, a one-entry memory is no memory, and
  the grant of a single instruction is indexed (all three because
  `WidthToRange(1)` is empty); the memory ignores grant; at equal addresses the inner store wins; an
  external memory is also written while the module is inactive;
  `__ite_ukn_cond_reg_` is used and never declared (`verilog_gen.cc:1404`).
- Shell: an alarm before waitpid is entered and a program that ignores SIGTERM
  hang the call; a timeout may be reported although the program has ended, and
  leaves the child unreaped; a killed program has `ret` 0; the pid file is stale
  after a failed execvp; a failed fork leaves the pipe open.
- `IlaZ3Unroller` builds `univ_` without its suffix (`ilang++.cc:771`), so with a
  suffix CurrState and Equal name other variables than the unrolling.
- `NestedMemAddrDataAvoider` keeps InAddrOrData set after a rejection
  (`ast_helper.cc:101`); a second `Unroll` registers all steps again
  (`inter_ila_unroller.cc:115`); SameAddrDataSanityCheck keeps a static table that feeds
  assertions only (`axiom_helper.cc:575`); `init_cond_vec` repeats the conditions
  of earlier ILAs (`inter_ila_unroller.cc:152`).

## Proofs

TLAPS proves what follows for every value of the constants: programs, state
sets, transition relations, lengths and bounds.

- **ScMachineProofs**: `TypeCorrect`, `ScSoundness`, `ScRunsWithinTso`. The
  inductive invariant relates the memory to the clock: `mem[s]` is the decoding
  write to `s` with the greatest stamp, stamps are distinct and at most `clock`,
  and every read done so far satisfies its axiom instance. `ScSound` alone speaks
  of finished runs and is not inductive. `ScAxiomsWithinTso`: a solution of the SC
  constraints becomes one of the TSO constraints when stamps are doubled and facet
  events put in the gaps.
- **TsoMachineProofs**: `TypeCorrect`, `TsoSoundness`, `Coherence`. Beyond that of
  SC, the invariant says that a buffer's stores left it in the order they entered,
  that facet stamps of flushed stores lie behind their step, and that `mem[s]` is
  the flushed decoding store with the greatest facet stamp. A pending store may
  still flush after a read; the invariant therefore states RF_CO_FR of a read with
  the pending stores counted as later than the clock. `TsoCoherence` is about any
  TSO solution.
- **McmReplayProofs**: `SolutionsReplayable`, the converse of the two soundness
  theorems: with them, the solutions of the constraints are the executions of
  the machines, neither more nor fewer, for every template and any stamps. The
  invariant says that what has happened is closed under `Precedes` (`InOrder`)
  and that the memory holds a visible, decoding write that no other visible one
  is later than (`LatestInMemory`); ties need no order, since RF_CO_FR leaves no
  other write at the time of the source. The same module proves
  `LocalReadsLatest`, by the invariant that the register file is the last value
  of the steps replayed (ordered) or the definition with the greatest stamp
  (unordered), and `AddrLoadsLatest`, by the invariant that each cell holds the
  data of the latest store to it and that the axiom picks that store.
- **InterIlaProofs**: `TypeCorrect`, `StackDiscipline`, `NoFreeVariable`.
  `StackDiscipline` (the assertions of Pop hold) is proved and is no property of
  a run; TypeOK needs it, since Pop must cut to a length the list has.
  `NoDanglingRead` needs two more parts: a property's variables are in the read sets (`ReadsKept`; read
  sets never shrink, not even on Pop), and a link ties the variables of every
  property before it (`LinkCovers`; cutting the list keeps it). The theorem is
  about clients that satisfy `PrivateClient`; the section on disagreements says
  what happens to others.
- **UnrollerProofs**: `UnrollerTypeCorrect`, `UnrollAssnExact`,
  `UnrollSubsExact`, `UnrollNoneExact`. The invariant says that the members left
  by earlier calls do not reach the next one: after a call `cstr` is the
  constraints of that call and of the predicates alone, and only the terms of
  smt-switch remember a frame. What these constraints mean is one lemma about a
  *chain* of steps over arbitrary names of the state copies (`ChainSolutions`):
  the three modes and the monolithic unroller are chains with different names,
  and the solutions of a chain are the sequences each step of which `Fits`.
  `UnrollAssnExact` and `UnrollSubsExact` are about calls from frame 0, the
  default of `pos` (`u_unroller.h:194`); the run `unroll_later` shows what
  happens from others. `UnrollNoneExact` is about every frame.
- **CommDiagProofs**: `EqCheckDecides`, `FirstRoundIsSound`, `AlarmsAreReal`. A
  flush path is the only iteration of the flush function from its start
  (`IterationUnique`), so the frames that the solver has connected by flush steps
  are those of the path (`Paths`, the invariant of the loop), whatever the other
  frames are. The first two theorems assume `OneCompletion`: no flush path has two
  complete states. `StableCompletion` shows that it holds where flushing leaves
  complete states alone. It is what the code means to check with "at most once"
  and does not (see above); without it the representative of a path would have to
  equal two states, the query would be unsatisfiable, and the answer "true".
  `AlarmsAreReal` does not need it.
- **ShellProofs**: `ShellTypeCorrect`, `ShellTimeoutReaches`, `ShellRunsProgram`.
  The invariant says which positions of parent and child go together, what the
  pipe holds in each, and that until the alarm goes off nothing is sent, after it
  the child is dead or SIGTERM is on its way. The refinement has one step per
  action: forking, a report, a failed execvp and the signal handler are stutters,
  the exit of the program and its death by a signal are `End`, each `return` is
  `Answer`.

- **TargetProofs**: `VlgCorrect`, `CounterCorrect`, `SimCorrect`. An edge of a
  supported shape has one granted instruction, and then the registers' next values
  and the write ports are what `Execute` makes of them (`EdgeIsStep`, with
  `PortsAreStores`: at distinct addresses the ports do what the chain of stores
  does). For a simulator with internal memories the invariant is equality of the
  states between calls: of a list of instructions of which one is ready and makes
  no later one ready that one alone runs (`OneRuns`), and a pass over the child
  executes nothing exactly when its run is at the end, so that the loop stops
  there (`PassMeans`, `LoopMeans`). With an external memory `SimExact` is far from
  inductive, since the ILA has taken the step while entries and data are still
  under way. The invariant `ExtInv` says what is owed: writing the entries of the
  store map to the simulator's memory gives the ILA's, those below the counter
  are there already (`Owed`), and either nothing waits and the registers are the
  ILA's (`Idle`) or one load does, whose address was not among the entries or is
  sent (`Settled`), and whose answer makes the registers the ILA's (`Loads`). A
  request on the port is always that of the load that waits. TLC checked it as an
  invariant of `targets` before it was proved.

Facts about all frames of a path are not proved by induction (the library's
induction theorems take an operator as a parameter) but from the absence of a
least frame that violates them: `LeastNumber` in CommDiagProofs and, for the
recursive functions of the generated programs, `UpTo` and `RecursionExists` in
TargetProofs, from the well-foundedness of `<`.

Assumptions are those of the modules: what a template is, disjointness of names,
and that a step named `atomic_add` or `atomic_and` writes a shared state
(`TemplateAssumption`, `InterAssumption`); that a fence is not also a store
(`FenceAssumption`); that the steps of a core are numbered without a gap and a
step of an ordered core that may not decode reads what it writes
(`OrderedAssumption`); that there is a state (`CommDiagAssumption`); and that the
generators are given updates and stores of the sorts of their targets, addresses
that are numbers (the order of `std::map`), and an initial condition of the child
only with a child (`DesignAssumption`). The runs evaluate them.

Only model-checked: the liveness properties of Shell, which the prover cannot
express; the wrappers (VtgRun); and the modules on ILAs and expressions
(IlaClient, OpConformance, ExprPass), which walk hierarchies and expressions with RECURSIVE operators. What a
recursive definition computes for every tree is out of the prover's reach. The
loops of generated programs run up to a number of instructions, passes or stores;
they are recursive functions of that number and proved about.

## Not modelled

- Refinement maps, Verilog and SMT-LIB input (`rfmap-in`, `verilog-in`,
  `smt-inout`): parsers of generated grammars and walks over the syntax trees of
  third-party parsers. Their state is the tree, their result a text.
- Of verification targets (`vtarget-out`): the reading of refinement maps and
  their types, the synthesis of invariants, whole memories as maps, and the
  scripts that call the model checker.
- Passes that ask a solver about the meaning of an instruction
  (SanityCheckAndFix, MapChildProgEntryPoint, SimplifySemantic).
- Legacy BMC: one query over two unrollings with its own suffixes, superseded by
  CommDiag. ItSy: an import that is not built by default (it maps an unsigned
  division to the signed one). SanityCheck of CommDiag only warns. In JSON,
  `func_id_idx_map_` is never filled, so functions are written again for each use.
- Printing, logging, file names, headers and make files of generated code, the
  QEMU device of IlaSim.

## Plan

The models are complete in the sense above. For the proofs:

1. VtgRun: `TargetDecides` by the invariant that relates `age` and `over` of the
   reference to the counter, `__STARTED__` and `__ENDED__`.
2. InterIla: with `PrivateClient` dropped, which reads stay free (the exact set).
3. AbsKnob: the maps of CopyIlaTree are injective and total on the hierarchy, the
   invariant `CopyExact` rests on.
