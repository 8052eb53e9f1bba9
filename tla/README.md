# Formal model of asm_studio

asm_studio builds small programs with a C++ DSL, lowers them to an intermediate
representation (IR), optimizes the IR, simulates it, prints it and emits ARM64
assembly for it. This directory holds TLA+ modules translated from the code, the
TLC configurations that check them on small instances, and theorems about them
proved with TLAPS. `PROJECT.json` maps every definition to the lines it models.
Paths below are relative to the repository.

## 1. The system

| component | state | operations | speaks to |
|---|---|---|---|
| IR (`include/asmstudio/ir/IRTypes.hpp`) | functions: blocks of instructions, values with an optional constant, a block index | findBlock, rebuildBlockIndex | shared by all below |
| DSL (`dsl/Function.*`, `Expr.hpp`, `Stmt.hpp`, `Condition.hpp`, `Variable.*`) | variables, statements, the body that is open (`m_currentBody`) | create*, assign, ret, call, whileLoop, ifStmt, ifElse | calls its caller back for the bodies of control statements |
| Program (`dsl/Program.*`) | functions, diagnostics, the IR of the last build | build, optimize, simulate, show* | calls all the others |
| Lowering (`ir/Lowering.cpp`) | the function being emitted, the slots of variables, the current block | one per statement and expression | reads the DSL, writes IR |
| Optimizer (`transforms/`) | the list of passes, the passes that fired | run; four passes that rewrite a function in place | rewrites IR |
| Simulator (`sim/`) | call stack, snapshots, return values, done, step count | run, step, rewind, reset | reads IR by reference |
| Lexer, parser (`parse/`) | position, line and column; bounded tables of instructions, labels, diagnostics | next, parse | independent of the others |
| ARM64 emitter (`codegen/Arm64Emitter.cpp`) | register map | emit | reads IR |
| Explain, CfgDot, PseudoEmitter (`analysis/`, `codegen/`) | - | print | read IR |
| Presenter, diagnostics, compat, demo | an output stream, a list | print, emit | - |

The library has no threads, no persistence and no messages. What is hard in it:

* *Sequences of calls.* A simulator object may be run, stepped, rewound and reset in
  any order, after errors too; its members are restored by different conditions.
* *Callbacks.* whileLoop and ifElse call code that calls the DSL again.
* *Two copies of one fact.* A constant is kept in the instruction and in the value; the
  block index repeats the blocks; passes rewrite one and then the other.
* *Fixpoints and limits.* The optimizer has no limit of its own; the simulator has two.
* *Two implementations of one meaning.* Folding and execution of arithmetic; DSL
  statements and their lowered form; a function before and after optimization.
* *Undefined behaviour* of C++ arithmetic, at run time and in the compiler.

`PROJECT.json` lists the hazards one by one with the property that catches each.

What makes each component correct:

* Simulator: the history is an execution whatever was called; returns match calls; the
  limits hold; run() answers for its own execution and always returns.
* Optimizer: constants and branch targets are right in every intermediate state, the
  entry block stays, the fixpoint is reached and is one, and the optimized function does
  what the original did.
* Lowering: the IR is well formed (ids, targets, terminators), slots have no constants,
  and the simulated IR does what the statements mean.
* Program: whatever is changed, built or optimized in between, what is simulated, emitted
  and explained is the last build.
* Parser: no character of the text is lost or read twice, places are true, the tables keep
  their limits, and `ok()` is false if there was an error (it need not be, see findings).
* ARM64 emitter: the code, assembled and executed, does what the function means.
* Explain and CfgDot: what they say of a function is true of its statements and executions.

## 2. The modules

```
IR ── Values                              representation, arithmetic
 ├─ Machine ── Simulator ── SimulatorTimeTravel (⟶ TimeTravel) ── MCSimulator
 ├─ Optimizer ── Translation (+ Machine) ── MCTranslation (+ Samples)
 ├─ Dsl ── Lowering ── Compile (+ Machine, DslSemantics) ── MCCompile
 ├─ Arm64Emitter ── ArmMachine     Explain     CfgDot
 └─ Program (Lowering, Optimizer, Machine, DslSemantics, ArmMachine, Explain, CfgDot) ── MCProgram
Lexer ── Parser ── MCParser

Machine_proofs ── Simulator_proofs        Compile_proofs        Parser_proofs
Optimizer_proofs ── Translation_proofs
Lowering_proofs ── Program_proofs (+ Machine_proofs, Optimizer_proofs as instances)
```

**IR** has the record types, the block index and one constructor per instruction shape.
Ids are naturals; a missing `std::optional` is `None`. Block names and data types are
left out: only printers read them.

**Values** is the arithmetic of `BinaryOpVisitor`, `CompareVisitor`, the unary handlers
and the constant folder, on words of `Width` bits. A value carries its C++ type (int64,
uint64 or bool), and the usual conversions are modelled: common type, cast back to the
left operand's type, promotion of bools, truncating division, masked shift counts.
Signed overflow of +, - and * wraps, as in the builds the project makes. A quotient that
does not fit, and a zero divisor nobody checked, are undefined: the process is killed
(`Trap`) or continues with the AArch64 result. `double` is left out.

**Machine** is `stepOne` and the nine handlers as a relation on call stacks:
`StepOne(stack)` is the set of effects one instruction may have (the new stack, the
value returned, whether it is over, the error). Everything that composes with the
simulator uses this relation. The function cache is modelled as the constructor builds
it, also for two functions of one name (the last function, the first one's indices).

**Simulator** is the object: `run` is RunStart and one RunIteration per turn of its
loop, and RunUnknown; `step` is Step and StepDone; Rewind and Reset. Variables are the
members, plus whether run() is under way and what the last method returned.

**TimeTravel** is what a debugger that can go back promises: a path of states that is
begun, extended by one step, cut back, or forgotten. **SimulatorTimeTravel** shows that
Simulator implements it, the snapshots and the current state being the path once the
copies that step() after rewind() leaves are removed.

**Optimizer** takes one action per iteration of a pass's loop, so that the invariants
speak of half-rewritten functions: FoldConstant, EraseDeadInstr, SimplifyJump,
VisitReachable, EraseUnreachableBlock; StartPass, FinishPass and EndRound are
`runFixpoint`. `source` remembers the module as it was. **Translation** optimizes, optimizes
again, or executes a function before and after: `Sim(module)` is Machine on a module, and is
used with the module as it was and with the one the optimizer left. The original goes first,
as long as what it does next is determined. An undefined quotient is not, and neither is the
return of a value that was never written but has been folded (`ReturnsUnwritten`): IR built by
hand can return what a block computes that was not executed, the lowering's never does. Such an execution is "undefined" and compared with nothing.

**Dsl** keeps the open bodies as a stack: opening one is the call of a callback,
closing it its return, and between them any DSL call may come. An expression tree is its
nodes in post-order, which is the order everything visits them in. **Lowering** turns
the mutual recursion of lowerStatements and lowerStatement into a stack of statements
still to lower, one action per statement and one (EndBody) for what follows a body.
**DslSemantics** is an abstract specification with no counterpart in the code: what the
statements mean. **Compile** runs the meaning and the lowered function side by side.

**Program** is dsl/Program.cpp with everything it calls: createFunction, a function that
the user goes on changing, build() as the steps of Lowering, optimize() as the steps of
Optimizer on the IR in place, simulate() as the steps of Machine. Beside a simulation, and
beside a run of emitted code, the statements of the functions *as they were at the last
build* are executed (`meant`), which is what the results are compared with. The methods
that only print differ in nothing but what they print, and are the operators of Explain
and CfgDot on the IR.

**Arm64Emitter** is emitArm64AsmVolatile with instructions in place of text: registers
handed out to values as they are first written, block k behind local label k, labels
looked for backwards or forwards. **ArmMachine** is external: what an assembler makes of
the labels and what a processor does with the instructions the emitter uses. A call makes
the registers a callee may change unknown, and overwrites the return address.

**Lexer** is the lexer on a text that never changes, a token being a range of it, and the
lexer's state a position with the line and the column it believes in. **Parser** is
`parse()`, one action per token taken at each place of its loop, and the tables with their
limits, which are constants. `tokens` and `reported` are history variables: every token
fetched, every diagnostic raised, kept or dropped.

**Explain** and **CfgDot** are the counts and the edges those files print.

Definitions named `Faulty...` or `Silent...` are slips the code could have made. Nothing refers to
them; putting one in place of the definition that follows it violates the property named
in `PROJECT.json`, which shows that the property can fail.

## 3. The runs

| run | checks | shows |
|---|---|---|
| MCSimulator | TypeOK, RunAccounting, HistoryIsExecution, CallsMatchFrames, CallDepthBounded, RunIsFresh, ResumableWhenNotDone, RunReturns, ImplementsTimeTravel | fifteen functions: loops and recursion without end, a function that ends just within and one that ends just beyond the limit, calls, both kinds of return, every error, a trap, duplicate names, in every order of run, step, rewind and reset |
| MCTranslation | TypeOK, ConstantsSound, BranchTargetsExist, EntryKept, BlockIndexFresh, SecondRunIsIdle, OptimizedRunAgrees, EveryChangeShrinks, OptimizerReturns | all levels on the samples and on every operator and comparison over six operands each: optimized, optimized again, executed before and after |
| MCCompile | LoweringTypeOK, LoweredTargetsExist, NoFallThrough, VariablesHaveNoConstant, MeaningPreserved, LoweredKeepsPace | every function of four statements over one variable and one of another function, or of two statements over two variables with divisions |
| MCProgram | ProgramTypeOK, IRStaysSound, SimulationMeansLastBuild, EmittedCodeAgrees, ExplainMatchesSource, GraphShowsExecution | every program of a library function and a function of up to two statements, built, changed, built again, optimized at either level, simulated and emitted in any order |
| MCParser | ParserTypeOK, TokensTile, PlacesTrue, LabelsPointForward, OneInstructionPerLine, NothingLost, ParseReturns | every text of four characters of all classes, and of six characters out of those that make instructions, or labels |

Seven runs are expected to be violated. Each shows a disagreement between the code and
something the repository says; `PROJECT.json` quotes it under "findings":

* MCSimulatorVoid: a function that returns nothing is said to return its callee's value.
* MCSimulatorCallOutput: a Call's output never receives the return value.
* MCSimulatorDivisor: no caller ensures that a bool divisor is not zero.
* MCCompileSlots: `x = x + 1` as a first statement reads a slot that was never written.
* MCParserOk: with the table of diagnostics full, an error is dropped and `ok()` is true.
* MCProgramLoops: a while inside an if is explained as two loops.
* MCProgramRegisters: the eighth value of a function is kept in x23, not in one of x9 to x15.

Four more things the code does have no run of their own; three of them are excluded from
properties by name. `ReadsForeignSlot` (MeaningPreserved): the initial value of another function's
variable is emitted where it is first read, and if that is in a body, a later read finds
the slot unwritten. `RegistersLast` (EmittedCodeAgrees): behind x15 the emitter
hands out x23 to x28, then x29 and x30, the return address's, then x31 and up, which no
assembler knows. `NoCalls` and `OnlyLastFallsThrough` (EmittedCodeAgrees): nothing saves the
return address that bl overwrites, and where a block ends without a terminator there is no ret;
the project
names ABI-complete code generation a non-goal, so this is no finding. And a rewind() that leaves no snapshot leaves the state and `m_done` as
they were (Simulator.cpp:236), which TimeTravel allows.

### Bounds

Every bound is a constant in a cfg. `Width` is 2 or 3 bits: signs, wrap-around, the
smallest integer and its quotient by -1, and mixed signedness all occur. `MaxSteps` 6
and `MaxCallDepth` 2 are limits of the code, small enough for every sample that loops or
recurses to hit them. `MaxHistory` and `MaxTrace` cap snapshots and return values in the
simulator runs (BoundAssumption keeps them above `MaxSteps`, so run() is never cut
short; only step() is). `MaxRuns` 2 runs the optimizer on its own output. `MaxSteps` 30
in Translation is more than any sample needs. `MaxVariables`, `MaxCalls` and `MaxNesting` bound the functions the
DSL builds, and `MaxSize` their sum (a variable weighs two): four statements over one variable
suffice for a branch or loop nested in another with something before or after it, and for
each order of the leading assignments. The names of variables are symmetric in MCCompile:
nothing orders them, and the configuration has no liveness property. `MaxStatements` 12
cuts source executions that do not end; a function of four statements that ends does so
earlier.

In MCProgram `MaxCalls` 2 and `MaxSize` 6 keep functions short, since each is built, changed
(`MaxEdits`), built again (`MaxBuilds`), optimized (`MaxOptimizations`) and run in every
order; `MaxSteps` 150 is more than a function of two statements needs for `MaxStatements`
12, which SimulationMeansLastBuild and EmittedCodeAgrees check themselves. The functions
use up to eight registers, so that the scratch registers run out but the numbers do not.

In MCParser the tables hold two rows each, which texts of six characters overfill, and
`SizeBits` 8 stands for the width of size_t.

The optimizer's samples have the shape the lowering emits (one value per literal, a slot
per variable) together with what a hand-built module may add: no block index, no blocks,
a branch without a false target, a terminator in the middle of a block.

### Fairness

`RunReturns`, `OptimizerReturns` and `ParseReturns` assume weak fairness of one thing each:
the loop of run(), the steps of the optimizer, the loop of parse(). All are plain loops on
their caller's thread, which nothing in the library can suspend.
Nothing is assumed of the callers: no method need ever be called.

`CHECK_DEADLOCK FALSE` stands where the modelled program really stops: a process killed
by a trap (MCSimulator), a parse, an optimizer or an execution that has finished, a
program that has met its bounds.

## 4. The proofs

Every leaf is checked by SMT (Z3), Zenon or, in the last step of a temporal theorem, LS4.

### The simulator

`Machine_proofs` proves the frame lemma of the interpreter, `StepShape`: an effect keeps
the callers of the running frame and rewrites that frame within its type, or pushes an
entry frame behind a Call, or pops one frame. It rests on one lemma per handler and on
type lemmas for the operators they are built from.

`Simulator_proofs` proves, for every module, limit and value type that satisfy the
assumptions:

| theorem | property |
|---|---|
| TypeCorrect | TypeOK |
| AlwaysResumable | ResumableWhenNotDone |
| DepthBounded | CallDepthBounded |
| ReturnsMatchCalls | CallsMatchFrames |
| HistoryCorrect | HistoryIsExecution |
| RunAccounts | RunAccounting |
| RunStartsAfresh | RunIsFresh |
| SimulatorImplementsTimeTravel | ImplementsTimeTravel |

None of the properties is inductive alone. `SimulatorInv` joins the type invariant with
what every stack, current or saved, satisfies (frames of known functions, return
addresses, depth): rewind() makes a snapshot current, so whatever is claimed of the
state must be kept of the snapshots as well. `StepSound` shows that an instruction keeps
it, by the three cases of StepShape; `NextInv` has one step per method. HistoryCorrect
and RunAccounts are proved on top of it, from `HistoryNext` and `AccountingNext`.
RunIsFresh compares the returned values with the number of returns among the snapshots;
its lemmas say how that number changes when a snapshot is added, dropped or made current.

The refinement maps the snapshots and the state to a path without the copies that step()
after rewind() leaves. The mapping selects from a sequence, so its lemmas count: the rank
of an index is the number of kept indices up to it, ranks are one-to-one and order the
path, and appending, cutting back and replacing the end of the history append to the path,
cut it back or leave it. Each method is then a step of TimeTravel or a stutter.

The simulator's assumptions are that ids are not `None` (NoneAssumption), that the module consists of
IR as `IRTypes.hpp` declares it and the operators return values (MachineAssumption), and that the
bounds on history and trace exceed `MaxSteps` (BoundAssumption). They say nothing of the
functions: targets may be missing, names may clash, blocks may be empty.

### The optimizer

`Optimizer_proofs` proves, for every module, list of passes and number of runs:

| theorem | property |
|---|---|
| TypeCorrect | TypeOK |
| ConstantsStaySound | ConstantsSound |
| BranchesStayWithinFunction | BranchTargetsExist |
| EntryStays | EntryKept |
| IndexStaysFresh | BlockIndexFresh |
| OptimizedIsFixpoint | SecondRunIsIdle |
| ChangesShrink | EveryChangeShrinks |

`SoundInv` strengthens the properties of the IR to an inductive invariant. It adds that
block ids are unique and that a folded value has one writer, or else turning that writer
into a Const would contradict another; it ties `reached` and `worklist` to the blocks,
so that a block that stays only branches to blocks that stay, also while the blocks are
erased one by one. `IdleInv` is the one for SecondRunIsIdle: once a function has been left by
the fixpoint loop, every pass of the list finds nothing to do in it; while a round has changed
nothing, neither do the passes behind the current one; and a pass that has changed nothing
found nothing to do where it has passed. EveryChangeShrinks compares numbers of instructions
of a kind before and after a rewrite: the lemmas compare the sets of their places
(`OverwrittenShrinks`, `ErasedInstrShrinks`, `ErasedBlockShrinks`).

`OptimizerAssumption` says what the optimizer is given: well-typed functions (Optimizable)
whose constants are those of Const instructions, in which the result of an operation is
written once, ids are unique and branches land, with the blocks' index or none. For a function
that was built with the DSL this is a theorem, LoweredIsOptimizable below. Of the folding
of constants it says that a result is a constant, or none, or a trap.

### The optimizer and the simulator

`Translation_proofs` proves, for every module whose functions have different names, every list
of passes, every limit and value type that satisfy the assumptions:

| theorem | property |
|---|---|
| OptimizedFunctionRunsAlike | OptimizedRunAgrees |

It composes the two components, and its invariant has a part for either.

*What is left of a function.* SoundInv speaks of one function; here it has to be compared with
the original. `Derived(s, f)` says what the optimizer, halfway through whatever pass, has made
of s: the constants of s are constants of f; a value with a constant in f was written in s by that
Const or by an operation that folds to the constant (`Justified`); and each block of f has one of
the same id in s in which it is embedded (`Embeds`): there is an increasing map p such that the
j-th instruction is the p[j]-th as it was, or the Const it is folded to, or the jump its branch is
decided to be (`Stands`), and every instruction that has no image is one whose result f does not
use (`Elided`). FoldConstant and SimplifyJump keep p and change what stands in one place,
EraseDeadInstr takes one place out of p, and erasing a block takes its map away. That f does not
use a result must remain true while other passes go on: a rewrite never reads a value that was
not read (`UsedShrinks`), and
`UsedInv` keeps dead-code elimination's own set `used` above what is read.

*One instruction.* `Moves` restates StepOne as what one instruction does to a stack: go on,
write a value, jump, call, return, fail. `KeptMoves` says that an instruction that stands as it
was makes the same move if its operands are those of the original, or nothing. For a folded
operation, `FoldsAsExecuted` gives the move. A `Ret` is the one instruction that goes on with an
operand that was never written, which is what ReturnsUnwritten is about.

*Two executions.* Their stacks have the same length; frame by frame they are of one function and one
block, the place of the one is embedded in that of the other (`SamePlace`), and every value that f
still uses is the same or, if it is a constant of f, that constant or not written yet
(`SameValues`). From such stacks the optimized function's next step has a counterpart: the
original first takes the steps that were elided (`Alone`), then both make the same move
(`Together`). The two executions of the model do not take turns: the original has gone before. So
`ExecInv` says there is a history h of it, and that the optimized one is where the original was
after i steps (`Met`), i at least its own number of steps; the proof takes i as large as possible,
so that no elided instruction is left to go over. Hence the same trace, and no more steps.

The hypothesis of different names (`DistinctNames`) is needed: `createFunction` accepts a name
twice, and of two functions of one name the cache takes the blocks of one and the indices of the
other. The run states that its samples satisfy it (SampleNamesDiffer). TranslationAssumption asks
that a constant is folded to what executing the operation gives; for the code's own arithmetic
this is FoldingIsExecution below, at every width, and TLC evaluates it in MCTranslation. Its
other parts are that the machine's values are the optimizer's, that both branch alike, and
that an instruction is not `None`.

### The lowering

`Lowering_proofs` (CompileIsLowering: `Compile_proofs`) proves, for any functions the DSL can build, of any size and nesting
(the bounds of Dsl only restrict its steps), and any functions built before them:

| theorem | property or statement |
|---|---|
| LoweredIsTyped | LoweringTypeOK |
| LoweredBranchesLand | LoweredTargetsExist |
| LoweredFallsThroughOnce | NoFallThrough |
| LoweredConstantsAreConstants | VariablesHaveNoConstant |
| LoweredIsOptimizable | the conditions of OptimizerAssumption hold of every lowered function |
| CompileIsLowering | the steps of Compile are steps of the lowering or leave it alone |

*Emitting.* `FnSound` is what holds of a function whatever is still emitted into it: ids
count the blocks, every value an instruction names is allocated, branches land, a value
with a constant is written by that Const alone, and a computed value is written once.
`Slot` is what makes a value fit for a variable: it has no constant and nothing but Copy or
Const writes it. `Kept` relates a function to what it becomes: it only grows, its slots
stay slots, its terminated blocks stay terminated. AllocValueKeeps, AllocBlockKeeps and EmitKeeps
establish these for the three methods of LoweringContext.

*Expressions.* LowerNodeKeeps does it for one node. That the operands a node takes are there
is a matter of counting: after n nodes of a post-order there are as many operands as leaves
minus binary operators among them (`Operands`). LowerExpressionKeeps follows for expressions of
any length, by the least node at which it would fail.

*The DSL.* The statements of a function are a tree of unknown depth, which no induction
reaches. Instead `DslInv` says that there is a set of statements, closed under taking the
bodies of its members, that all open bodies draw from; each call of the DSL puts one
statement into the set, and the lowering takes statements out of it.

*The walk.* `LoweringInv` joins these: the table maps names to slots, the names the statements
assign to have slots (`Works`), every body but the outermost knows blocks to go on with
that exist, and a block without a terminator is one of those (`GoesOn`). There is one
lemma per action. When the function's own body ends, it is the only one, so one open
block at most remains.

`LoweringAssumption` says that the expressions and conditions the DSL is tried with, and the
functions built before, are ones its C++ types allow, which TLC evaluates for those of the
runs; and that a function assigns to no variable of another (undefined in the code, see
section 5).

### The parser

`Parser_proofs` proves, for every set of texts, every alphabet and all limits of the
tables:

| theorem | property |
|---|---|
| ParserTypesHold | ParserTypeOK |
| PlacesStayTrue | PlacesTrue |
| LabelsKeepPointing | LabelsPointForward |
| LinesStayApart | OneInstructionPerLine |
| TokensCoverText | TokensTile |
| NoTokenLost | NothingLost |

The lexer's lemmas come first. `RunEnds`: every loop over characters ends within the text.
`SameLine`, `NewLine`: how line and column of a position change. `LexemesOK`: what each
token kind can be. `NextTokenOK` puts them together: a lexer that knows its line, and its
column unless it is before a line end (`Tidy`, which is all that is left after a comment),
yields a token that says truly where it is and leaves a tidy lexer. `ParserInv` then
relates the tables, the instruction being read and the token: what is recorded lies before
what is being read, the latter lies before the token and on its line, and the token ends
where the lexer goes on. `ParserStep` keeps it, by one lemma for the actions that fetch
between statements, one for those that fetch within an instruction, and one for each of
the others.

The last two theorems are about the set of all tokens fetched. TokensCoverText rests on
`Ordered`: the token in hand is the last one fetched, the lexer stands right behind it, and the
others begin before it; `FetchFollows` and `FetchTiles` keep this. For NoTokenLost each
fetched token is `Handled`: it says nothing, is the token in hand, is part of the instruction
being read, or is covered by a table or by a diagnostic on its line; every action has to say
which of these its tokens go to.

The assumptions are LexerAssumption (letters are not digits, blanks or marks)
and ParserAssumption (the texts are texts, the limits are naturals). The characters `,`,
`:` and `;` have names because the provers cannot read the literals.

### The arithmetic and the program

`Program_proofs` puts the parts together, for every library function the user may have
built before, every list of passes, every width of words and all the bounds:

| theorem | property or statement |
|---|---|
| FoldingIsExecution | a constant the optimizer folds is what the simulator computes |
| ArithmeticIsClosed | the simulator's arithmetic yields values of its three types, or traps |
| ProgramIsTyped | ProgramTypeOK |
| ProgramKeepsIRSound | IRStaysSound |
| GraphIsTrue | GraphShowsExecution, if functions have different names |

*Arithmetic.* `Cast` brings every integer into the range of its type (CastIsValue); the rest is
one case per operator. FoldingIsExecution is about two pieces of code, written apart, that
must agree. Together with ArithmeticIsClosed it discharges, for the code's own arithmetic,
what Machine and Optimizer assume of an unspecified one.

*The composition.* `ProgramInv` is LoweringInv while building, the optimizer's SoundInv while
optimizing, and at rest the part of SoundInv that says something of the functions alone. The
steps are those of the instances, so their invariance lemmas apply; what had to be shown is the
three hand-overs. What build() leaves satisfies OptimizerAssumption (LoweredIsOptimizable), for
which the instance `OptP` takes as its programs the modules the lowering can have made. What
the optimizer leaves satisfies it again, so optimize() may be called twice (`OptimizerTrusts`).
And an edit of the functions between two builds leaves the IR of the last one alone.

*The graph.* `NamesKept` says that IR and functions have the same names, in the same order,
whatever is built, edited or optimized; `RunInv` that every frame of a simulation is of a
function of the IR and that nothing is built or optimized meanwhile. With SoundInv, every
jump then lands in a block, and CfgDot has drawn the edge. The hypothesis of different names
is needed for the same reason as above: the blocks of one function and the indices of another
are what no graph shows.

Three assumptions on constants state facts the provers cannot reach and TLC evaluates:
RadixAssumption (powers of two are positive, and that of the width is even: an induction on
the exponent), BitwiseAssumption (a sum of bits is an integer: an induction on the number
of bits) and, in ProgramAssumption, that `"main"` is a string (the provers have no rule for
string literals). The rest of ProgramAssumption types the constants.

### Only model-checked

* The agreement of a function with its source: MeaningPreserved and LoweredKeepsPace of
  Compile, SimulationMeansLastBuild, EmittedCodeAgrees and ExplainMatchesSource of Program. They
  rest on the meaning of an expression of any length and of statements of any nesting, which is
  an induction over data.
* All liveness (RunReturns, OptimizerReturns, ParseReturns), which is beyond the prover. For the
  optimizer EveryChangeShrinks is the part that is proved: no rewriting for ever.

## 5. Not modelled, and why

* `double`: rounding and NaN would need a model of their own; every operation on int64,
  uint64 and bool is there.
* Wording and layout: printTrace, the presenter, PseudoEmitter, names of blocks, data types
  of values; of the emitter its comments, clobber list and symbol prefixes.
* Compat: stand-ins for parts of the standard library, with the standard's meaning.
* Undefined behaviour on misuse of the DSL: assigning to another function's variable, a
  callback that throws, a moved Function. The hazards name the lines.
* Passes added by the user with addPass.

## 6. Plan

In this order; all three groups are done.

1. *Core (done).* IR, Values, Machine, Simulator with proofs, TimeTravel; Optimizer and
   Translation; Dsl, Lowering, Compile.
2. *Extension (done).* Program with the whole pipeline; the lexer and the parser; the ARM64
   emitter against a machine; Explain and CfgDot on lowered functions; variables of other
   functions as operands.
3. *Proofs (done).* Simulator, with RunIsFresh and the refinement of TimeTravel; Parser,
   with TokensTile and NothingLost; Optimizer, and with the
   simulator OptimizedRunAgrees; Lowering; what the lowering hands over is what
   the optimizer assumes; the arithmetic; Program, with ProgramTypeOK, IRStaysSound and
   GraphShowsExecution.

Abstract specifications: TimeTravel for the simulator and DslSemantics for the front end
exist; an optimizer as "some function that runs the same" is OptimizedRunAgrees, proved.

## 7. Running

```
tlc -workers 2 -config MCSimulator.cfg MCSimulator.tla   # any row of section 3
tlapm Simulator_proofs.tla                               # or any module named *_proofs
```

The cfg of a run is named after it; its module is in `PROJECT.json`. Runs take from a second to two minutes.
