------------------------------ MODULE Program ------------------------------
(***************************************************************************)
(* A Program (dsl/Program.cpp): the functions the user builds with the DSL *)
(* and goes on changing, the IR that build() made of them, optimize(),     *)
(* which rewrites that IR in place, and simulate(), explain() and the      *)
(* emission of ARM64 code, which read it.  Lowering, Optimizer, Machine    *)
(* and Arm64Emitter are composed here, action by action.                   *)
(*                                                                         *)
(* Definitions named Faulty... are slips the code could have made; nothing *)
(* uses them but the mutation runs.                                        *)
(***************************************************************************)
EXTENDS Lowering, ArmMachine, Explain, CfgDot

CONSTANTS PassLists,       \* the optimization levels, as pass lists
          MaxCallDepth,    \* the simulator's limit
          MaxBuilds, MaxOptimizations, MaxEdits, \* bounds: calls of build() and optimize(),
                           \* and statements begun after a build
          MaxStatements, MaxSteps \* bounds: statements and instructions executed

VARIABLES created,  \* m_functions holds the other functions and "main"
          irModule, \* m_irModule, None until there is one
          warned,   \* m_diagnostics holds the warning of an empty program
          meant,    \* the functions irModule was built from (not in the code)
          lowered,  \* irModule as build() left it (not in the code)
          builds, optimizations, edits, \* what the bounds count
          \* the Optimizer of a running optimize()
          optPasses, optFired, optCurrent, optPass, optChanged, optTouched, optCursor,
          optUsed, optReached, optWorklist, optPhase,
          \* a running simulate() or a run of emitted code, and beside it the
          \* execution that the statements prescribe (not in the code)
          meaning, simulation, emitted, arm

optRestVars == <<optFired, optCurrent, optPass, optChanged, optTouched, optCursor, optUsed,
                 optReached, optWorklist>>
optVars     == <<optPasses, optRestVars, optPhase>>
countVars   == <<builds, optimizations, edits>>
runVars     == <<meaning, simulation, emitted, arm>>
programVars == <<dslVars, loweringVars, created, irModule, warned, meant, lowered, countVars,
                 optVars, runVars>>

Opt == INSTANCE Optimizer WITH
  Programs <- {}, PassLists <- {}, MaxRuns <- 1, FoldBinary <- FoldBinaryInt, FoldUnary1 <- FoldUnary,
  IsInt <- IsInt64, IsTrue <- Truth,
  source <- lowered, functions <- irModule, runs <- 1, phase <- optPhase,
  passes <- optPasses, fired <- optFired, current <- optCurrent, pass <- optPass,
  changed <- optChanged, touched <- optTouched, cursor <- optCursor, used <- optUsed,
  reached <- optReached, worklist <- optWorklist

\* The provers have no rule for string literals.
ASSUME ProgramAssumption ==
  /\ "main" \in STRING
  /\ PassLists \subseteq Seq(Opt!PassNames)
  /\ RegValue = AllValues /\ Trap \notin RegValue /\ Trap # None
  /\ MaxCallDepth \in Nat

Source == INSTANCE DslSemantics WITH
  Program <- meant, BinaryOutcomes <- ApplyBinaryOp, UnaryResult <- ApplyUnaryOp,
  CompareResult <- ApplyComparison, IsDivisionByZero <- DividesByZero, IsTrue <- Truth

Target == INSTANCE Machine WITH
  Module <- irModule, BinaryOutcomes <- ApplyBinaryOp, UnaryResult <- ApplyUnaryOp,
  CompareResult <- ApplyComparison, IsDivisionByZero <- DividesByZero, IsTrue <- Truth

Execution(stack, status) == [stack |-> stack, trace |-> <<>>, status |-> status, steps |-> 0]
Waiting  == Execution(<<>>, "waiting")
NothingEmitted == [regs |-> NewRegAlloc, code |-> <<>>]

\* No method of the program is running.
Resting == phase = "dsl" /\ optPhase = "resting" /\ meaning = Waiting

Init ==
  /\ LoweringInit /\ created = FALSE /\ irModule = None /\ warned = FALSE
  /\ meant = <<>> /\ lowered = <<>> /\ builds = 0 /\ optimizations = 0 /\ edits = 0
  /\ optPasses = <<>> /\ optFired = <<>> /\ optCurrent = 1 /\ optPass = 1 /\ optChanged = FALSE
  /\ optTouched = FALSE /\ optCursor = <<1, 1>> /\ optUsed = {} /\ optReached = {}
  /\ optWorklist = {}
  /\ optPhase = "resting"
  /\ meaning = Waiting /\ simulation = Waiting /\ emitted = NothingEmitted /\ arm = ArmStart

\* m_functions.
Functions == IF created THEN Append(OtherFunctions, Built("main")) ELSE <<>>

CreateFunction ==
  /\ Resting /\ ~created /\ created' = TRUE
  /\ UNCHANGED <<dslVars, loweringVars, irModule, warned, meant, lowered, countVars, optVars, runVars>>

\* The user holds a reference to the function and may change it at any time.
EditFunction ==
  /\ Resting /\ created /\ DslNext
  /\ edits' = IF irModule = None THEN 0 ELSE edits + calls' - calls
  /\ edits' <= MaxEdits
  /\ UNCHANGED <<loweringVars, created, irModule, warned, meant, lowered, builds, optimizations,
                 optVars, runVars>>

\* build() of a program without functions warns, and leaves the IR alone.
BuildNothing ==
  /\ Resting /\ Functions = <<>>
  /\ builds < MaxBuilds /\ builds' = builds + 1
  /\ warned' = TRUE
  /\ UNCHANGED <<dslVars, loweringVars, created, irModule, meant, lowered, optimizations, edits,
                 optVars, runVars>>

\* build() calls lower(), which reads m_functions ...
StartBuild ==
  /\ Resting /\ Functions # <<>> /\ Build
  /\ builds < MaxBuilds /\ builds' = builds + 1
  /\ warned' = FALSE
  /\ UNCHANGED <<created, irModule, meant, lowered, optimizations, edits, optVars, runVars>>

LowerFunctions ==
  /\ LoweringStep
  /\ UNCHANGED <<created, irModule, warned, meant, lowered, countVars, optVars, runVars>>

ForgetLowering ==
  /\ input' = <<>> /\ module' = <<>> /\ ir' = <<>> /\ table' = <<>> /\ declared' = 0
  /\ work' = <<>> /\ block' = 0 /\ phase' = "dsl"

FaultyFinishBuild ==
  /\ phase = "built"
  /\ irModule' = IF irModule = None THEN module ELSE irModule
  /\ lowered' = irModule' /\ meant' = input /\ ForgetLowering
  /\ UNCHANGED <<dslVars, created, warned, countVars, optVars, runVars>>

\* ... and its result takes the place of m_irModule.
FinishBuild ==
  /\ phase = "built"
  /\ irModule' = module
  /\ lowered' = module /\ meant' = input /\ ForgetLowering
  /\ UNCHANGED <<dslVars, created, warned, countVars, optVars, runVars>>

\* optimize() makes an optimizer and runs it on m_irModule, if there is one ...
StartOptimize(level) ==
  /\ Resting /\ irModule # None
  /\ optimizations < MaxOptimizations /\ optimizations' = optimizations + 1
  /\ optPasses' = level /\ optPhase' = "start"
  /\ UNCHANGED <<dslVars, loweringVars, created, irModule, warned, meant, lowered, builds, edits,
                 optRestVars, runVars>>

OptimizeFunctions ==
  /\ Opt!OptimizerStep
  /\ UNCHANGED <<dslVars, loweringVars, created, warned, meant, countVars, runVars>>

\* ... and drops it.
FinishOptimize ==
  /\ optPhase = "done" /\ optPhase' = "resting"
  /\ optPasses' = <<>> /\ optFired' = <<>> /\ optCurrent' = 1 /\ optPass' = 1 /\ optChanged' = FALSE
  /\ optTouched' = FALSE /\ optCursor' = <<1, 1>> /\ optUsed' = {} /\ optReached' = {}
  /\ optWorklist' = {}
  /\ UNCHANGED <<dslVars, loweringVars, created, irModule, warned, meant, lowered, countVars, runVars>>
---------------------------------------------------------------------------
unlessRunning == <<dslVars, loweringVars, created, irModule, warned, meant, lowered, countVars, optVars>>

Prescribed == Execution(<<Source!SourceFrame(Source!FunctionNamed("main"))>>, "running")

\* One statement, or one iteration of the simulator's loop.
Extended(exec, e) ==
  [stack |-> e.stack, trace |-> exec.trace \o e.returned, steps |-> exec.steps + 1,
   status |-> IF e.error # "none" THEN e.error ELSE IF e.done THEN "finished" ELSE "running"]

SourceGoesOn    == meaning.status = "running" /\ meaning.steps < MaxStatements
SourceEnded     == meaning.status \notin {"waiting", "running"}
SimulatorGoesOn == SourceEnded /\ simulation.status = "running" /\ simulation.steps < MaxSteps
AsmGoesOn       == /\ SourceEnded /\ emitted.code # <<>> /\ Assembles(emitted.code)
                   /\ arm.status = "running" /\ arm.steps < MaxSteps

ExecuteSource ==
  /\ SourceGoesOn
  /\ meaning' = Extended(meaning, Source!Execute(meaning.stack))
  /\ UNCHANGED <<unlessRunning, simulation, emitted, arm>>

\* simulate() makes a simulator of m_irModule and runs it.
Simulate ==
  /\ Resting /\ irModule # None
  /\ meaning' = Prescribed
  /\ simulation' = Execution(<<Target!EntryFrame("main")>>, "running")
  /\ UNCHANGED <<unlessRunning, emitted, arm>>

SimulatorStep ==
  /\ SimulatorGoesOn
  /\ \E e \in Target!StepOne(simulation.stack) : simulation' = Extended(simulation, e)
  /\ UNCHANGED <<unlessRunning, meaning, emitted, arm>>

MainOf(fns) == fns[CHOOSE k \in DOMAIN fns : fns[k].name = "main"]

\* emitArm64AsmVolatile is called with a function of the IR, and what it
\* emits is assembled and executed.
EmitAsm ==
  /\ Resting /\ irModule # None
  /\ meaning' = Prescribed
  /\ emitted' = EmitFunction(MainOf(irModule))
  /\ UNCHANGED <<unlessRunning, simulation, arm>>

ExecuteAsm ==
  /\ AsmGoesOn
  /\ arm' = [ArmStep(emitted.code, arm) EXCEPT !.steps = arm.steps + 1]
  /\ UNCHANGED <<unlessRunning, meaning, simulation, emitted>>

\* The run is over, or has met its bound.
EndRun ==
  /\ meaning # Waiting /\ ~SourceGoesOn /\ ~SimulatorGoesOn /\ ~AsmGoesOn
  /\ meaning' = Waiting /\ simulation' = Waiting /\ emitted' = NothingEmitted /\ arm' = ArmStart
  /\ UNCHANGED unlessRunning

Next ==
  \/ CreateFunction \/ EditFunction
  \/ BuildNothing \/ StartBuild \/ LowerFunctions \/ FinishBuild
  \/ (\E level \in PassLists : StartOptimize(level)) \/ OptimizeFunctions \/ FinishOptimize
  \/ Simulate \/ SimulatorStep \/ EmitAsm \/ ExecuteAsm \/ ExecuteSource \/ EndRun

Spec == Init /\ [][Next]_programVars
---------------------------------------------------------------------------
\* Types; and a program that has IR does not go on warning that it is empty.
ProgramTypeOK ==
  /\ {created, warned, optChanged, optTouched} \subseteq BOOLEAN
  /\ irModule # None =>
       /\ \A k \in DOMAIN irModule : Opt!WellTyped(irModule[k])
       /\ DOMAIN irModule = DOMAIN meant /\ ~warned
  /\ optPhase \in {"resting"} \cup Opt!Phase
  /\ phase # "dsl" => optPhase = "resting"

\* Whatever the user builds, and at every step of an optimization of it, the
\* constants kept with values are those the instructions compute, branches lead
\* to blocks, the entry block stays, and the block index is right: the lowering
\* establishes what the passes rely on and keep.
IRStaysSound ==
  irModule # None =>
    Opt!ConstantsSound /\ Opt!BranchTargetsExist /\ Opt!EntryKept /\ Opt!BlockIndexFresh

\* simulate() answers for the functions as they were at the last build, whatever
\* was changed since and however often the IR was optimized: it returns the
\* values their statements return, in order, and ends the way they do.  (Of
\* statements that fail, optimized code may leave out the one that does; and a
\* function that begins with a variable that reads itself is left out here.)
SimulationMeansLastBuild ==
  (/\ simulation # Waiting /\ SourceEnded /\ ~ReadsLeftOutValue(MainOf(meant))
   /\ meaning.status = "finished" \/ irModule = lowered) =>
    /\ simulation.steps < MaxSteps
    /\ simulation.status # "running" =>
         simulation.status = meaning.status /\ simulation.trace = meaning.trace

\* The simulator leaves a block for another, or begins it again, along an edge
\* that is labelled with the outcome of the condition, to a node.
GoesAlongEdge ==
  LET frame == Target!Top(simulation.stack)
      next  == Target!Top(simulation'.stack)
      fn    == Target!CachedFunction(frame.fn)
      instr == Target!CachedBlock(frame.fn, frame.block).instrs[frame.pc + 1]
      Label == IF instr.op # "BrTrue" THEN ""
               ELSE IF Truth(Target!ReadValue(simulation.stack, instr.inputs[1])) THEN "T" ELSE "F"
  IN  (/\ simulation'.status = "running" /\ Len(simulation'.stack) = Len(simulation.stack)
       /\ next.block # frame.block \/ next.pc <= frame.pc) =>
        /\ Edge(frame.block, next.block, Label) \in Edges(fn)
        /\ next.block \in Nodes(fn)

\* The graph that toDot() draws of the functions shows where control goes: when
\* simulate() leaves a block for another, or begins it again, there is an edge,
\* labelled with the outcome of the condition, to a node.
GraphShowsExecution == [][SimulatorStep => GoesAlongEdge]_programVars

\* What came of the emitted code is what the statements prescribe.  Where main
\* calls nothing, what is returned first is what main returns; where it returns
\* nothing, an implicit return is the end of the code.
RunsAs(m) ==
  /\ ~EmitThrows(emitted.code) /\ Assembles(emitted.code)
  /\ arm.steps < MaxSteps
  /\ arm.status # "running" =>
       IF m.trace = <<>> THEN arm.status \in {"returned", "behind"}
       ELSE ArmReturns(arm, m.trace[1])

RegistersLast(ra) == \A v \in DOMAIN ra.map : ra.map[v] \in ScratchRegisters \cup 23 .. 28

NoCalls(fn) == CountInstructionTypes(fn).calls = 0

OnlyLastFallsThrough(fn) == \A b \in 1 .. Len(fn.blocks) - 1 : Terminated(fn.blocks[b])

AsmHasMeaning ==
  emitted.code # <<>> /\ meaning.status = "finished" /\ ~ReadsLeftOutValue(MainOf(meant))

\* The emitted ARM64 code does what the function means, if the registers last
\* (x9 to x15, and x23 to x28), the function calls none (bl overwrites the
\* return address, and ABI-complete code is no goal of the project) and no block
\* but the last ends without a terminator.
EmittedCodeAgrees ==
  LET main == MainOf(irModule)
  IN  (AsmHasMeaning /\ RegistersLast(emitted.regs) /\ NoCalls(main) /\ OnlyLastFallsThrough(main)) =>
        RunsAs(meaning)

\* "Register allocator - maps ValueId -> ARM64 scratch register (x9-x15)"
\* (Arm64Emitter.cpp:14): every value of emitted code that is named in it is
\* kept in one of these.
ValuesInScratchRegisters ==
  \A v \in DOMAIN emitted.regs.map : emitted.regs.map[v] \in ScratchRegisters

NestsInIf(stmts) ==
  \E k \in DOMAIN stmts : stmts[k].kind = "if" /\
    \E j \in DOMAIN BodiesOf(stmts[k]) : BodiesOf(stmts[k])[j].kind \in {"while", "if"}

\* What explain() says of a function that was built and not optimized is true
\* of its statements: branches, comparisons, calls and returns, and the loops
\* unless the body of an if holds a control statement.
Unoptimized == Resting /\ irModule # None /\ irModule = lowered

ExplainMatchesSource ==
  Unoptimized =>
    LET fn     == MainOf(irModule)
        stmts  == AllStatements(MainOf(meant).statements)
        n(kinds) == Cardinality({k \in DOMAIN stmts : stmts[k].kind \in kinds})
        counts == CountInstructionTypes(fn)
    IN  /\ CountBranches(fn) = n({"while", "if"})
        /\ counts.comparisons = n({"while", "if"}) /\ counts.calls = n({"call"})
        /\ HasReturnInstruction(fn) = (n({"return"}) > 0)
        /\ ReturnsValue(fn) = \E k \in DOMAIN stmts :
                                stmts[k].kind = "return" /\ stmts[k].value # None
        /\ CountLoops(fn) >= n({"while"})
        /\ ~NestsInIf(stmts) => CountLoops(fn) = n({"while"})

\* "A back-edge (jump to a block with an equal or smaller index) indicates a
\* loop" (Explain.cpp:13).
BackEdgeIsLoop ==
  Unoptimized =>
    LET stmts == AllStatements(MainOf(meant).statements)
    IN  CountLoops(MainOf(irModule)) = Cardinality({k \in DOMAIN stmts : stmts[k].kind = "while"})

=============================================================================
