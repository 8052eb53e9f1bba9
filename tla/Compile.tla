------------------------------ MODULE Compile ------------------------------
(***************************************************************************)
(* The front end composed with the simulator: the DSL builds a function,   *)
(* the lowering translates it, and the simulator executes what the         *)
(* lowering made of it, next to what the function means (DslSemantics).    *)
(***************************************************************************)
EXTENDS Lowering, Values

CONSTANTS MaxCallDepth, \* the simulator's limit
          MaxStatements \* bound: statements executed

VARIABLES meant,   \* the execution the source prescribes
          executed \* the execution of the lowered function

Source == INSTANCE DslSemantics WITH
  Program <- input, BinaryOutcomes <- ApplyBinaryOp, UnaryResult <- ApplyUnaryOp,
  CompareResult <- ApplyComparison, IsDivisionByZero <- DividesByZero, IsTrue <- Truth

Target == INSTANCE Machine WITH
  Module <- module, BinaryOutcomes <- ApplyBinaryOp, UnaryResult <- ApplyUnaryOp,
  CompareResult <- ApplyComparison, IsDivisionByZero <- DividesByZero, IsTrue <- Truth

compileVars == <<dslVars, loweringVars, meant, executed>>

Execution(stack, status) == [stack |-> stack, trace |-> <<>>, status |-> status, steps |-> 0]
Waiting == Execution(<<>>, "waiting")

Init == LoweringInit /\ meant = Waiting /\ executed = Waiting

Lower == LoweringNext /\ UNCHANGED <<meant, executed>>

Begin ==
  /\ phase = "built" /\ meant = Waiting
  /\ meant' = Execution(<<Source!SourceFrame(Source!FunctionNamed("main"))>>, "running")
  /\ executed' = Execution(<<Target!EntryFrame("main")>>, "running")
  /\ UNCHANGED <<dslVars, loweringVars>>

Extended(exec, e) ==
  [stack |-> e.stack, trace |-> exec.trace \o e.returned, steps |-> exec.steps + 1,
   status |-> IF e.error # "none" THEN e.error ELSE IF e.done THEN "finished" ELSE "running"]

ExecuteSource ==
  /\ meant.status = "running" /\ meant.steps < MaxStatements
  /\ meant' = Extended(meant, Source!Execute(meant.stack))
  /\ UNCHANGED <<dslVars, loweringVars, executed>>

\* The lowered function is executed when its source came to an end.
ExecuteTarget ==
  /\ meant.status \notin {"waiting", "running"} /\ executed.status = "running"
  /\ \E e \in Target!StepOne(executed.stack) : executed' = Extended(executed, e)
  /\ UNCHANGED <<dslVars, loweringVars, meant>>

Next == Lower \/ Begin \/ ExecuteSource \/ ExecuteTarget

Spec == Init /\ [][Next]_compileVars

---------------------------------------------------------------------------
Ended == executed.status \notin {"waiting", "running"}

\* The lowering preserves meaning: what the simulator executes returns the
\* values the source prescribes, in order, and ends the way it does.  (Functions
\* that read a slot the lowering did not write before are left out.)
MeaningPreserved ==
  LET f == input[Len(input)]
  IN  Ended /\ ~ReadsLeftOutValue(f) /\ ~ReadsForeignSlot(f) =>
        executed.status = meant.status /\ executed.trace = meant.trace

\* Between two statements of the source the lowered functions execute no
\* instruction twice: a function that comes to an end comes to an end when it
\* is simulated, well within maxSteps if it is short.
LoweredKeepsPace ==
  LET length(fn) == MapThenSumSet(LAMBDA b : Len(fn.blocks[b].instrs) + 1, DOMAIN fn.blocks)
  IN  executed.steps <= meant.steps * MapThenSumSet(LAMBDA k : length(module[k]), DOMAIN module)

\* "the canonical slot will be written before it is read" (Lowering.cpp, on
\* leaving out the initial value of a variable assigned first).
SlotWrittenBeforeRead == executed.status # "TypeMismatch"
===========================================================================
