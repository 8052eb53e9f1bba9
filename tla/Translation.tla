---------------------------- MODULE Translation ----------------------------
(***************************************************************************)
(* The optimizer composed with the simulator: when the optimizer is done,  *)
(* it may be run on the module again, or a function of the module is       *)
(* executed as it was before and as it is now.                             *)
(***************************************************************************)
EXTENDS Optimizer, Values

CONSTANTS MaxCallDepth, \* the simulator's limit
          MaxSteps      \* bound: instructions executed

VARIABLES before, after \* the executions of the original and of the optimized function

\* The simulator on a module.
Sim(module) == INSTANCE Machine WITH
  Module <- module, RegValue <- AllValues, BinaryOutcomes <- ApplyBinaryOp,
  UnaryResult <- ApplyUnaryOp, CompareResult <- ApplyComparison,
  IsDivisionByZero <- DividesByZero, IsTrue <- Truth

\* An instruction is folded to what executing it may give.
FoldsAsExecuted ==
  /\ \A op \in FoldableOp, x \in AllValues :
       FoldUnary1(op, x) # None => op \in UnaryOp /\ FoldUnary1(op, x) = ApplyUnaryOp(op, x)
  /\ \A op \in FoldableOp, kind \in Optional(CmpKind), l, r \in AllValues :
       IsInt(l) /\ IsInt(r) /\ ~DividesByZero(op, r) =>
         \A c \in FoldBinary(op, kind, l, r) \ {None, Trap} :
           \/ op \in BinaryOp /\ c \in ApplyBinaryOp(op, l, r)
           \/ op = "Cmp" /\ kind # None /\ c = ApplyComparison(kind, l, r)

\* The optimizer folds constants of the simulator's types, as the simulator
\* computes them, and branches on them as it does.
ASSUME TranslationAssumption ==
  /\ RegValue = AllValues /\ MaxCallDepth \in Nat /\ Sim(<<>>)!ArithmeticAssumption
  /\ None \notin IRBlock(AllValues)
  /\ \A x \in AllValues : IsTrue(x) = Truth(x)
  /\ FoldsAsExecuted

Execution(frame) == [stack |-> <<frame>>, trace |-> <<>>, status |-> "running", steps |-> 0]
Waiting == [stack |-> <<>>, trace |-> <<>>, status |-> "waiting", steps |-> 0]

TInit == Init /\ before = Waiting /\ after = Waiting

Optimize == OptimizerStep /\ UNCHANGED <<before, after>>

OptimizeAgain == before = Waiting /\ RunAgain /\ UNCHANGED <<before, after>>

Begin ==
  /\ phase = "done" /\ before = Waiting
  /\ \E k \in DOMAIN source :
       /\ before' = Execution(Sim(source)!EntryFrame(source[k].name))
       /\ after' = Execution(Sim(functions)!EntryFrame(source[k].name))
  /\ UNCHANGED vars

\* One iteration of the simulator's loop.
Extended(exec, e) ==
  [stack |-> e.stack, trace |-> exec.trace \o e.returned, steps |-> exec.steps + 1,
   status |-> IF e.error # "none" THEN e.error ELSE IF e.done THEN "finished" ELSE "running"]

\* The next instruction returns the result of an operation that was not
\* executed, which is nothing, but has since been folded to a constant.
ReturnsUnwritten(stack) ==
  LET frame  == Sim(source)!Top(stack)
      block  == Sim(source)!CachedBlock(frame.fn, frame.block)
      instr  == block.instrs[frame.pc + 1]
      folded == Constant(Sim(functions)!CachedFunction(frame.fn), instr.inputs[1])
  IN  /\ block # None /\ frame.pc < Len(block.instrs)
      /\ instr.op = "Ret" /\ instr.inputs # <<>>
      /\ Sim(source)!ReadValue(stack, instr.inputs[1]) = None /\ folded # None

\* What the original function does next is defined.
IsDefined(stack) ==
  /\ ~ReturnsUnwritten(stack)
  /\ \E e \in Sim(source)!StepOne(stack) : Sim(source)!StepOne(stack) = {e}

ExecuteBefore ==
  /\ before.status = "running" /\ before.steps < MaxSteps
  /\ IF IsDefined(before.stack)
     THEN \E e \in Sim(source)!StepOne(before.stack) : before' = Extended(before, e)
     ELSE before' = [before EXCEPT !.status = "undefined"]
  /\ UNCHANGED <<vars, after>>

ExecuteAfter ==
  /\ before.status # "running"
  /\ after.status = "running" /\ after.steps < MaxSteps
  /\ \E e \in Sim(functions)!StepOne(after.stack) : after' = Extended(after, e)
  /\ UNCHANGED <<vars, before>>

TNext == Optimize \/ OptimizeAgain \/ Begin \/ ExecuteBefore \/ ExecuteAfter

TSpec == TInit /\ [][TNext]_<<vars, before, after>>

\* The optimizer is a plain loop: it is not suspended for ever.
FairTSpec == TSpec /\ WF_<<vars, before, after>>(Optimize)

\* A function that runs to its end before it is optimized does so afterwards,
\* returns the same values along the way, and in no more steps.  (One that
\* fails may come to succeed: a division by zero whose result is not used is
\* dead code to DeadCodeElim.)
OptimizedRunAgrees ==
  before.status = "finished" =>
    /\ after.status \in {"running", "finished"}
    /\ after.status = "finished" => after.trace = before.trace
    /\ after.steps <= before.steps
    /\ after.steps = before.steps => after.status = "finished"
===========================================================================
