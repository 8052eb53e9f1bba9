----------------------------- MODULE Simulator -----------------------------
(***************************************************************************)
(* The IR simulator (Simulator.cpp): a machine with a call stack that runs *)
(* a function to completion or one instruction at a time, keeps a snapshot *)
(* of its state before every instruction, and can be rewound.              *)
(*                                                                         *)
(* The object's methods (run, step, rewind, reset) are actions on top of   *)
(* Machine's relation on call stacks; run is the only                      *)
(* one that takes several steps, one per iteration of its loop.            *)
(*                                                                         *)
(* Definitions named Faulty... are slips the code could have made; nothing *)
(* uses them but the mutation runs, to show that a property can fail.      *)
(***************************************************************************)
EXTENDS Machine, FiniteSets

CONSTANTS MaxSteps,             \* the constructor's limit
          MaxHistory, MaxTrace  \* bounds: snapshots and return values kept

ASSUME BoundAssumption ==
  /\ MaxSteps \in Nat /\ MaxHistory \in Nat /\ MaxTrace \in Nat
  /\ MaxSteps < MaxHistory /\ MaxSteps < MaxTrace

VARIABLES callStack, \* m_state.callStack, the running frame last
          history,   \* m_history, the call stacks saved before each instruction
          trace,     \* m_trace, the values returned so far
          done,      \* m_done
          stepCount, \* m_stepCount
          running,   \* the loop of run() is active
          result     \* what the last method call returned

vars == <<callStack, history, trace, done, stepCount, running, result>>

---------------------------------------------------------------------------
Init ==
  /\ callStack = <<>> /\ history = <<>> /\ trace = <<>>
  /\ done = TRUE /\ stepCount = 0
  /\ running = FALSE /\ result = "none"

\* A method may be called: no run() is under way and the process is alive.
Callable == ~running /\ result # "killed"

\* The body common to run() and step(): save the state, execute, with effect e.
Execute(e) ==
  /\ Len(history) < MaxHistory /\ Len(trace) < MaxTrace
  /\ history' = Append(history, callStack)
  /\ callStack' = e.stack
  /\ trace' = trace \o e.returned
  /\ done' = e.done

FaultyCleared ==
  /\ history' = <<>> /\ stepCount' = 0 /\ UNCHANGED trace

Cleared ==
  /\ history' = <<>> /\ trace' = <<>> /\ stepCount' = 0

Reset ==
  /\ Callable
  /\ Cleared
  /\ callStack' = <<>> /\ done' = TRUE
  /\ result' = "none" /\ UNCHANGED running

\* run() of a name the module does not have returns before reset().
RunUnknown(name) ==
  /\ Callable /\ name \notin FunctionNames
  /\ result' = "UnknownFunction"
  /\ UNCHANGED <<callStack, history, trace, done, stepCount, running>>

RunStart(name) ==
  /\ Callable /\ name \in FunctionNames
  /\ Cleared
  /\ callStack' = <<EntryFrame(name)>>
  /\ done' = FALSE /\ running' = TRUE /\ result' = "none"

FaultyRunResultDoneFirst(e, returned) ==
  IF e.error # "none" THEN e.error
  ELSE IF e.done THEN IF returned = <<>> THEN "void" ELSE "value"
  ELSE IF stepCount + 1 > MaxSteps THEN "MaxStepsExceeded" ELSE "none"

FaultyRunResultNoLimit(e, returned) ==
  IF e.error # "none" THEN e.error
  ELSE IF ~e.done THEN "none" ELSE IF returned = <<>> THEN "void" ELSE "value"

\* What run() returns after an iteration, "none" when it goes round again.
RunResult(e, returned) ==
  IF e.error # "none" THEN e.error
  ELSE IF stepCount + 1 > MaxSteps THEN "MaxStepsExceeded"
  ELSE IF ~e.done THEN "none"
  ELSE IF returned = <<>> THEN "void" ELSE "value"

RunIteration ==
  /\ running
  /\ \E e \in StepOne(callStack) :
       /\ Execute(e)
       /\ stepCount' = IF e.error = "none" THEN stepCount + 1 ELSE stepCount
       /\ result' = RunResult(e, trace')
       /\ running' = (result' = "none")

StepDone ==
  /\ Callable /\ done
  /\ result' = "false"
  /\ UNCHANGED <<callStack, history, trace, done, stepCount, running>>

Step ==
  /\ Callable /\ ~done
  /\ \E e \in StepOne(callStack) :
       /\ Execute(e)
       /\ result' = IF e.error # "none" THEN e.error ELSE IF e.done THEN "false" ELSE "true"
  /\ UNCHANGED <<stepCount, running>>

FaultyRewind(steps) ==
  LET kept == IF steps < Len(history) THEN Len(history) - steps ELSE 0
  IN  /\ Callable
      /\ history' = SubSeq(history, 1, kept)
      /\ done' = (done /\ kept = 0)
      /\ result' = "none"
      /\ UNCHANGED <<callStack, trace, stepCount, running>>

Rewind(steps) ==
  LET kept == IF steps < Len(history) THEN Len(history) - steps ELSE 0
  IN  /\ Callable
      /\ history' = SubSeq(history, 1, kept)
      /\ IF kept > 0 THEN callStack' = history[kept] /\ done' = FALSE
                     ELSE UNCHANGED <<callStack, done>>
      /\ result' = "none"
      /\ UNCHANGED <<trace, stepCount, running>>

Next ==
  \/ \E name \in FunctionNames : RunStart(name)
  \/ RunUnknown("no such function")
  \/ RunIteration
  \/ StepDone
  \/ Step
  \/ \E steps \in 0 .. MaxHistory : Rewind(steps)
  \/ Reset

Spec == Init /\ [][Next]_vars

\* run() is a loop on its caller's thread: nothing can suspend it for ever.
FairSpec == Spec /\ WF_vars(RunIteration)

---------------------------------------------------------------------------
\* Types of the simulator's members (Simulator.hpp, SimState.hpp).
TypeOK ==
  /\ callStack \in Seq(Frame)
  /\ history \in Seq(Seq(Frame))
  /\ trace \in Seq(RegValue)
  /\ done \in BOOLEAN /\ running \in BOOLEAN
  /\ stepCount \in Nat
  /\ result \in SimError \cup {"none", "value", "void", "true", "false", "killed"}

\* Whatever mixture of run, step and rewind was called, the snapshots followed
\* by the current state are an execution of the program: each is what one
\* instruction makes of the one before, or the same state again (step() after
\* rewind() saves a second time the state rewind() restored).  After a rewind
\* that leaves no snapshot nothing relates the state to the history.
HistoryIsExecution ==
  LET states == Append(history, callStack)
  IN  \A k \in DOMAIN history : states[k + 1] \in Successors(states[k]) \cup {states[k]}

\* Every frame under the top one waits just behind a Call of the function the
\* next frame runs: returns always come back to the call that was made.
ReturnAddresses(stack) ==
  \A k \in 1 .. Len(stack) - 1 :
    LET caller == stack[k]
        block  == CachedBlock(caller.fn, caller.block)
    IN  /\ block # None
        /\ caller.pc \in DOMAIN block.instrs
        /\ block.instrs[caller.pc].op = "Call"
        /\ block.instrs[caller.pc].callee = stack[k + 1].fn

CallsMatchFrames ==
  /\ ReturnAddresses(callStack)
  /\ \A k \in DOMAIN history : ReturnAddresses(history[k])

\* At most one frame is pushed beyond maxCallDepth, and no instruction of that
\* frame is ever executed.
WithinDepth(stack) ==
  /\ Len(stack) <= MaxCallDepth + 1
  /\ Len(stack) = MaxCallDepth + 1 => Top(stack) = EntryFrame(Top(stack).fn)

CallDepthBounded ==
  /\ WithinDepth(callStack)
  /\ \A k \in DOMAIN history : WithinDepth(history[k])

\* An execution that is not over has a frame to go on with, in the current
\* state and in every snapshot rewind() may restore as not done: stepOne never
\* meets an empty stack, nor a frame of a function it does not know.
Resumable(stack) ==
  stack # <<>> /\ \A k \in DOMAIN stack : stack[k].fn \in FunctionNames

ResumableWhenNotDone ==
  /\ ~done => Resumable(callStack)
  /\ \A k \in DOMAIN history : Resumable(history[k])

\* run() starts from a clean slate and accounts for every instruction: while
\* it loops and when it returns, one snapshot per counted step (one more when
\* the last step failed); it answers with a value or nothing only when the
\* execution ended within maxSteps, and gives up exactly one step beyond.
RunAccounting ==
  /\ running => ~done /\ stepCount = Len(history) /\ stepCount <= MaxSteps
  /\ result \in {"value", "void"} =>
       done /\ stepCount = Len(history) /\ stepCount \in 1 .. MaxSteps
  /\ result = "value" => trace # <<>>
  /\ result = "MaxStepsExceeded" => stepCount = MaxSteps + 1 /\ Len(history) = stepCount

\* run() answers for its own execution only: it began in the entry frame of a
\* function, and the trace has one value for each of its instructions that
\* returned one, none from an earlier run or from steps since rewound.
Returning(stack) == \E e \in StepOne(stack) : e.returned # <<>>

RunIsFresh ==
  (running \/ result \in {"value", "void", "MaxStepsExceeded"}) =>
    /\ history # <<>> => history[1] = <<EntryFrame(history[1][1].fn)>>
    /\ Len(trace) = Cardinality({k \in DOMAIN history : Returning(history[k])})

\* The return value of a function that returns nothing is nothing
\* (SimulatorTest.cpp, ReturnVoid).
VoidReturnsNothing ==
  result = "value" =>
    LET frame == Top(history[Len(history)])
        instr == CachedBlock(frame.fn, frame.block).instrs[frame.pc + 1]
    IN  instr.op = "Ret" /\ instr.inputs # <<>>

\* "Call: output = return value" (IRTypes.hpp): when a callee returns a value
\* to a call that has an output, the caller reads that value there.
CallOutputIsReturnValue ==
  [][ LET caller == Top(callStack')
          call   == CachedBlock(caller.fn, caller.block).instrs[caller.pc]
      IN  (/\ Len(callStack) = Len(callStack') + 1 /\ callStack' # <<>>
           /\ Len(trace') = Len(trace) + 1 /\ call.output # None)
          => ReadValue(callStack', call.output) = trace'[Len(trace')] ]_vars

\* "caller ensures rightValue != 0" (Simulator.cpp, BinaryOpVisitor).
DivisorIsEnsured == result # "killed"

\* run() always returns, whatever the function loops or recurses over.
RunReturns == running ~> ~running
===========================================================================
