------------------------------ MODULE Machine ------------------------------
(***************************************************************************)
(* What executing one instruction does to the simulator's call stack       *)
(* (Simulator.cpp, stepOne and its handlers).  Execution is a relation on  *)
(* call stacks: StepOne(stack) is the set of effects one instruction may   *)
(* have, several only where the C++ operation is undefined.                *)
(*                                                                         *)
(* Definitions named Faulty... are slips the code could have made; nothing *)
(* uses them but the mutation runs, to show that a property can fail.      *)
(***************************************************************************)
EXTENDS IR, FiniteSetsExt

CONSTANTS Module,        \* the functions of the IRModule, in order
          MaxCallDepth,  \* the simulator's limit on the call stack
          RegValue,      \* run-time values, and the operations on them
          BinaryOutcomes(_, _, _), UnaryResult(_, _), CompareResult(_, _, _),
          IsDivisionByZero(_, _), IsTrue(_)

ModuleAssumption ==
  /\ Module \in Seq({Module[k] : k \in DOMAIN Module})
  /\ \A k \in DOMAIN Module : IsIRFunction(Module[k], RegValue)

ArithmeticAssumption ==
  /\ None \notin RegValue /\ Trap \notin RegValue
  /\ \A l, r \in RegValue :
       /\ \A op \in BinaryOp :
            ~IsDivisionByZero(op, r) => BinaryOutcomes(op, l, r) \subseteq RegValue \cup {Trap}
       /\ \A kind \in CmpKind : CompareResult(kind, l, r) \in RegValue
  /\ \A x \in RegValue, op \in UnaryOp : UnaryResult(op, x) \in RegValue

ASSUME MachineAssumption == ModuleAssumption /\ ArithmeticAssumption /\ MaxCallDepth \in Nat

SimError == {"DivisionByZero", "UnknownFunction", "StackOverflow", "TypeMismatch",
             "UnreachableInstruction", "MaxStepsExceeded"}

\* SimFrame and SimState (SimState.hpp); the memory of a SimState is unused.
Frame == [fn : STRING, values : Seq(Optional(RegValue)), block : Nat, pc : Nat]

---------------------------------------------------------------------------
\* The function cache the constructor builds.  Of several functions with one
\* name the last is kept, but a block id keeps the index it got first.
Named(name) == {k \in DOMAIN Module : Module[k].name = name}

FunctionNames == {Module[k].name : k \in DOMAIN Module}

CachedFunction(name) == Module[Max(Named(name))]

BlockAt(function, id) ==
  {b \in DOMAIN function.blocks : function.blocks[b].id = id}

CachedIndex(name, id) ==
  LET holders == {k \in Named(name) : BlockAt(Module[k], id) # {}}
  IN  IF holders = {} THEN 0 ELSE Min(BlockAt(Module[Min(holders)], id))

\* Simulator::findBlock: None when the id is unknown or its index is out of range.
CachedBlock(name, id) ==
  LET blocks == CachedFunction(name).blocks
      index  == CachedIndex(name, id)
  IN  IF index \in DOMAIN blocks THEN blocks[index] ELSE None

EntryFrame(name) ==
  LET function == CachedFunction(name)
  IN  [fn     |-> name,
       values |-> [v \in 1 .. Len(function.values) |-> None],
       block  |-> IF function.blocks = <<>> THEN 0 ELSE function.blocks[1].id,
       pc     |-> 0]

---------------------------------------------------------------------------
\* Reading and writing the values of the running frame.
Top(stack) == stack[Len(stack)]
Pop(stack) == SubSeq(stack, 1, Len(stack) - 1)

ReadValue(stack, id) ==
  LET values    == Top(stack).values
      constants == CachedFunction(Top(stack).fn).values
  IN  CASE id < Len(values) /\ values[id + 1] # None -> values[id + 1]
        [] id >= Len(values) \/ values[id + 1] = None ->
             IF id < Len(constants) THEN constants[id + 1] ELSE None

Written(values, id, x) ==
  [v \in 1 .. (IF id < Len(values) THEN Len(values) ELSE id + 1) |->
     IF v = id + 1 THEN x ELSE IF v <= Len(values) THEN values[v] ELSE None]

WriteValue(stack, id, x) ==
  [stack EXCEPT ![Len(stack)].values = Written(@, id, x)]

FaultyAdvance(stack) == stack
Advance(stack)   == [stack EXCEPT ![Len(stack)].pc = @ + 1]
GoTo(stack, blk) == [stack EXCEPT ![Len(stack)].block = blk, ![Len(stack)].pc = 0]

---------------------------------------------------------------------------
\* The effect of one instruction: the new stack, the values it appends to the
\* trace, whether execution is over, and the error it fails with.
Effect(stack, returned, over, error) ==
  [stack |-> stack, returned |-> returned, done |-> over, error |-> error]

Continue(stack)    == Effect(stack, <<>>, FALSE, "none")
Fail(stack, error) == Effect(stack, <<>>, FALSE, error)

HandleConst(stack, instr) ==
  IF None \in {instr.output, instr.constVal} THEN {Continue(stack)}
  ELSE {Continue(WriteValue(stack, instr.output, instr.constVal))}

\* Instructions that read their operands and write Results(operands); an
\* operand that was never written and is no constant is a type mismatch.
Compute(stack, instr, arity, Results(_)) ==
  LET operands == [k \in 1 .. arity |-> ReadValue(stack, instr.inputs[k])]
  IN  IF Len(instr.inputs) < arity \/ instr.output = None THEN {Continue(stack)}
      ELSE IF \E k \in 1 .. arity : operands[k] = None THEN {Fail(stack, "TypeMismatch")}
      ELSE Results(operands)

Produce(stack, instr, x) ==
  IF x = Trap THEN Fail(stack, "killed") ELSE Continue(WriteValue(stack, instr.output, x))

HandleCopy(stack, instr) ==
  Compute(stack, instr, 1, LAMBDA x : {Produce(stack, instr, x[1])})

HandleBinary(stack, instr) ==
  Compute(stack, instr, 2,
    LAMBDA x : IF IsDivisionByZero(instr.op, x[2]) THEN {Fail(stack, "DivisionByZero")}
               ELSE {Produce(stack, instr, y) : y \in BinaryOutcomes(instr.op, x[1], x[2])})

HandleUnary(stack, instr) ==
  Compute(stack, instr, 1, LAMBDA x : {Produce(stack, instr, UnaryResult(instr.op, x[1]))})

HandleCmp(stack, instr) ==
  IF instr.cmpKind = None THEN {Continue(stack)}
  ELSE Compute(stack, instr, 2,
         LAMBDA x : {Produce(stack, instr, CompareResult(instr.cmpKind, x[1], x[2]))})

HandleJump(stack, instr) ==
  {Continue(IF instr.trueTarget = None THEN stack ELSE GoTo(stack, instr.trueTarget))}

HandleBranch(stack, instr) ==
  LET cond   == ReadValue(stack, instr.inputs[1])
      target == IF IsTrue(cond) THEN instr.trueTarget ELSE instr.falseTarget
  IN  IF instr.inputs = <<>> THEN {Continue(stack)}
      ELSE IF cond = None THEN {Fail(stack, "TypeMismatch")}
      ELSE {Continue(IF target = None THEN stack ELSE GoTo(stack, target))}

\* The arguments and the output of a Call are ignored.
HandleCall(stack, instr) ==
  IF instr.callee = None THEN {Continue(stack)}
  ELSE IF instr.callee \notin FunctionNames THEN {Fail(stack, "UnknownFunction")}
  ELSE {Continue(Append(stack, EntryFrame(instr.callee)))}

FaultyHandleRetUnread(stack, instr) ==
  {Effect(Pop(stack), IF instr.inputs = <<>> THEN <<>> ELSE <<ReadValue(stack, instr.inputs[1])>>,
          Len(stack) = 1, "none")}

FaultyHandleRetNotDone(stack, instr) == {Effect(Pop(stack), <<>>, FALSE, "none")}

\* A value that cannot be read is not returned, silently.
HandleRet(stack, instr) ==
  LET value    == ReadValue(stack, instr.inputs[1])
      returned == IF instr.inputs = <<>> THEN <<>>
                  ELSE IF value = None THEN <<>> ELSE <<value>>
  IN  {Effect(Pop(stack), returned, Len(stack) = 1, "none")}

Handle(stack, instr) ==
  CASE instr.op = "Const"      -> HandleConst(stack, instr)
    [] instr.op = "Copy"       -> HandleCopy(stack, instr)
    [] instr.op \in BinaryOp   -> HandleBinary(stack, instr)
    [] instr.op \in UnaryOp    -> HandleUnary(stack, instr)
    [] instr.op = "Cmp"        -> HandleCmp(stack, instr)
    [] instr.op = "Jmp"        -> HandleJump(stack, instr)
    [] instr.op = "BrTrue"     -> HandleBranch(stack, instr)
    [] instr.op = "Call"       -> HandleCall(stack, instr)
    [] instr.op = "Ret"        -> HandleRet(stack, instr)
    [] instr.op \in {"Load", "Store"} -> {Continue(stack)}

\* A block that ends without a terminator returns to the caller; in the
\* outermost frame it ends the execution and leaves the frame in place.
ImplicitReturn(stack) ==
  IF Len(stack) = 1 THEN {Effect(stack, <<>>, TRUE, "none")} ELSE {Continue(Pop(stack))}

FaultyTooDeep(stack) == Len(stack) > MaxCallDepth + 1
TooDeep(stack) == Len(stack) > MaxCallDepth

\* stepOne: the program counter has moved past the instruction before the
\* instruction is executed, so it stays past one that fails.
StepOne(stack) ==
  LET frame == Top(stack)
      block == CachedBlock(frame.fn, frame.block)
  IN  IF stack = <<>> THEN {Effect(stack, <<>>, TRUE, "none")}
      ELSE IF TooDeep(stack) THEN {Fail(stack, "StackOverflow")}
      ELSE IF frame.fn \notin FunctionNames THEN {Fail(stack, "UnknownFunction")}
      ELSE IF block = None THEN {Fail(stack, "UnreachableInstruction")}
      ELSE IF frame.pc >= Len(block.instrs) THEN ImplicitReturn(stack)
      ELSE Handle(Advance(stack), block.instrs[frame.pc + 1])

\* The stacks one instruction may lead to.
Successors(stack) == {e.stack : e \in StepOne(stack)}
===========================================================================
