-------------------------- MODULE Machine_proofs --------------------------
(***************************************************************************)
(* What one instruction does to the call stack, for every module and every *)
(* arithmetic: it yields a well-typed stack, and it changes the running    *)
(* frame only, calls a function of the module, or returns.                 *)
(***************************************************************************)
EXTENDS Machine, TLAPS, WellFoundedInduction, SequenceTheorems

\* A non-empty set of naturals with an upper bound has a greatest element.
LEMMA BoundedSetHasMax ==
  ASSUME NEW S \in SUBSET Nat, S # {}, NEW n \in Nat, \A k \in S : k <= n
  PROVE  \E k \in S : \A j \in S : j <= k
<1> DEFINE D == {n - k : k \in S}
<1>1. D \subseteq Nat /\ D # {}
  <2>1. \A k \in S : k \in Nat /\ n - k \in Nat
    OBVIOUS
  <2>2. PICK k \in S : TRUE
    OBVIOUS
  <2>3. n - k \in D
    BY <2>2
  <2>4. \A d \in D : d \in Nat
    BY <2>1
  <2> QED BY <2>3, <2>4
<1>2. PICK x \in D : \A y \in D : ~ (<<y, x>> \in OpToRel(<, Nat))
  <2> HIDE DEF D
  <2> QED BY <1>1, NatLessThanWellFounded, WFMin
<1>3. \A y \in D : x <= y
  <2> SUFFICES ASSUME NEW y \in D PROVE x <= y
    OBVIOUS
  <2> HIDE DEF D
  <2>1. x \in Nat /\ y \in Nat
    BY <1>1
  <2>2. ~(y < x)
    BY <1>2, <2>1, ~ (<<y, x>> \in OpToRel(<, Nat)) DEF OpToRel
  <2> QED BY <2>1, <2>2
<1>4. PICK k \in S : x = n - k
  BY <1>2
<1>5. ASSUME NEW j \in S PROVE j <= k
  <2>1. n - j \in D
    OBVIOUS
  <2>2. x <= n - j
    BY <1>3, <2>1
  <2>3. j \in Nat /\ k \in Nat
    OBVIOUS
  <2> QED BY <1>4, <2>2, <2>3
<1>6. QED
  BY <1>5

\* A non-empty set of naturals has a least element.
LEMMA LeastOf ==
  ASSUME NEW S \in SUBSET Nat, S # {}
  PROVE  \E k \in S : \A j \in S : k <= j
<1>1. PICK x \in S : \A y \in S : ~ (<<y, x>> \in OpToRel(<, Nat))
  BY NatLessThanWellFounded, WFMin
<1>2. ASSUME NEW y \in S PROVE x <= y
  <2>1. x \in Nat /\ y \in Nat
    OBVIOUS
  <2>2. ~(y < x)
    BY <1>1, <2>1, ~ (<<y, x>> \in OpToRel(<, Nat)) DEF OpToRel
  <2> QED BY <2>1, <2>2
<1> QED BY <1>2

\* The function cached under a name is a function of the module, with that name.
LEMMA CachedFunctionType ==
  ASSUME NEW name \in FunctionNames
  PROVE  /\ CachedFunction(name).blocks \in Seq(IRBlock(RegValue))
         /\ CachedFunction(name).values \in Seq(Optional(RegValue))
         /\ CachedFunction(name).name \in STRING /\ CachedFunction(name).name = name
         /\ \E k \in DOMAIN Module : CachedFunction(name) = Module[k]
<1>1. ModuleAssumption
  BY MachineAssumption
<1>2. Named(name) \in SUBSET Nat /\ Named(name) # {} /\ \A k \in Named(name) : k <= Len(Module)
  BY <1>1 DEF Named, FunctionNames, ModuleAssumption, IsIRFunction
<1>3. \E k \in Named(name) : \A j \in Named(name) : j <= k
  <2>1. Len(Module) \in Nat
    BY <1>1 DEF ModuleAssumption
  <2> QED BY <1>2, <2>1, BoundedSetHasMax, Zenon
<1>4. PICK k \in Named(name) : CachedFunction(name) = Module[k]
  <2>1. \E k \in Named(name) : \A j \in Named(name) : k >= j
    BY <1>2, <1>3
  <2>2. Max(Named(name)) \in Named(name)
    BY <2>1, Zenon DEF Max
  <2> QED BY <2>2 DEF CachedFunction
<1>5. QED
  BY <1>1, <1>4 DEF Named, ModuleAssumption, IsIRFunction

LEMMA EntryFrameType ==
  ASSUME NEW name \in FunctionNames
  PROVE  /\ EntryFrame(name) \in Frame
         /\ EntryFrame(name).fn = name
<1>1. /\ CachedFunction(name).blocks \in Seq(IRBlock(RegValue))
      /\ CachedFunction(name).values \in Seq(Optional(RegValue))
  BY CachedFunctionType
<1>2. name \in STRING
  BY CachedFunctionType
<1> DEFINE n == Len(CachedFunction(name).values)
           block == IF CachedFunction(name).blocks = <<>> THEN 0 ELSE CachedFunction(name).blocks[1].id
<1>3. [v \in 1 .. n |-> None] \in Seq(Optional(RegValue))
  <2>1. n \in Nat
    BY <1>1
  <2> HIDE DEF n
  <2> QED BY <2>1, IsASeq DEF Optional
<1>4. block \in Nat
  <2>1. CachedFunction(name).blocks \in Seq(IRBlock(RegValue))
    BY <1>1
  <2>2. CASE CachedFunction(name).blocks = <<>>
    BY <2>2
  <2>3. CASE CachedFunction(name).blocks # <<>>
    <3>1. CachedFunction(name).blocks[1] \in IRBlock(RegValue)
      BY <2>1, <2>3
    <3> QED BY <2>3, <3>1 DEF IRBlock
  <2> QED BY <2>2, <2>3
<1>5. QED
  BY <1>2, <1>3, <1>4 DEF EntryFrame, Frame

\* findBlock answers with a block of the function it looks in, or None.
LEMMA CachedBlockType ==
  ASSUME NEW name \in FunctionNames, NEW id \in Nat, CachedBlock(name, id) # None
  PROVE  CachedBlock(name, id) \in IRBlock(RegValue)
<1>1. /\ CachedFunction(name).blocks \in Seq(IRBlock(RegValue))
      /\ CachedFunction(name).values \in Seq(Optional(RegValue))
  BY CachedFunctionType
<1>2. QED
  BY <1>1 DEF CachedBlock

---------------------------------------------------------------------------
\* A change of the running frame only: the callers, and the function that
\* runs, stay as they are.
SameCallers(s, t) ==
  /\ Len(t) = Len(s)
  /\ \A k \in 1 .. Len(s) - 1 : t[k] = s[k]
  /\ t[Len(s)].fn = s[Len(s)].fn

Stack == Seq(Frame) \ {<<>>}

LEMMA TopType ==
  ASSUME NEW stack \in Stack
  PROVE  /\ Len(stack) \in Nat \ {0} /\ Len(stack) \in DOMAIN stack
         /\ Top(stack) \in Frame
BY DEF Stack, Top

\* Replacing the running frame by one of the same function.
LEMMA FrameUpdate ==
  ASSUME NEW stack \in Stack, NEW frame \in Frame, frame.fn = Top(stack).fn,
         NEW t, t = [stack EXCEPT ![Len(stack)] = frame]
  PROVE  t \in Stack /\ SameCallers(stack, t)
<1>1. Len(stack) \in Nat \ {0} /\ Len(stack) \in DOMAIN stack
  BY TopType
<1>2. t \in Seq(Frame) /\ Len(t) = Len(stack) /\ t # <<>>
  BY <1>1 DEF Stack
<1>3. t[Len(stack)] = frame /\ \A k \in 1 .. Len(stack) - 1 : t[k] = stack[k]
  BY <1>1 DEF Stack
<1>4. QED
  BY <1>2, <1>3 DEF Stack, SameCallers, Top

LEMMA AdvanceType ==
  ASSUME NEW stack \in Stack
  PROVE  Advance(stack) \in Stack /\ SameCallers(stack, Advance(stack))
<1> DEFINE frame == [Top(stack) EXCEPT !.pc = @ + 1]
<1>1. Top(stack) \in Frame
  BY TopType
<1>2. frame \in Frame /\ frame.fn = Top(stack).fn
  BY <1>1 DEF Frame
<1>3. Advance(stack) = [stack EXCEPT ![Len(stack)] = frame]
  BY DEF Advance, Top
<1>4. QED
  BY <1>2, <1>3, FrameUpdate

LEMMA GoToType ==
  ASSUME NEW stack \in Stack, NEW b \in Nat
  PROVE  GoTo(stack, b) \in Stack /\ SameCallers(stack, GoTo(stack, b))
<1> DEFINE frame == [Top(stack) EXCEPT !.block = b, !.pc = 0]
<1>1. Top(stack) \in Frame
  BY TopType
<1>2. frame \in Frame /\ frame.fn = Top(stack).fn
  BY <1>1 DEF Frame
<1>3. GoTo(stack, b) = [stack EXCEPT ![Len(stack)] = frame]
  BY TopType DEF GoTo, Top, Stack
<1>4. QED
  BY <1>2, <1>3, FrameUpdate

LEMMA WriteValueType ==
  ASSUME NEW stack \in Stack, NEW id \in Nat, NEW x \in RegValue
  PROVE  WriteValue(stack, id, x) \in Stack /\ SameCallers(stack, WriteValue(stack, id, x))
<1> DEFINE values == Written(Top(stack).values, id, x)
           frame  == [Top(stack) EXCEPT !.values = values]
<1>1. Top(stack) \in Frame /\ Top(stack).values \in Seq(Optional(RegValue))
  BY TopType DEF Frame
<1>2. values \in Seq(Optional(RegValue))
  <2> DEFINE old == Top(stack).values
             n   == IF id < Len(old) THEN Len(old) ELSE id + 1
  <2>1. n \in Nat
    BY <1>1
  <2>2. \A v \in 1 .. n : (IF v = id + 1 THEN x ELSE IF v <= Len(old) THEN old[v] ELSE None)
                           \in Optional(RegValue)
    BY <1>1 DEF Optional
  <2>3. values = [v \in 1 .. n |-> IF v = id + 1 THEN x ELSE IF v <= Len(old) THEN old[v] ELSE None]
    BY DEF Written
  <2> HIDE DEF n
  <2> QED BY <2>1, <2>2, <2>3, IsASeq
<1>3. frame \in Frame /\ frame.fn = Top(stack).fn
  <2> HIDE DEF values
  <2> QED BY <1>1, <1>2 DEF Frame
<1>4. WriteValue(stack, id, x) = [stack EXCEPT ![Len(stack)] = frame]
  BY TopType DEF WriteValue, Top, Stack
<1>5. QED
  BY <1>3, <1>4, FrameUpdate

LEMMA ReadValueType ==
  ASSUME NEW stack \in Stack, Top(stack).fn \in FunctionNames, NEW id \in Nat
  PROVE  ReadValue(stack, id) \in Optional(RegValue)
<1>1. Top(stack).values \in Seq(Optional(RegValue))
  BY TopType DEF Frame
<1>2. CachedFunction(Top(stack).fn).values \in Seq(Optional(RegValue))
  BY CachedFunctionType
<1>3. QED
  BY <1>1, <1>2 DEF ReadValue, Optional

---------------------------------------------------------------------------
EffectOK(e) ==
  /\ e.stack \in Seq(Frame) /\ e.returned \in Seq(RegValue) /\ e.done \in BOOLEAN
  /\ e.error \in (SimError \ {"MaxStepsExceeded"}) \cup {"none", "killed"}

\* The three things an instruction can do to the stack it is executed on.
Local(s, e) == e.stack \in Stack /\ SameCallers(s, e.stack) /\ ~e.done

Called(s, e, instr) ==
  /\ instr.op = "Call" /\ instr.callee \in FunctionNames
  /\ e.stack = Append(s, EntryFrame(instr.callee)) /\ ~e.done

Returned(s, e) == e.stack = Pop(s) /\ e.done = (Len(s) = 1)

LEMMA ContinueLocal ==
  ASSUME NEW s \in Stack, NEW t \in Stack, SameCallers(s, t)
  PROVE  EffectOK(Continue(t)) /\ Local(s, Continue(t))
BY DEF Continue, Effect, EffectOK, Local, Stack

LEMMA SameCallersReflexive ==
  ASSUME NEW s \in Stack
  PROVE  SameCallers(s, s)
BY DEF SameCallers, Stack

LEMMA FailLocal ==
  ASSUME NEW s \in Stack, NEW error \in (SimError \ {"MaxStepsExceeded"}) \cup {"killed"}
  PROVE  EffectOK(Fail(s, error)) /\ Local(s, Fail(s, error))
BY SameCallersReflexive DEF Fail, Effect, EffectOK, Local, Stack

LEMMA ProduceLocal ==
  ASSUME NEW s \in Stack, NEW instr \in IRInstr(RegValue), instr.output # None,
         NEW x \in RegValue \cup {Trap}
  PROVE  EffectOK(Produce(s, instr, x)) /\ Local(s, Produce(s, instr, x))
<1>1. CASE x = Trap
  BY <1>1, FailLocal DEF Produce
<1>2. CASE x # Trap
  <2>1. instr.output \in Nat
    BY DEF IRInstr, Optional
  <2> QED BY <1>2, <2>1, WriteValueType, ContinueLocal DEF Produce
<1> QED BY <1>1, <1>2

\* The operands an instruction reads are values, or missing.
LEMMA OperandType ==
  ASSUME NEW s \in Stack, Top(s).fn \in FunctionNames, NEW instr \in IRInstr(RegValue),
         NEW k \in 1 .. Len(instr.inputs), ReadValue(s, instr.inputs[k]) # None
  PROVE  ReadValue(s, instr.inputs[k]) \in RegValue
<1>1. instr.inputs[k] \in Nat
  BY DEF IRInstr
<1> QED BY <1>1, ReadValueType DEF Optional

LEMMA HandleBinaryShape ==
  ASSUME NEW s \in Stack, Top(s).fn \in FunctionNames, NEW instr \in IRInstr(RegValue),
         instr.op \in BinaryOp, NEW e \in HandleBinary(s, instr)
  PROVE  EffectOK(e) /\ Local(s, e)
<1> DEFINE x == [k \in 1 .. 2 |-> ReadValue(s, instr.inputs[k])]
<1>1. CASE Len(instr.inputs) < 2 \/ instr.output = None
  <2>1. e = Continue(s)
    BY <1>1 DEF HandleBinary, Compute
  <2> QED BY <2>1, ContinueLocal, SameCallersReflexive
<1>2. CASE ~(Len(instr.inputs) < 2 \/ instr.output = None) /\ \E k \in 1 .. 2 : x[k] = None
  <2>1. e = Fail(s, "TypeMismatch")
    BY <1>2 DEF HandleBinary, Compute
  <2> QED BY <2>1, FailLocal DEF SimError
<1>3. CASE ~(Len(instr.inputs) < 2 \/ instr.output = None) /\ \A k \in 1 .. 2 : x[k] # None
  <2>1. Len(instr.inputs) \in Nat
    BY DEF IRInstr
  <2>2. x[1] \in RegValue /\ x[2] \in RegValue
    BY <1>3, <2>1, OperandType
  <2>3. CASE IsDivisionByZero(instr.op, x[2])
    <3>1. e = Fail(s, "DivisionByZero")
      BY <1>3, <2>3 DEF HandleBinary, Compute
    <3> QED BY <3>1, FailLocal DEF SimError
  <2>4. CASE ~IsDivisionByZero(instr.op, x[2])
    <3>1. PICK y \in BinaryOutcomes(instr.op, x[1], x[2]) : e = Produce(s, instr, y)
      BY <1>3, <2>4 DEF HandleBinary, Compute
    <3>2. y \in RegValue \cup {Trap}
      BY <2>2, <2>4, MachineAssumption DEF ArithmeticAssumption
    <3> QED BY <1>3, <3>1, <3>2, ProduceLocal
  <2> QED BY <2>3, <2>4
<1> QED BY <1>1, <1>2, <1>3

LEMMA HandleCopyShape ==
  ASSUME NEW s \in Stack, Top(s).fn \in FunctionNames, NEW instr \in IRInstr(RegValue),
         NEW e \in HandleCopy(s, instr)
  PROVE  EffectOK(e) /\ Local(s, e)
<1> DEFINE x == ReadValue(s, instr.inputs[1])
<1>1. CASE Len(instr.inputs) < 1 \/ instr.output = None
  <2>1. e = Continue(s)
    BY <1>1 DEF HandleCopy, Compute
  <2> QED BY <2>1, ContinueLocal, SameCallersReflexive
<1>2. CASE ~(Len(instr.inputs) < 1 \/ instr.output = None) /\ x = None
  <2>1. e = Fail(s, "TypeMismatch")
    BY <1>2 DEF HandleCopy, Compute
  <2> QED BY <2>1, FailLocal DEF SimError
<1>3. CASE ~(Len(instr.inputs) < 1 \/ instr.output = None) /\ x # None
  <2>1. Len(instr.inputs) \in Nat
    BY DEF IRInstr
  <2>2. x \in RegValue
    BY <1>3, <2>1, OperandType
  <2>3. e = Produce(s, instr, x)
    BY <1>3 DEF HandleCopy, Compute
  <2>4. x \in RegValue
    BY <2>2
  <2> QED BY <1>3, <2>3, <2>4, ProduceLocal
<1> QED BY <1>1, <1>2, <1>3

LEMMA HandleUnaryShape ==
  ASSUME NEW s \in Stack, Top(s).fn \in FunctionNames, NEW instr \in IRInstr(RegValue),
         instr.op \in UnaryOp, NEW e \in HandleUnary(s, instr)
  PROVE  EffectOK(e) /\ Local(s, e)
<1> DEFINE x == ReadValue(s, instr.inputs[1])
<1>1. CASE Len(instr.inputs) < 1 \/ instr.output = None
  <2>1. e = Continue(s)
    BY <1>1 DEF HandleUnary, Compute
  <2> QED BY <2>1, ContinueLocal, SameCallersReflexive
<1>2. CASE ~(Len(instr.inputs) < 1 \/ instr.output = None) /\ x = None
  <2>1. e = Fail(s, "TypeMismatch")
    BY <1>2 DEF HandleUnary, Compute
  <2> QED BY <2>1, FailLocal DEF SimError
<1>3. CASE ~(Len(instr.inputs) < 1 \/ instr.output = None) /\ x # None
  <2>1. Len(instr.inputs) \in Nat
    BY DEF IRInstr
  <2>2. x \in RegValue
    BY <1>3, <2>1, OperandType
  <2>3. e = Produce(s, instr, UnaryResult(instr.op, x))
    BY <1>3 DEF HandleUnary, Compute
  <2>4. UnaryResult(instr.op, x) \in RegValue
    BY <2>2, MachineAssumption DEF ArithmeticAssumption
  <2> QED BY <1>3, <2>3, <2>4, ProduceLocal
<1> QED BY <1>1, <1>2, <1>3

LEMMA HandleCmpShape ==
  ASSUME NEW s \in Stack, Top(s).fn \in FunctionNames, NEW instr \in IRInstr(RegValue),
         NEW e \in HandleCmp(s, instr)
  PROVE  EffectOK(e) /\ Local(s, e)
<1> DEFINE x == [k \in 1 .. 2 |-> ReadValue(s, instr.inputs[k])]
<1>1. CASE instr.cmpKind = None \/ Len(instr.inputs) < 2 \/ instr.output = None
  <2>1. e = Continue(s)
    BY <1>1 DEF HandleCmp, Compute
  <2> QED BY <2>1, ContinueLocal, SameCallersReflexive
<1>2. CASE ~(instr.cmpKind = None \/ Len(instr.inputs) < 2 \/ instr.output = None)
           /\ \E k \in 1 .. 2 : x[k] = None
  <2>1. e = Fail(s, "TypeMismatch")
    BY <1>2 DEF HandleCmp, Compute
  <2> QED BY <2>1, FailLocal DEF SimError
<1>3. CASE ~(instr.cmpKind = None \/ Len(instr.inputs) < 2 \/ instr.output = None)
           /\ \A k \in 1 .. 2 : x[k] # None
  <2>1. Len(instr.inputs) \in Nat /\ instr.cmpKind \in CmpKind
    BY <1>3 DEF IRInstr, Optional
  <2>2. x[1] \in RegValue /\ x[2] \in RegValue
    BY <1>3, <2>1, OperandType
  <2>3. e = Produce(s, instr, CompareResult(instr.cmpKind, x[1], x[2]))
    BY <1>3 DEF HandleCmp, Compute
  <2>4. CompareResult(instr.cmpKind, x[1], x[2]) \in RegValue
    BY <2>1, <2>2, MachineAssumption DEF ArithmeticAssumption
  <2> QED BY <1>3, <2>3, <2>4, ProduceLocal
<1> QED BY <1>1, <1>2, <1>3

LEMMA HandleConstShape ==
  ASSUME NEW s \in Stack, NEW instr \in IRInstr(RegValue), NEW e \in HandleConst(s, instr)
  PROVE  EffectOK(e) /\ Local(s, e)
<1>1. CASE None \in {instr.output, instr.constVal}
  BY <1>1, ContinueLocal, SameCallersReflexive DEF HandleConst
<1>2. CASE None \notin {instr.output, instr.constVal}
  <2>1. instr.output \in Nat /\ instr.constVal \in RegValue
    BY <1>2 DEF IRInstr, Optional
  <2> QED BY <1>2, <2>1, WriteValueType, ContinueLocal DEF HandleConst
<1> QED BY <1>1, <1>2

LEMMA HandleJumpShape ==
  ASSUME NEW s \in Stack, NEW instr \in IRInstr(RegValue), NEW e \in HandleJump(s, instr)
  PROVE  EffectOK(e) /\ Local(s, e)
<1>1. instr.trueTarget \in Optional(Nat)
  BY DEF IRInstr
<1> QED BY <1>1, GoToType, ContinueLocal, SameCallersReflexive DEF HandleJump, Optional

LEMMA HandleBranchShape ==
  ASSUME NEW s \in Stack, NEW instr \in IRInstr(RegValue), NEW e \in HandleBranch(s, instr)
  PROVE  EffectOK(e) /\ Local(s, e)
<1> DEFINE cond   == ReadValue(s, instr.inputs[1])
           target == IF IsTrue(cond) THEN instr.trueTarget ELSE instr.falseTarget
<1>1. target \in Optional(Nat)
  BY DEF IRInstr
<1>2. \/ e = Continue(s) \/ e = Fail(s, "TypeMismatch")
      \/ target # None /\ e = Continue(GoTo(s, target))
  BY DEF HandleBranch
<1> QED BY <1>1, <1>2, GoToType, ContinueLocal, SameCallersReflexive, FailLocal DEF Optional, SimError

LEMMA HandleCallShape ==
  ASSUME NEW s \in Stack, NEW instr \in IRInstr(RegValue), instr.op = "Call",
         NEW e \in HandleCall(s, instr)
  PROVE  EffectOK(e) /\ (Local(s, e) \/ Called(s, e, instr))
<1>1. CASE instr.callee = None
  BY <1>1, ContinueLocal, SameCallersReflexive DEF HandleCall
<1>2. CASE instr.callee # None /\ instr.callee \notin FunctionNames
  BY <1>2, FailLocal DEF HandleCall, SimError
<1>3. CASE instr.callee # None /\ instr.callee \in FunctionNames
  <2>1. e = Continue(Append(s, EntryFrame(instr.callee)))
    BY <1>3 DEF HandleCall
  <2>2. EntryFrame(instr.callee) \in Frame
    BY <1>3, EntryFrameType
  <2> QED BY <1>3, <2>1, <2>2 DEF Called, EffectOK, Continue, Effect, Stack
<1> QED BY <1>1, <1>2, <1>3

LEMMA PopType ==
  ASSUME NEW s \in Stack
  PROVE  /\ Pop(s) \in Seq(Frame) /\ Len(Pop(s)) = Len(s) - 1
         /\ \A k \in 1 .. Len(s) - 1 : Pop(s)[k] = s[k]
<1>1. s \in Seq(Frame) /\ Len(s) \in Nat /\ Len(s) >= 1
  BY DEF Stack
<1> DEFINE n == Len(s) - 1
<1>2. n \in Nat /\ n < Len(s)
  BY <1>1
<1>3. \A k \in 1 .. n : s[k] \in Frame
  BY <1>1, <1>2
<1>4. /\ SubSeq(s, 1, n) \in Seq(Frame)
      /\ Len(SubSeq(s, 1, n)) = IF 1 <= n THEN n - 1 + 1 ELSE 0
      /\ \A k \in 1 .. n - 1 + 1 : SubSeq(s, 1, n)[k] = s[1 + k - 1]
  <2>1. n \in Int /\ 1 \in Int
    BY <1>2
  <2> HIDE DEF n
  <2> QED BY <1>3, <2>1, SubSeqProperties
<1>5. Pop(s) = SubSeq(s, 1, n)
  BY DEF Pop
<1> HIDE DEF n
<1>6. Len(Pop(s)) = n /\ \A k \in 1 .. n : Pop(s)[k] = s[k]
  BY <1>2, <1>4, <1>5
<1> QED BY <1>4, <1>5, <1>6 DEF n

LEMMA HandleRetShape ==
  ASSUME NEW s \in Stack, Top(s).fn \in FunctionNames, NEW instr \in IRInstr(RegValue),
         NEW e \in HandleRet(s, instr)
  PROVE  EffectOK(e) /\ Returned(s, e)
<1> DEFINE value    == ReadValue(s, instr.inputs[1])
           returned == IF instr.inputs = <<>> THEN <<>>
                       ELSE IF value = None THEN <<>> ELSE <<value>>
<1>1. e = Effect(Pop(s), returned, Len(s) = 1, "none")
  BY DEF HandleRet
<1>2. returned \in Seq(RegValue)
  <2>1. CASE instr.inputs = <<>> \/ value = None
    BY <2>1
  <2>2. CASE instr.inputs # <<>> /\ value # None
    <3>1. 1 \in 1 .. Len(instr.inputs)
      BY <2>2 DEF IRInstr
    <3>2. value \in RegValue
      BY <2>2, <3>1, OperandType
    <3> QED BY <2>2, <3>2
  <2> QED BY <2>1, <2>2
<1> HIDE DEF returned
<1> QED BY <1>1, <1>2, PopType DEF Effect, EffectOK, Returned

LEMMA HandleShape ==
  ASSUME NEW s \in Stack, Top(s).fn \in FunctionNames, NEW instr \in IRInstr(RegValue),
         NEW e \in Handle(s, instr)
  PROVE  /\ EffectOK(e)
         /\ Local(s, e) \/ Called(s, e, instr) \/ Returned(s, e)
<1>1. CASE instr.op \in BinaryOp
  BY <1>1, HandleBinaryShape DEF Handle, BinaryOp, UnaryOp
<1>2. CASE instr.op \in UnaryOp
  BY <1>2, HandleUnaryShape DEF Handle, BinaryOp, UnaryOp
<1>3. CASE instr.op = "Const"
  BY <1>3, HandleConstShape DEF Handle, BinaryOp, UnaryOp
<1>4. CASE instr.op = "Copy"
  BY <1>4, HandleCopyShape DEF Handle, BinaryOp, UnaryOp
<1>5. CASE instr.op = "Cmp"
  BY <1>5, HandleCmpShape DEF Handle, BinaryOp, UnaryOp
<1>6. CASE instr.op = "Jmp"
  BY <1>6, HandleJumpShape DEF Handle, BinaryOp, UnaryOp
<1>7. CASE instr.op = "BrTrue"
  BY <1>7, HandleBranchShape DEF Handle, BinaryOp, UnaryOp
<1>8. CASE instr.op = "Call"
  BY <1>8, HandleCallShape DEF Handle, BinaryOp, UnaryOp
<1>9. CASE instr.op = "Ret"
  BY <1>9, HandleRetShape DEF Handle, BinaryOp, UnaryOp
<1>10. CASE instr.op \in {"Load", "Store"}
  BY <1>10, ContinueLocal, SameCallersReflexive DEF Handle, BinaryOp, UnaryOp
<1> QED
  BY <1>1, <1>2, <1>3, <1>4, <1>5, <1>6, <1>7, <1>8, <1>9, <1>10 DEF IRInstr, IROp

---------------------------------------------------------------------------
\* What one instruction does to a stack whose functions the module has: the
\* call stack below the running frame stays; or, short of the depth limit, the
\* Call just passed adds the entry frame of its callee; or the frame returns.
RanOffTheEnd(s, e) ==
  IF Len(s) = 1 THEN e.stack = s /\ e.done ELSE e.stack = Pop(s) /\ ~e.done

Stepped(s, e) ==
  \/ Local(s, e) /\ (Len(s) > MaxCallDepth => e.stack = s)
  \/ /\ Len(s) <= MaxCallDepth
     /\ \E instr \in IRInstr(RegValue) :
          LET block == CachedBlock(Top(s).fn, Top(s).block)
          IN  /\ Called(Advance(s), e, instr)
              /\ block # None /\ Top(s).pc + 1 \in DOMAIN block.instrs
              /\ block.instrs[Top(s).pc + 1] = instr
  \/ Returned(s, e)
  \/ RanOffTheEnd(s, e)

LEMMA SameCallersTransitive ==
  ASSUME NEW s \in Stack, NEW t \in Stack, NEW u \in Stack,
         SameCallers(s, t), SameCallers(t, u)
  PROVE  SameCallers(s, u)
BY DEF SameCallers, Stack

LEMMA PopAdvance ==
  ASSUME NEW s \in Stack
  PROVE  Pop(Advance(s)) = Pop(s) /\ Len(Advance(s)) = Len(s)
<1>1. Advance(s) \in Stack /\ SameCallers(s, Advance(s))
  BY AdvanceType
<1>2. Len(Advance(s)) = Len(s) /\ \A k \in 1 .. Len(s) - 1 : Advance(s)[k] = s[k]
  BY <1>1 DEF SameCallers
<1>3. /\ Pop(s) \in Seq(Frame) /\ Len(Pop(s)) = Len(s) - 1
      /\ \A k \in 1 .. Len(s) - 1 : Pop(s)[k] = s[k]
  BY PopType
<1>4. /\ Pop(Advance(s)) \in Seq(Frame) /\ Len(Pop(Advance(s))) = Len(s) - 1
      /\ \A k \in 1 .. Len(s) - 1 : Pop(Advance(s))[k] = Advance(s)[k]
  BY <1>1, <1>2, PopType
<1>5. \A k \in 1 .. Len(Pop(s)) : Pop(Advance(s))[k] = Pop(s)[k]
  BY <1>2, <1>3, <1>4
<1>6. Pop(Advance(s)) = Pop(s)
  BY <1>3, <1>4, <1>5, SeqEqual
<1> QED BY <1>2, <1>6

LEMMA StepShape ==
  ASSUME NEW s \in Stack, Top(s).fn \in FunctionNames, NEW e \in StepOne(s)
  PROVE  EffectOK(e) /\ Stepped(s, e)
<1> DEFINE frame == Top(s)
           block == CachedBlock(frame.fn, frame.block)
           instr == block.instrs[frame.pc + 1]
<1>1. s # <<>> /\ frame \in Frame /\ s \in Seq(Frame)
  BY TopType DEF Stack
<1>2. CASE TooDeep(s)
  <2>1. e = Fail(s, "StackOverflow")
    BY <1>1, <1>2 DEF StepOne
  <2>2. e.stack = s
    BY <2>1 DEF Fail, Effect
  <2> QED BY <2>1, <2>2, FailLocal DEF Stepped, SimError
<1>3. CASE ~TooDeep(s) /\ block = None
  <2>1. e = Fail(s, "UnreachableInstruction")
    BY <1>1, <1>3 DEF StepOne
  <2>2. e.stack = s
    BY <2>1 DEF Fail, Effect
  <2> QED BY <2>1, <2>2, FailLocal DEF Stepped, SimError
<1>4. CASE ~TooDeep(s) /\ block # None /\ frame.pc >= Len(block.instrs)
  <2>1. e \in ImplicitReturn(s)
    BY <1>1, <1>4 DEF StepOne
  <2>2. CASE Len(s) = 1
    <3>1. e = Effect(s, <<>>, TRUE, "none")
      BY <2>1, <2>2 DEF ImplicitReturn
    <3>2. EffectOK(e) /\ RanOffTheEnd(s, e)
      BY <1>1, <2>2, <3>1 DEF Effect, EffectOK, RanOffTheEnd
    <3> QED BY <3>2 DEF Stepped
  <2>3. CASE Len(s) # 1
    <3>1. e = Effect(Pop(s), <<>>, FALSE, "none")
      BY <2>1, <2>3 DEF ImplicitReturn, Continue
    <3>2. EffectOK(e) /\ RanOffTheEnd(s, e)
      BY <1>1, <2>3, <3>1, PopType DEF Effect, EffectOK, RanOffTheEnd
    <3> QED BY <3>2 DEF Stepped
  <2> QED BY <2>2, <2>3
<1>5. CASE ~TooDeep(s) /\ block # None /\ ~(frame.pc >= Len(block.instrs))
  <2>1. block \in IRBlock(RegValue) /\ frame.pc \in Nat
    BY <1>1, <1>5, CachedBlockType DEF Frame
  <2>2. frame.pc + 1 \in DOMAIN block.instrs /\ instr \in IRInstr(RegValue)
    BY <1>5, <2>1 DEF IRBlock
  <2>3. e \in Handle(Advance(s), instr)
    BY <1>1, <1>5 DEF StepOne
  <2>4. /\ Advance(s) \in Stack /\ SameCallers(s, Advance(s))
        /\ Top(Advance(s)).fn \in FunctionNames
    <3>1. Advance(s) \in Stack /\ SameCallers(s, Advance(s))
      BY AdvanceType
    <3>2. Len(Advance(s)) = Len(s) /\ Advance(s)[Len(s)].fn = s[Len(s)].fn
      BY <3>1 DEF SameCallers
    <3> QED BY <3>1, <3>2 DEF Top
  <2>5. /\ EffectOK(e)
        /\ Local(Advance(s), e) \/ Called(Advance(s), e, instr) \/ Returned(Advance(s), e)
    BY <2>2, <2>3, <2>4, HandleShape
  <2>6. Len(s) <= MaxCallDepth
    BY <1>1, <1>5, MachineAssumption DEF TooDeep
  <2>7. CASE Local(Advance(s), e)
    <3>1. SameCallers(s, e.stack)
      BY <2>4, <2>7, SameCallersTransitive DEF Local
    <3>2. ~(Len(s) > MaxCallDepth)
      BY <1>1, <2>6, MachineAssumption
    <3> QED BY <2>5, <2>7, <3>1, <3>2 DEF Local, Stepped
  <2>8. CASE Called(Advance(s), e, instr)
    BY <1>5, <2>2, <2>5, <2>6, <2>8 DEF Stepped
  <2>9. CASE Returned(Advance(s), e)
    BY <2>5, <2>9, PopAdvance DEF Returned, Stepped
  <2> QED BY <2>5, <2>7, <2>8, <2>9
<1> QED BY <1>2, <1>3, <1>4, <1>5

---------------------------------------------------------------------------
\* The functions of a stack are functions of the module, and remain so.
Known(stack) == \A k \in DOMAIN stack : stack[k].fn \in FunctionNames

LEMMA StepKnown ==
  ASSUME NEW s \in Stack, Known(s), NEW e \in StepOne(s)
  PROVE  EffectOK(e) /\ Known(e.stack)
<1>1. Len(s) \in Nat \ {0} /\ s \in Seq(Frame) /\ DOMAIN s = 1 .. Len(s)
  BY TopType DEF Stack
<1>2. Top(s).fn \in FunctionNames
  BY <1>1 DEF Known, Top
<1>3. EffectOK(e) /\ Stepped(s, e)
  BY <1>2, StepShape
<1>4. ASSUME NEW t \in Stack, SameCallers(s, t) PROVE Known(t)
  <2>1. Len(t) = Len(s) /\ DOMAIN t = 1 .. Len(t) /\ \A k \in 1 .. Len(s) : t[k].fn = s[k].fn
    BY <1>1, <1>4 DEF SameCallers, Stack
  <2> QED BY <1>1, <2>1 DEF Known
<1>5. ASSUME NEW instr, Called(Advance(s), e, instr) PROVE Known(e.stack)
  <2> DEFINE a == Advance(s)
             entry == EntryFrame(instr.callee)
  <2>1. a \in Seq(Frame) /\ Known(a) /\ Len(a) = Len(s)
    BY <1>4, AdvanceType DEF SameCallers, Stack
  <2>2. entry \in Frame /\ entry.fn \in FunctionNames /\ e.stack = Append(a, entry)
    BY <1>5, EntryFrameType DEF Called
  <2> HIDE DEF a, entry
  <2> QED BY <2>1, <2>2 DEF Known
<1>6. Known(Pop(s))
  <2>1. /\ Pop(s) \in Seq(Frame) /\ Len(Pop(s)) = Len(s) - 1
        /\ \A k \in 1 .. Len(s) - 1 : Pop(s)[k] = s[k]
    BY PopType
  <2> QED BY <1>1, <2>1 DEF Known
<1> QED BY <1>3, <1>4, <1>5, <1>6 DEF Stepped, Local, Returned, RanOffTheEnd

\* If no two functions have one name, findBlock answers with the block of the
\* cached function that has the id.
LEMMA CachedBlockIs ==
  ASSUME \A j, k \in DOMAIN Module : Module[j].name = Module[k].name => j = k,
         NEW name \in FunctionNames, NEW id, CachedBlock(name, id) # None
  PROVE  \E b \in DOMAIN CachedFunction(name).blocks :
           CachedFunction(name).blocks[b] = CachedBlock(name, id) /\ CachedBlock(name, id).id = id
<1> DEFINE fn == CachedFunction(name)
           index == CachedIndex(name, id)
           holders == {k \in Named(name) : BlockAt(Module[k], id) # {}}
<1>1. PICK k \in Named(name) : Named(name) = {k}
  BY DEF Named, FunctionNames
<1>2. fn = Module[k] /\ k \in Nat
  <2>1. k \in Nat
    BY <1>1, MachineAssumption DEF Named, ModuleAssumption
  <2>2. k >= k
    BY <2>1
  <2>3. Max(Named(name)) = k
    BY <1>1, <2>2 DEF Max
  <2> QED BY <2>1, <2>3 DEF CachedFunction
<1>3. index \in DOMAIN fn.blocks /\ CachedBlock(name, id) = fn.blocks[index]
  BY DEF CachedBlock
<1>4. fn.blocks \in Seq(IRBlock(RegValue))
  BY CachedFunctionType
<1>5. index \in BlockAt(fn, id)
  <2>1. index # 0
    BY <1>3, <1>4
  <2>2. holders # {}
    BY <2>1 DEF CachedIndex
  <2>3. holders = {k}
    BY <1>1, <2>2
  <2>4. Min(holders) = k
    <3>1. k <= k
      BY <1>2
    <3> QED BY <2>3, <3>1 DEF Min
  <2>5. index = Min(BlockAt(fn, id))
    BY <2>2, <2>4, <1>2 DEF CachedIndex
  <2>6. BlockAt(fn, id) # {} /\ BlockAt(fn, id) \subseteq Nat
    BY <2>2, <2>3, <1>2, <1>4 DEF BlockAt
  <2>7. \E b \in BlockAt(fn, id) : \A c \in BlockAt(fn, id) : b <= c
    BY <2>6, LeastOf
  <2>8. Min(BlockAt(fn, id)) \in BlockAt(fn, id)
    BY <2>7, Zenon DEF Min
  <2> QED BY <2>5, <2>8
<1> QED BY <1>3, <1>5 DEF BlockAt

\* Advance and WriteValue leave the running frame in its block, one further.
LEMMA AdvancedTop ==
  ASSUME NEW s \in Stack
  PROVE  /\ Top(Advance(s)).block = Top(s).block /\ Top(Advance(s)).pc = Top(s).pc + 1
         /\ Len(Advance(s)) = Len(s)
         /\ \A id : ReadValue(Advance(s), id) = ReadValue(s, id)
<1>1. Len(s) \in Nat \ {0} /\ Len(s) \in DOMAIN s /\ Top(s) \in Frame /\ s \in Seq(Frame)
  BY TopType DEF Stack
<1>2. Len(Advance(s)) = Len(s)
  BY PopAdvance
<1>3. Top(Advance(s)) = [Top(s) EXCEPT !.pc = @ + 1]
  BY <1>1, <1>2 DEF Top, Advance
<1>4. /\ Top(Advance(s)).block = Top(s).block /\ Top(Advance(s)).pc = Top(s).pc + 1
      /\ Top(Advance(s)).fn = Top(s).fn /\ Top(Advance(s)).values = Top(s).values
  BY <1>1, <1>3 DEF Frame
<1> QED BY <1>2, <1>4 DEF ReadValue

LEMMA WrittenTop ==
  ASSUME NEW s \in Stack, NEW id, NEW x
  PROVE  Top(WriteValue(s, id, x)).block = Top(s).block /\ Top(WriteValue(s, id, x)).pc = Top(s).pc
<1>1. Len(s) \in Nat \ {0} /\ Len(s) \in DOMAIN s /\ Top(s) \in Frame /\ s \in Seq(Frame)
  BY TopType DEF Stack
<1> DEFINE values == Written(Top(s).values, id, x)
<1>2. WriteValue(s, id, x) = [s EXCEPT ![Len(s)] = [Top(s) EXCEPT !.values = values]]
  BY <1>1 DEF WriteValue, Top
<1> HIDE DEF values
<1>3. Len([s EXCEPT ![Len(s)] = [Top(s) EXCEPT !.values = values]]) = Len(s)
  BY <1>1
<1>4. Top(WriteValue(s, id, x)) = [Top(s) EXCEPT !.values = values]
  BY <1>1, <1>2, <1>3 DEF Top
<1> QED BY <1>1, <1>4 DEF Frame

LEMMA GoneTo ==
  ASSUME NEW s \in Stack, NEW b
  PROVE  Top(GoTo(s, b)).block = b
<1>1. Len(s) \in Nat \ {0} /\ Len(s) \in DOMAIN s /\ Top(s) \in Frame /\ s \in Seq(Frame)
  BY TopType DEF Stack
<1>2. GoTo(s, b) = [s EXCEPT ![Len(s)] = [Top(s) EXCEPT !.block = b, !.pc = 0]]
  BY <1>1 DEF GoTo, Top
<1>3. Len([s EXCEPT ![Len(s)] = [Top(s) EXCEPT !.block = b, !.pc = 0]]) = Len(s)
  BY <1>1
<1>4. Top(GoTo(s, b)) = [Top(s) EXCEPT !.block = b, !.pc = 0]
  BY <1>1, <1>2, <1>3 DEF Top
<1> QED BY <1>1, <1>4 DEF Frame

\* An instruction that leaves the frame where it is.
Stays(s, e) == Top(e.stack).block = Top(s).block /\ Top(e.stack).pc = Top(s).pc

LEMMA ProduceStays ==
  ASSUME NEW s \in Stack, NEW instr, NEW x
  PROVE  Stays(s, Produce(s, instr, x))
BY WrittenTop DEF Stays, Produce, Fail, Continue, Effect

LEMMA ComputeStays ==
  ASSUME NEW s \in Stack, NEW instr, 
         NEW e \in HandleConst(s, instr) \cup HandleCopy(s, instr) \cup HandleBinary(s, instr)
                     \cup HandleUnary(s, instr) \cup HandleCmp(s, instr)
  PROVE  Stays(s, e)
<1>1. \A error : Stays(s, Continue(s)) /\ Stays(s, Fail(s, error))
  BY DEF Stays, Continue, Fail, Effect
<1>2. \A x : Stays(s, Produce(s, instr, x))
  BY ProduceStays
<1>3. CASE e \in HandleConst(s, instr)
  <2>1. e = Continue(s) \/ e = Continue(WriteValue(s, instr.output, instr.constVal))
    BY <1>3 DEF HandleConst
  <2>2. Stays(s, Continue(WriteValue(s, instr.output, instr.constVal)))
    BY WrittenTop DEF Stays, Continue, Effect
  <2> QED BY <1>1, <2>1, <2>2
<1>4. CASE e \in HandleCopy(s, instr)
  <2>1. \/ e = Continue(s) \/ e = Fail(s, "TypeMismatch") \/ \E x : e = Produce(s, instr, x)
    BY <1>4 DEF HandleCopy, Compute
  <2> QED BY <1>1, <1>2, <2>1
<1>5. CASE e \in HandleBinary(s, instr)
  <2>1. \/ e = Continue(s) \/ e = Fail(s, "TypeMismatch") \/ e = Fail(s, "DivisionByZero")
        \/ \E x : e = Produce(s, instr, x)
    BY <1>5 DEF HandleBinary, Compute
  <2> QED BY <1>1, <1>2, <2>1
<1>6. CASE e \in HandleUnary(s, instr)
  <2>1. \/ e = Continue(s) \/ e = Fail(s, "TypeMismatch") \/ \E x : e = Produce(s, instr, x)
    BY <1>6 DEF HandleUnary, Compute
  <2> QED BY <1>1, <1>2, <2>1
<1>7. CASE e \in HandleCmp(s, instr)
  <2>1. \/ e = Continue(s) \/ e = Fail(s, "TypeMismatch") \/ \E x : e = Produce(s, instr, x)
    BY <1>7 DEF HandleCmp, Compute
  <2> QED BY <1>1, <1>2, <2>1
<1> QED BY <1>3, <1>4, <1>5, <1>6, <1>7

\* Control leaves the place behind an instruction, without a call or a return,
\* by a jump to its target, or by a branch to the target its condition selects.
LEMMA ControlMoves ==
  ASSUME NEW s \in Stack, Top(s).fn \in FunctionNames, NEW e \in StepOne(s),
         e.error = "none", ~e.done, Len(e.stack) = Len(s),
         Top(e.stack).block # Top(s).block \/ Top(e.stack).pc <= Top(s).pc
  PROVE  LET block == CachedBlock(Top(s).fn, Top(s).block)
             instr == block.instrs[Top(s).pc + 1]
             next  == Top(e.stack).block
         IN  /\ block # None /\ Top(s).pc + 1 \in DOMAIN block.instrs /\ next # None
             /\ \/ instr.op = "Jmp" /\ next = instr.trueTarget
                \/ /\ instr.op = "BrTrue"
                   /\ next = IF IsTrue(ReadValue(s, instr.inputs[1])) THEN instr.trueTarget
                             ELSE instr.falseTarget
<1> DEFINE frame == Top(s)
           block == CachedBlock(frame.fn, frame.block)
           instr == block.instrs[frame.pc + 1]
           a == Advance(s)
<1>1. s # <<>> /\ frame \in Frame /\ s \in Seq(Frame) /\ Len(s) \in Nat \ {0} /\ frame.pc \in Nat
  BY TopType DEF Stack, Frame
<1>2. ~TooDeep(s) /\ block # None
  BY <1>1 DEF StepOne, Fail, Effect
<1>3. block \in IRBlock(RegValue)
  BY <1>1, <1>2, CachedBlockType DEF Frame
<1>4. ~(frame.pc >= Len(block.instrs))
  <2>1. Len(Pop(s)) # Len(s)
    BY <1>1, PopType
  <2> SUFFICES ASSUME frame.pc >= Len(block.instrs) PROVE FALSE
    OBVIOUS
  <2>2. e \in ImplicitReturn(s)
    BY <1>1, <1>2 DEF StepOne
  <2> QED BY <2>1, <2>2 DEF ImplicitReturn, Effect, Continue
<1>5. frame.pc + 1 \in DOMAIN block.instrs /\ instr \in IRInstr(RegValue)
  BY <1>1, <1>3, <1>4 DEF IRBlock
<1>6. e \in Handle(a, instr)
  BY <1>1, <1>2, <1>4 DEF StepOne
<1>7. /\ a \in Stack /\ Top(a).block = frame.block /\ Top(a).pc = frame.pc + 1 /\ Len(a) = Len(s)
      /\ \A id : ReadValue(a, id) = ReadValue(s, id)
  BY AdvanceType, AdvancedTop
<1>8. ~Stays(a, e)
  BY <1>1, <1>7 DEF Stays
<1> HIDE DEF a, block, frame
<1>9. ~(e = Continue(a))
  BY <1>8 DEF Stays, Continue, Effect
<1>10. CASE instr.op \in BinaryOp \cup UnaryOp \cup {"Const", "Copy", "Cmp"}
  <2>1. e \in HandleConst(a, instr) \cup HandleCopy(a, instr) \cup HandleBinary(a, instr)
                     \cup HandleUnary(a, instr) \cup HandleCmp(a, instr)
    BY <1>6, <1>10 DEF Handle, BinaryOp, UnaryOp
  <2> QED BY <2>1, <1>7, <1>8, ComputeStays
<1>11. CASE instr.op = "Jmp"
  <2>1. e \in HandleJump(a, instr)
    BY <1>6, <1>11 DEF Handle, BinaryOp, UnaryOp
  <2>2. instr.trueTarget # None /\ e.stack = GoTo(a, instr.trueTarget)
    BY <2>1, <1>9 DEF HandleJump, Continue, Effect
  <2>3. Top(e.stack).block = instr.trueTarget
    BY <2>2, <1>7, GoneTo
  <2> QED BY <1>2, <1>5, <1>11, <2>2, <2>3 DEF block, frame
<1>12. CASE instr.op = "BrTrue"
  <2> DEFINE target == IF IsTrue(ReadValue(a, instr.inputs[1])) THEN instr.trueTarget ELSE instr.falseTarget
  <2>1. e \in HandleBranch(a, instr)
    BY <1>6, <1>12 DEF Handle, BinaryOp, UnaryOp
  <2>2. target # None /\ e = Continue(GoTo(a, target))
    BY <2>1, <1>9 DEF HandleBranch, Fail, Effect
  <2>3. Top(e.stack).block = target
    <3> HIDE DEF target
    <3> QED BY <2>2, <1>7, GoneTo DEF Continue, Effect
  <2>4. target = IF IsTrue(ReadValue(s, instr.inputs[1])) THEN instr.trueTarget ELSE instr.falseTarget
    BY <1>7
  <2> QED BY <1>2, <1>5, <1>12, <2>2, <2>3, <2>4 DEF block, frame
<1>13. CASE instr.op = "Call"
  <2>1. e \in HandleCall(a, instr)
    BY <1>6, <1>13 DEF Handle, BinaryOp, UnaryOp
  <2>2. e.stack = Append(a, EntryFrame(instr.callee))
    BY <2>1, <1>9 DEF HandleCall, Fail, Continue, Effect
  <2>3. a \in Seq(Frame)
    BY <1>7 DEF Stack
  <2> QED BY <2>2, <2>3, <1>1, <1>7
<1>14. CASE instr.op = "Ret"
  <2>1. e \in HandleRet(a, instr)
    BY <1>6, <1>14 DEF Handle, BinaryOp, UnaryOp
  <2>2. e.stack = Pop(a)
    BY <2>1 DEF HandleRet, Effect
  <2> QED BY <2>2, <1>1, <1>7, PopType
<1>15. CASE instr.op \in {"Load", "Store"}
  BY <1>6, <1>9, <1>15 DEF Handle, BinaryOp, UnaryOp
<1> QED BY <1>5, <1>10, <1>11, <1>12, <1>13, <1>14, <1>15 DEF IRInstr, IROp
===========================================================================
