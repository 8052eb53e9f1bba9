---------------------------- MODULE Arm64Emitter ----------------------------
(***************************************************************************)
(* The text of a function's asm volatile block (Arm64Emitter.cpp) as a     *)
(* sequence of instructions: a mnemonic, the number of the register        *)
(* written, those read, and an argument (a constant, a condition, a label  *)
(* or a symbol).  Block k, counted from 0, begins with the local label k.  *)
(* The platform decides the prefix of symbols only, and is left out.       *)
(*                                                                         *)
(* Definitions named Faulty... are slips the code could have made; nothing *)
(* uses them but the mutation runs.                                        *)
(***************************************************************************)
EXTENDS IR, SequencesExt

ArmInstr(op, dest, sources, arg) ==
  [op |-> op, dest |-> dest, sources |-> sources, arg |-> arg]

---------------------------------------------------------------------------
\* RegAlloc: the registers of the values so far, x9 to x15 for the first seven.
ScratchRegisters == 9 .. 15

NewRegAlloc == [map |-> <<>>, next |-> 0]

FaultyAlloc(ra, v) ==
  [map  |-> (v :> IF 9 + ra.next \in ScratchRegisters THEN 9 + ra.next ELSE 16 + ra.next) @@ ra.map,
   next |-> ra.next + 1]

\* Beyond those, register number 16 + index: x23 and up.
Alloc(ra, v) ==
  IF v \in DOMAIN ra.map THEN ra
  ELSE [map  |-> (v :> IF 9 + ra.next \in ScratchRegisters THEN 9 + ra.next ELSE 16 + ra.next) @@ ra.map,
        next |-> ra.next + 1]

\* A value that was given no register is taken to be in x9.
GetReg(ra, v) == IF v \in DOMAIN ra.map THEN ra.map[v] ELSE 9

---------------------------------------------------------------------------
\* buildBlockIndexMap: of two blocks with one id the last counts.
BlockIndexMap(fn) ==
  [id \in {fn.blocks[k].id : k \in DOMAIN fn.blocks} |->
     (CHOOSE k \in DOMAIN fn.blocks :
        fn.blocks[k].id = id /\ \A j \in k + 1 .. Len(fn.blocks) : fn.blocks[j].id # id) - 1]

FaultyGasLabel(target, current) == [index |-> target, dir |-> "f"]

\* A local label, looked for backwards or forwards.
GasLabel(target, current) == [index |-> target, dir |-> IF target <= current THEN "b" ELSE "f"]

ArmMnemonic ==
  [Add |-> "add", Sub |-> "sub", And |-> "and", Or |-> "orr", Xor |-> "eor", Shl |-> "lsl",
   Shr |-> "asr", Mul |-> "mul", Div |-> "sdiv", Neg |-> "neg", Not |-> "mvn", Copy |-> "mov"]

\* An instruction with a part missing emits nothing, and gets no register.
Arity(instr) ==
  CASE instr.op \in BinaryOp \cup {"Cmp"} -> 2
    [] instr.op \in UnaryOp \cup {"Copy"} -> 1
    [] OTHER                              -> 0

WritesValue(instr) == instr.op \in BinaryOp \cup UnaryOp \cup {"Const", "Copy", "Cmp"}

IsComplete(instr) ==
  /\ WritesValue(instr) => instr.output # None /\ Len(instr.inputs) >= Arity(instr)
  /\ instr.op = "Const"  => instr.constVal # None
  /\ instr.op = "Cmp"    => instr.cmpKind # None
  /\ instr.op = "Jmp"    => instr.trueTarget # None
  /\ instr.op = "BrTrue" => instr.inputs # <<>>
  /\ instr.op = "Call"   => instr.callee # None
  /\ instr.op \notin {"Load", "Store"}

\* What an instruction becomes: d is the register of its output, x are those of
\* its inputs, labels[t] is the label of block t.
Branch(op, sources, target, labels) ==
  IF target = None THEN <<>>
  ELSE <<ArmInstr(op, None, sources, IF target \in DOMAIN labels THEN labels[target] ELSE None)>>

InstrCode(instr, d, x, labels) ==
  CASE instr.op = "Const"  -> <<ArmInstr("mov", d, <<>>, instr.constVal)>>
    [] instr.op = "Mod"    -> <<ArmInstr("sdiv", d, <<x[1], x[2]>>, None),
                                ArmInstr("msub", d, <<d, x[2], x[1]>>, None)>>
    [] instr.op = "Cmp"    -> <<ArmInstr("cmp", None, <<x[1], x[2]>>, None),
                                ArmInstr("cset", d, <<>>, instr.cmpKind)>>
    [] instr.op = "Jmp"    -> Branch("b", <<>>, instr.trueTarget, labels)
    [] instr.op = "BrTrue" -> Branch("cbnz", <<x[1]>>, instr.trueTarget, labels) \o
                              Branch("b", <<>>, instr.falseTarget, labels)
    [] instr.op = "Call"   -> <<ArmInstr("bl", None, <<>>, instr.callee)>> \o
                              IF d = None THEN <<>> ELSE <<ArmInstr("mov", d, <<0>>, None)>>
    [] instr.op = "Ret"    -> (IF x = <<>> THEN <<>> ELSE <<ArmInstr("mov", 0, <<x[1]>>, None)>>) \o
                              <<ArmInstr("ret", None, <<>>, None)>>
    [] OTHER               -> <<ArmInstr(ArmMnemonic[instr.op], d, SubSeq(x, 1, Arity(instr)), None)>>

\* emitInstruction: the output has its register before the inputs are looked up
\* (the operands of << are evaluated from left to right since C++17).
EmitInstr(e, instr, labels) ==
  LET writes == instr.output # None /\ (WritesValue(instr) \/ instr.op = "Call")
      regs   == IF writes THEN Alloc(e.regs, instr.output) ELSE e.regs
      code   == InstrCode(instr, IF writes THEN regs.map[instr.output] ELSE None,
                          [k \in DOMAIN instr.inputs |-> GetReg(regs, instr.inputs[k])], labels)
  IN  IF IsComplete(instr) THEN [regs |-> regs, code |-> e.code \o code] ELSE e

EmitBlock(e, fn, current) ==
  LET index  == BlockIndexMap(fn)
      labels == [t \in DOMAIN index |-> GasLabel(index[t], current)]
  IN  FoldLeft(LAMBDA s, instr : EmitInstr(s, instr, labels),
               [e EXCEPT !.code = Append(@, ArmInstr("label", None, <<>>, current))],
               fn.blocks[current + 1].instrs)

\* emitArm64AsmVolatile: the code, and the registers the clobber list names.
EmitFunction(fn) ==
  FoldLeft(LAMBDA e, k : EmitBlock(e, fn, k - 1), [regs |-> NewRegAlloc, code |-> <<>>],
           [k \in DOMAIN fn.blocks |-> k])

\* blockIndexMap.at() throws when a branch names no block.
EmitThrows(code) == \E k \in DOMAIN code : code[k].op \in {"b", "cbnz"} /\ code[k].arg = None
=============================================================================
