-------------------------------- MODULE IR --------------------------------
(***************************************************************************)
(* The intermediate representation every other part of the library shares: *)
(* instructions, blocks, functions and modules (IRTypes.hpp).  A ValueId   *)
(* and a BlockId are naturals; an absent std::optional is None; the values *)
(* vector of a function is indexed by ValueId + 1.                         *)
(***************************************************************************)
EXTENDS Integers, Sequences

CONSTANTS None, \* an absent std::optional
          Trap  \* not a value: the processor kills the process

ASSUME NoneAssumption == None \notin Nat /\ None \notin STRING

BinaryOp == {"Add", "Sub", "Mul", "Div", "Mod", "And", "Or", "Xor", "Shl", "Shr"}
UnaryOp  == {"Neg", "Not"}
IROp     == BinaryOp \cup UnaryOp \cup
            {"Const", "Copy", "Cmp", "Jmp", "BrTrue", "Call", "Ret", "Load", "Store"}
CmpKind  == {"Lt", "Le", "Eq", "Ne", "Ge", "Gt"}

Optional(S) == S \cup {None}

\* Instructions, blocks and functions whose constants are drawn from Value.
IRInstr(Value) ==
  [op : IROp, inputs : Seq(Nat), output : Optional(Nat),
   trueTarget : Optional(Nat), falseTarget : Optional(Nat),
   callee : Optional(STRING), cmpKind : Optional(CmpKind), constVal : Optional(Value)]

IRBlock(Value)    == [id : Nat, instrs : Seq(IRInstr(Value))]

\* A function, with a block index or without.
IsIRFunction(f, Value) ==
  f.name \in STRING /\ f.blocks \in Seq(IRBlock(Value)) /\ f.values \in Seq(Optional(Value))

IsTerminator(instr) == instr.op \in {"Jmp", "BrTrue", "Ret"}

Targets(instr) == {instr.trueTarget, instr.falseTarget} \ {None}

---------------------------------------------------------------------------
\* IRFunction::rebuildBlockIndex: of two blocks with one id the first counts.
RebuildBlockIndex(blocks) ==
  [id \in {blocks[k].id : k \in DOMAIN blocks} |->
     CHOOSE k \in DOMAIN blocks : blocks[k].id = id /\ \A j \in 1 .. k - 1 : blocks[j].id # id]

\* IRFunction::findBlock: the index of a block, 0 if it has none.  A function
\* whose index was never built is searched instead.
SearchBlock(f, id) ==
  LET index == RebuildBlockIndex(f.blocks)
  IN  IF id \in DOMAIN index THEN index[id] ELSE 0

FindBlock(f, id) ==
  IF DOMAIN f.blockIndex = {} THEN SearchBlock(f, id)
  ELSE IF id \in DOMAIN f.blockIndex /\ f.blockIndex[id] \in DOMAIN f.blocks
       THEN f.blockIndex[id] ELSE 0

---------------------------------------------------------------------------
\* Constructors for the instruction shapes the lowering emits.
Blank(op) ==
  [op |-> op, inputs |-> <<>>, output |-> None, trueTarget |-> None, falseTarget |-> None,
   callee |-> None, cmpKind |-> None, constVal |-> None]

MkConst(out, c)      == [Blank("Const") EXCEPT !.output = out, !.constVal = c]
MkUnary(op, out, v)  == [Blank(op) EXCEPT !.output = out, !.inputs = <<v>>]
MkCopy(out, v)       == MkUnary("Copy", out, v)
MkBinary(op, out, l, r) == [Blank(op) EXCEPT !.output = out, !.inputs = <<l, r>>]
MkCmp(kind, out, l, r)  == [MkBinary("Cmp", out, l, r) EXCEPT !.cmpKind = kind]
MkJmp(b)             == [Blank("Jmp") EXCEPT !.trueTarget = b]
MkBrTrue(v, t, f)    == [Blank("BrTrue") EXCEPT !.inputs = <<v>>, !.trueTarget = t, !.falseTarget = f]
MkCall(name, args)   == [Blank("Call") EXCEPT !.callee = name, !.inputs = args]
MkRet(args)          == [Blank("Ret") EXCEPT !.inputs = args]
===========================================================================
