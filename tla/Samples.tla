------------------------------ MODULE Samples ------------------------------
(***************************************************************************)
(* Small modules for model checking the optimizer, shaped like what the    *)
(* lowering emits: one value per literal, a slot per variable.             *)
(***************************************************************************)
EXTENDS Values

Function(name, nvalues, constants, blocks) ==
  LET bs == [b \in 1 .. Len(blocks) |-> [id |-> b - 1, instrs |-> blocks[b]]]
  IN  [name |-> name, blocks |-> bs, blockIndex |-> RebuildBlockIndex(bs),
       values |-> [v \in 1 .. nvalues |->
                    IF v - 1 \in DOMAIN constants THEN constants[v - 1] ELSE None]]

\* if (1 < 2) x = 3 else x = 1 / 0; return x
Decided == Function("decided", 8,
  [v \in {0, 1, 3, 5, 6} |-> I64(CASE v = 0 -> 1 [] v = 1 -> 2 [] v = 3 -> 3 [] v = 5 -> 1 [] v = 6 -> 0)],
  << <<MkConst(0, I64(1)), MkConst(1, I64(2)), MkCmp("Lt", 2, 0, 1), MkBrTrue(2, 1, 2)>>,
     <<MkConst(3, I64(3)), MkCopy(4, 3), MkJmp(3)>>,
     <<MkConst(5, I64(1)), MkConst(6, I64(0)), MkBinary("Div", 7, 5, 6), MkCopy(4, 7), MkJmp(3)>>,
     <<MkRet(<<4>>)>> >>)

\* x = 0; y = 1; z = 1 / d (never read); while (x < 1) x = x + y; return -x
Loop(name, d) == Function(name, 10,
  [v \in {0, 2, 3, 5} |-> I64(CASE v = 0 -> 0 [] v = 2 -> 1 [] v = 3 -> d [] v = 5 -> 1)],
  << <<MkConst(0, I64(0)), MkCopy(1, 0), MkConst(2, I64(1)), MkCopy(9, 2), MkConst(3, I64(d)),
       MkBinary("Div", 4, 2, 3), MkJmp(1)>>,
     <<MkConst(5, I64(1)), MkCmp("Lt", 6, 1, 5), MkBrTrue(6, 2, 3)>>,
     <<MkBinary("Add", 7, 1, 9), MkCopy(1, 7), MkJmp(1)>>,
     <<MkUnary("Neg", 8, 1), MkRet(<<8>>), MkJmp(3)>> >>)

\* while (2 * 1 > 3) { call decided } return !false, behind a branch that has
\* no target to take; and a loop that nothing leads to.
Calls == Function("calls", 6,
  [v \in {0, 1, 4} |-> IF v = 4 THEN Bool(FALSE) ELSE I64(IF v = 0 THEN 2 ELSE 3)],
  << <<MkConst(0, I64(2)), MkConst(1, I64(3)), MkBinary("Mul", 2, 0, 0),
       MkCmp("Gt", 3, 2, 1), MkBrTrue(3, 1, None), MkJmp(2)>>,
     <<MkCall("decided", <<>>), MkJmp(0)>>,
     <<MkConst(4, Bool(FALSE)), MkUnary("Not", 5, 4), MkCall("decided", <<>>), MkRet(<<5>>)>>,
     <<MkJmp(1), Blank("Load"), MkJmp(4)>>,
     <<MkJmp(3)>> >>)

\* A block index that was never built, and no blocks at all.
Unindexed == [Decided EXCEPT !.name = "unindexed", !.blockIndex = <<>>]
Empty     == Function("empty", 0, [v \in {} |-> None], <<>>)

\* -4 / -1 does not fit in a word of three bits.
Overflow == Function("overflow", 3,
  [v \in {0, 1} |-> I64(IF v = 0 THEN -4 ELSE -1)],
  << <<MkConst(0, I64(-4)), MkConst(1, I64(-1)), MkBinary("Div", 2, 0, 1), MkRet(<<2>>)>> >>)

\* if (!1) { t = 1 * 3; x = t }; return t, or x.  Neither is ever written, but
\* t is folded.
Unwritten(name, result) == Function(name, 4,
  [v \in {0, 1} |-> I64(IF v = 0 THEN 1 ELSE 3)],
  << <<MkConst(0, I64(1)), MkConst(1, I64(3)), MkBrTrue(0, 2, 1)>>,
     <<MkBinary("Mul", 2, 0, 1), MkCopy(3, 2), MkJmp(2)>>,
     <<MkRet(<<result>>)>> >>)

\* if (l op r > 0) return l op r else return -(l cmp r), for every operator and
\* operands of either integer type: folding an instruction must give what
\* executing it gives.
Arithmetic(op, kind, l, r) == Function("arithmetic", 7,
  [v \in {0, 1, 2} |-> IF v = 0 THEN l ELSE IF v = 1 THEN r ELSE I64(0)],
  << <<MkConst(0, l), MkConst(1, r), MkConst(2, I64(0)), MkBinary(op, 3, 0, 1),
       MkCmp("Gt", 4, 3, 2), MkBrTrue(4, 1, 2)>>,
     <<MkRet(<<3>>)>>,
     <<MkCmp(kind, 5, 0, 1), MkUnary("Neg", 6, 5), MkRet(<<6>>)>> >>)

\* One comparison for each operator, so that all of both occur.
KindFor(op) == CASE op \in {"Add", "Shl"} -> "Lt" [] op \in {"Sub", "Shr"} -> "Le" [] op \in {"Mul", "And"} -> "Eq"
                 [] op = "Or" -> "Ne" [] op \in {"Div", "Xor"} -> "Ge" [] op = "Mod" -> "Gt"

Operands == {I64(-3), I64(-1), I64(0), I64(2), I64(3), U64(5)}

ArithmeticPrograms ==
  {<<Arithmetic(op, KindFor(op), l, r)>> : op \in BinaryOp, l, r \in Operands}

SamplePrograms == { <<Decided, Calls>>, <<Loop("loop", 1), Empty, Loop("failing", 0)>>, <<Unindexed>>, <<Overflow>>,
                    <<Unwritten("temporary", 2), Unwritten("variable", 3)>>, <<>> }
AllPrograms    == SamplePrograms \cup ArithmeticPrograms
===========================================================================
