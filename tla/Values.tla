------------------------------ MODULE Values ------------------------------
(***************************************************************************)
(* Run-time values and the arithmetic the simulator applies to them        *)
(* (Simulator.cpp, BinaryOpVisitor, CompareVisitor, handleUnaryOp), on     *)
(* words of Width bits in place of 64.  A value carries its C++ type:      *)
(* "i64", "u64" or "bool".  double is left out.                            *)
(***************************************************************************)
EXTENDS IR, FiniteSetsExt

CONSTANT Width \* bits of a machine word

ASSUME WidthAssumption == Width \in Nat \ {0}

Radix == 2 ^ Width

ASSUME RadixAssumption == (\A n \in 0 .. Width : 2 ^ n > 0) /\ Radix % 2 = 0

I64(n)  == [ty |-> "i64",  v |-> n]
U64(n)  == [ty |-> "u64",  v |-> n]
Bool(b) == [ty |-> "bool", v |-> IF b THEN 1 ELSE 0]

Ints    == {I64(n) : n \in (-Radix \div 2) .. (Radix \div 2 - 1)}
Uints   == {U64(n) : n \in 0 .. (Radix - 1)}
Bools   == {Bool(TRUE), Bool(FALSE)}
AllValues == Ints \cup Uints \cup Bools

---------------------------------------------------------------------------
\* static_cast of a mathematical integer to a type.
Cast(ty, n) ==
  CASE ty = "i64"  -> I64(((n + Radix \div 2) % Radix) - Radix \div 2)
    [] ty = "u64"  -> U64(n % Radix)
    [] ty = "bool" -> Bool(n # 0)

\* std::common_type_t, and the type the operators compute in: an operation on
\* two bools is done on promoted ints, where nothing wraps.
CommonType(l, r) ==
  IF l.ty = r.ty THEN l.ty ELSE IF "u64" \in {l.ty, r.ty} THEN "u64" ELSE "i64"

Computed(common, n) == IF common = "bool" THEN n ELSE Cast(common, n).v

\* C++ division truncates towards zero.
TruncDiv(a, b) ==
  LET q == (IF a < 0 THEN -a ELSE a) \div (IF b < 0 THEN -b ELSE b)
  IN  IF (a < 0) = (b < 0) THEN q ELSE -q

Bit(n, i) == (n \div (2 ^ i)) % 2
Bitwise2(F(_, _), a, b) ==
  LET A == a % Radix  B == b % Radix
  IN  MapThenSumSet(LAMBDA i : (2 ^ i) * F(Bit(A, i), Bit(B, i)), 0 .. (Width - 1))

\* The result, as a mathematical integer, of an operator on two operands of
\* the common type.  Both targets mask a shift count to the word.
Raw(op, a, b) ==
  CASE op = "Add" -> a + b
    [] op = "Sub" -> a - b
    [] op = "Mul" -> a * b
    [] op = "Div" -> TruncDiv(a, b)
    [] op = "Mod" -> a - b * TruncDiv(a, b)
    [] op = "And" -> Bitwise2(LAMBDA x, y : x * y, a, b)
    [] op = "Or"  -> Bitwise2(LAMBDA x, y : x + y - x * y, a, b)
    [] op = "Xor" -> Bitwise2(LAMBDA x, y : (x + y) % 2, a, b)
    [] op = "Shl" -> a * 2 ^ (b % Width)
    [] op = "Shr" -> a \div 2 ^ (b % Width)

\* Sums of bits are integers.
ASSUME BitwiseAssumption ==
  \A op \in {"And", "Or", "Xor"}, a, b \in -Radix .. Radix : Raw(op, a, b) \in Int

\* isDivisionByZero: a bool divisor (and a double one) is never reported.
DividesByZero(op, divisor) ==
  op \in {"Div", "Mod"} /\ divisor.ty \in {"i64", "u64"} /\ divisor.v = 0

\* applyBinaryOp.  A zero divisor that was not reported, and the quotient that
\* does not fit, are undefined: x86-64 traps, AArch64 yields 0 and the wrapped
\* quotient (a remainder is the dividend less divisor times that quotient).
ApplyBinaryOp(op, l, r) ==
  LET ty == CommonType(l, r)
      a  == Cast(ty, l.v).v
      b  == Cast(ty, r.v).v
      Result(n) == Cast(l.ty, Computed(ty, n))
      overflow  == ty = "i64" /\ a = -(Radix \div 2) /\ b = -1
  IN  CASE op \in {"Div", "Mod"} /\ b = 0 -> {Trap, Result(IF op = "Div" THEN 0 ELSE a)}
        [] op \in {"Div", "Mod"} /\ overflow -> {Trap, Result(Raw(op, a, b))}
        [] OTHER -> {Result(Raw(op, a, b))}

ApplyUnaryOp(op, x) ==
  CASE x.ty = "bool" -> Bool(x.v = 0)
    [] x.ty # "bool" /\ op = "Neg" -> Cast(x.ty, -x.v)
    [] x.ty # "bool" /\ op = "Not" -> Cast(x.ty, -x.v - 1)

ApplyComparison(kind, l, r) ==
  LET ty == CommonType(l, r)
      a  == Cast(ty, l.v).v
      b  == Cast(ty, r.v).v
  IN  Bool(CASE kind = "Lt" -> a < b
             [] kind = "Le" -> a <= b
             [] kind = "Eq" -> a = b
             [] kind = "Ne" -> a # b
             [] kind = "Ge" -> a >= b
             [] kind = "Gt" -> a > b)

\* The truth of a value as a branch condition.
Truth(x) == x.v # 0

---------------------------------------------------------------------------
\* Constant folding (ConstantFoldingPass.cpp): foldBinaryInt with foldCmp, on
\* two int64 constants, and foldUnary.  None: not folded.
IsInt64(x) == x.ty = "i64"

FoldCmp(kind, l, r) ==
  Bool(CASE kind = "Lt" -> l < r [] kind = "Le" -> l <= r [] kind = "Eq" -> l = r
         [] kind = "Ne" -> l # r [] kind = "Ge" -> l >= r [] kind = "Gt" -> l > r)

\* The quotient that does not fit is undefined here too.
FoldBinaryInt(op, kind, l, r) ==
  LET overflow == l.v = -(Radix \div 2) /\ r.v = -1
  IN  IF op = "Cmp" THEN IF kind = None THEN {None} ELSE {FoldCmp(kind, l.v, r.v)}
      ELSE IF op \in {"Div", "Mod"} /\ r.v = 0 THEN {None}
      ELSE IF op \in {"Add", "Sub", "Mul", "Div", "Mod", "And", "Or", "Xor"}
           THEN {Cast("i64", Raw(op, l.v, r.v))} \cup
                {t \in {Trap} : op \in {"Div", "Mod"} /\ overflow}
      ELSE {None}

FoldUnary(op, x) ==
  IF op \notin UnaryOp THEN None
  ELSE IF x.ty = "bool" THEN Bool(x.v = 0)
  ELSE IF op = "Neg" THEN Cast(x.ty, -x.v)
  ELSE Cast(x.ty, -x.v - 1)
===========================================================================
