--------------------------- MODULE Program_proofs ---------------------------
(***************************************************************************)
(* What a program keeps of the user's functions stays sound, whatever is   *)
(* called and in whichever order: the lowering establishes what the        *)
(* optimizer assumes, the optimizer keeps it, and no other method disturbs *)
(* it.  The first part says that the folding of constants gives what the   *)
(* simulator's arithmetic gives, for words of any width.                   *)
(***************************************************************************)
EXTENDS Program, Lowering_proofs

(***************************************************************************)
(* Arithmetic.                                                             *)
(***************************************************************************)
Half == Radix \div 2

LEMMA RadixIsNat == Radix \in Nat \ {0} /\ Half \in Nat /\ Radix = 2 * Half
<1>1. Radix \in Int
  BY WidthAssumption DEF Radix
<1>2. Radix > 0
  BY WidthAssumption, RadixAssumption DEF Radix
<1> QED BY <1>1, <1>2, RadixAssumption DEF Half

LEMMA ValueForms ==
  ASSUME NEW x \in AllValues
  PROVE  /\ x.v \in Int
         /\ \/ x.ty = "i64" /\ x = I64(x.v) /\ x.v \in -Half .. Half - 1
            \/ x.ty = "u64" /\ x = U64(x.v) /\ x.v \in 0 .. Radix - 1
            \/ x.ty = "bool" /\ x.v \in {0, 1} /\ x = Bool(x.v # 0)
BY RadixIsNat DEF AllValues, Ints, Uints, Bools, I64, U64, Bool, Half

\* A cast gives a value of the type, and leaves one of the type alone.
LEMMA CastSigned ==
  ASSUME NEW n \in Int
  PROVE  /\ Cast("i64", n) \in Ints /\ Cast("i64", n).v \in -Half .. Half - 1
         /\ Cast("i64", n) = I64(Cast("i64", n).v)
         /\ n \in -Half .. Half - 1 => Cast("i64", n) = I64(n)
<1> DEFINE m == (n + Half) % Radix
<1>1. m \in 0 .. Radix - 1
  BY RadixIsNat
<1>2. Cast("i64", n) = I64(m - Half)
  BY DEF Cast, Half
<1>3. m - Half \in -Half .. Half - 1
  BY <1>1, RadixIsNat
<1>4. n \in -Half .. Half - 1 => m - Half = n
  BY RadixIsNat
<1> HIDE DEF m
<1> QED BY <1>2, <1>3, <1>4 DEF Ints, I64, Half

LEMMA CastIsValue ==
  ASSUME NEW n \in Int, NEW ty \in {"i64", "u64", "bool"}
  PROVE  Cast(ty, n) \in AllValues /\ Cast(ty, n).ty = ty
<1>1. CASE ty = "i64"
  BY <1>1, CastSigned DEF AllValues, I64
<1>2. CASE ty = "u64"
  <2>1. n % Radix \in 0 .. Radix - 1
    BY RadixIsNat
  <2> QED BY <1>2, <2>1 DEF Cast, AllValues, Uints, U64
<1>3. CASE ty = "bool"
  BY <1>3 DEF Cast, AllValues, Bools, Bool
<1> QED BY <1>1, <1>2, <1>3

LEMMA QuotientIsInt ==
  ASSUME NEW a \in Int, NEW b \in Int, b # 0
  PROVE  TruncDiv(a, b) \in Int
<1>1. /\ (IF a < 0 THEN -a ELSE a) \in Nat /\ (IF b < 0 THEN -b ELSE b) \in Nat \ {0}
  OBVIOUS
<1>2. (IF a < 0 THEN -a ELSE a) \div (IF b < 0 THEN -b ELSE b) \in Int
  BY <1>1
<1> QED BY <1>2 DEF TruncDiv

LEMMA RawIsInt ==
  ASSUME NEW op \in BinaryOp, NEW a \in -Radix .. Radix, NEW b \in -Radix .. Radix,
         op \in {"Div", "Mod"} => b # 0
  PROVE  Raw(op, a, b) \in Int
<1>0. a \in Int /\ b \in Int
  BY RadixIsNat
<1>1. CASE op \in {"Add", "Sub", "Mul"}
  <2>1. a + b \in Int /\ a - b \in Int /\ a * b \in Int
    BY <1>0
  <2>2. Raw(op, a, b) \in {a + b, a - b, a * b}
    BY <1>1 DEF Raw
  <2> HIDE DEF Raw
  <2> QED BY <2>1, <2>2
<1>2. CASE op \in {"Div", "Mod"}
  <2> DEFINE q == TruncDiv(a, b)
  <2>1. q \in Int
    BY <1>0, <1>2, QuotientIsInt
  <2>2. Raw(op, a, b) \in {q, a - b * q}
    BY <1>2 DEF Raw
  <2> HIDE DEF q
  <2>3. b * q \in Int
    BY <1>0, <2>1
  <2>4. a - b * q \in Int
    BY <1>0, <2>3
  <2> QED BY <2>1, <2>2, <2>4
<1>3. CASE op \in {"And", "Or", "Xor"}
  BY <1>3, BitwiseAssumption
<1>4. CASE op \in {"Shl", "Shr"}
  <2> DEFINE k == b % Width
             power == 2 ^ k
  <2>1. k \in 0 .. Width /\ k \in Nat
    BY <1>0, WidthAssumption
  <2>2. power > 0
    BY <2>1, RadixAssumption
  <2> HIDE DEF k
  <2>3. power \in Int
    BY <2>1
  <2>4. Raw(op, a, b) \in {a * power, a \div power}
    BY <1>4 DEF Raw, k
  <2> HIDE DEF power
  <2>5. a * power \in Int /\ a \div power \in Int
    BY <1>0, <2>2, <2>3
  <2> QED BY <2>4, <2>5
<1> QED BY <1>1, <1>2, <1>3, <1>4 DEF BinaryOp

\* The operators that are folded.
FoldedBinary == {"Add", "Sub", "Mul", "Div", "Mod", "And", "Or", "Xor"}

LEMMA SignedOperand ==
  ASSUME NEW x \in AllValues, IsInt64(x)
  PROVE  x = I64(x.v) /\ x.v \in -Half .. Half - 1 /\ x.v \in -Radix .. Radix /\ x.ty = "i64"
BY ValueForms, RadixIsNat DEF IsInt64, U64, Bool, I64

\* A fold yields a value, or leaves the instruction alone, or kills the process.
LEMMA FoldBinaryGives ==
  ASSUME NEW op, NEW kind \in Optional(CmpKind),
         NEW l \in AllValues, NEW r \in AllValues, IsInt64(l), IsInt64(r), None \notin AllValues, Trap # None
  PROVE  LET results == FoldBinaryInt(op, kind, l, r)
         IN  results \subseteq AllValues \cup {None, Trap} /\ (None \in results => results = {None})
<1>1. CASE op = "Cmp"
  <2>1. kind # None => FoldCmp(kind, l.v, r.v) \in AllValues
    BY DEF FoldCmp, Bool, AllValues, Bools
  <2> QED BY <1>1, <2>1 DEF FoldBinaryInt
<1>2. CASE op # "Cmp" /\ op \in {"Div", "Mod"} /\ r.v = 0
  BY <1>2 DEF FoldBinaryInt
<1>3. CASE op # "Cmp" /\ ~(op \in {"Div", "Mod"} /\ r.v = 0) /\ op \in FoldedBinary
  <2>1. Raw(op, l.v, r.v) \in Int
    BY <1>3, SignedOperand, RawIsInt DEF FoldedBinary, BinaryOp
  <2>2. Cast("i64", Raw(op, l.v, r.v)) \in AllValues
    BY <2>1, CastIsValue
  <2> QED BY <1>3, <2>2 DEF FoldBinaryInt, FoldedBinary
<1>4. CASE op # "Cmp" /\ ~(op \in {"Div", "Mod"} /\ r.v = 0) /\ op \notin FoldedBinary
  BY <1>4 DEF FoldBinaryInt, FoldedBinary
<1> QED BY <1>1, <1>2, <1>3, <1>4

LEMMA FoldUnaryGives ==
  ASSUME NEW op, NEW x \in AllValues
  PROVE  FoldUnary(op, x) \in Optional(AllValues)
<1>1. x.v \in Int /\ x.ty \in {"i64", "u64", "bool"}
  BY ValueForms DEF I64, U64, Bool
<1>2. -x.v \in Int /\ -x.v - 1 \in Int
  BY <1>1
<1>3. Cast(x.ty, -x.v) \in AllValues /\ Cast(x.ty, -x.v - 1) \in AllValues /\ Bool(x.v = 0) \in AllValues
  BY <1>1, <1>2, CastIsValue DEF AllValues, Bools, Bool
<1> QED BY <1>3 DEF FoldUnary, Optional

\* Folding an instruction gives what executing it gives, for words of any
\* width: the optimizer (ConstantFoldingPass.cpp) and the simulator
\* (Simulator.cpp) implement the arithmetic each on its own.
THEOREM FoldingIsExecution ==
  /\ \A op \in BinaryOp, kind \in Optional(CmpKind), l, r \in AllValues :
       IsInt64(l) /\ IsInt64(r) /\ ~DividesByZero(op, r) =>
         \A c \in FoldBinaryInt(op, kind, l, r) \ {None, Trap} : c \in ApplyBinaryOp(op, l, r)
  /\ \A kind \in CmpKind \ {None}, l, r \in AllValues :
       IsInt64(l) /\ IsInt64(r) =>
         FoldBinaryInt("Cmp", kind, l, r) = {ApplyComparison(kind, l, r)}
  /\ \A op \in UnaryOp, x \in AllValues : FoldUnary(op, x) = ApplyUnaryOp(op, x)
<1>1. ASSUME NEW op \in BinaryOp, NEW kind \in Optional(CmpKind),
             NEW l \in AllValues, NEW r \in AllValues, IsInt64(l), IsInt64(r), ~DividesByZero(op, r),
             NEW c \in FoldBinaryInt(op, kind, l, r) \ {None, Trap}
      PROVE  c \in ApplyBinaryOp(op, l, r)
  <2>1. op \in FoldedBinary /\ (op \in {"Div", "Mod"} => r.v # 0) /\ c = Cast("i64", Raw(op, l.v, r.v))
    BY <1>1 DEF BinaryOp, FoldBinaryInt, FoldedBinary
  <2>2. /\ l = I64(l.v) /\ l.v \in -Half .. Half - 1 /\ l.ty = "i64"
        /\ r = I64(r.v) /\ r.v \in -Half .. Half - 1 /\ r.ty = "i64"
        /\ l.v \in -Radix .. Radix /\ r.v \in -Radix .. Radix
    BY <1>1, SignedOperand
  <2>3. Cast("i64", l.v).v = l.v /\ Cast("i64", r.v).v = r.v /\ CommonType(l, r) = "i64"
    BY <2>2, CastSigned, RadixIsNat DEF CommonType, I64
  <2>4. Raw(op, l.v, r.v) \in Int
    BY <2>1, <2>2, RawIsInt
  <2>5. Cast("i64", Cast("i64", Raw(op, l.v, r.v)).v) = c
    BY <2>1, <2>4, CastSigned, RadixIsNat
  <2>6. Cast(l.ty, Computed("i64", Raw(op, l.v, r.v))) = c
    BY <2>2, <2>5 DEF Computed
  <2> QED BY <2>1, <2>3, <2>6 DEF ApplyBinaryOp
<1>2. ASSUME NEW kind \in CmpKind \ {None}, NEW l \in AllValues, NEW r \in AllValues, IsInt64(l), IsInt64(r)
      PROVE  FoldBinaryInt("Cmp", kind, l, r) = {ApplyComparison(kind, l, r)}
  <2>1. /\ l.v \in -Half .. Half - 1 /\ l.ty = "i64" /\ r.v \in -Half .. Half - 1 /\ r.ty = "i64"
    BY <1>2, SignedOperand
  <2>2. Cast("i64", l.v).v = l.v /\ Cast("i64", r.v).v = r.v /\ CommonType(l, r) = "i64"
    BY <2>1, CastSigned, RadixIsNat DEF CommonType, I64
  <2>3. ApplyComparison(kind, l, r) = FoldCmp(kind, l.v, r.v)
    BY <2>2 DEF ApplyComparison, FoldCmp
  <2> QED BY <2>3 DEF FoldBinaryInt
<1>3. ASSUME NEW op \in UnaryOp, NEW x \in AllValues PROVE FoldUnary(op, x) = ApplyUnaryOp(op, x)
  BY DEF FoldUnary, ApplyUnaryOp, UnaryOp
<1> QED BY <1>1, <1>2, <1>3

\* An operand is converted to the common type before the operation.
LEMMA OperandConverted ==
  ASSUME NEW x \in AllValues, NEW ty \in {"i64", "u64", "bool"}
  PROVE  Cast(ty, x.v).v \in -Radix .. Radix
<1>1. x.v \in Int
  BY ValueForms
<1>2. Cast(ty, x.v) \in AllValues
  BY <1>1, CastIsValue
<1>3. Cast(ty, x.v).v \in -Half .. Half - 1 \/ Cast(ty, x.v).v \in 0 .. Radix - 1 \/ Cast(ty, x.v).v \in {0, 1}
  BY <1>2, ValueForms
<1> QED BY <1>3, RadixIsNat

\* The simulator's arithmetic yields values of its types, or the process is
\* killed: a result is always converted back to the type of the left operand.
THEOREM ArithmeticIsClosed ==
  /\ \A op \in BinaryOp, l, r \in AllValues : ApplyBinaryOp(op, l, r) \subseteq AllValues \cup {Trap}
  /\ \A op \in UnaryOp, x \in AllValues : ApplyUnaryOp(op, x) \in AllValues
  /\ \A kind \in CmpKind, l, r \in AllValues : ApplyComparison(kind, l, r) \in AllValues
<1>1. ASSUME NEW op \in BinaryOp, NEW l \in AllValues, NEW r \in AllValues
      PROVE  ApplyBinaryOp(op, l, r) \subseteq AllValues \cup {Trap}
  <2> DEFINE ty == CommonType(l, r)
             a  == Cast(ty, l.v).v
             b  == Cast(ty, r.v).v
             Converted(n) == Cast(l.ty, Computed(ty, n))
  <2>1. l.ty \in {"i64", "u64", "bool"} /\ ty \in {"i64", "u64", "bool"}
    BY ValueForms DEF CommonType, I64, U64, Bool
  <2>2. ApplyBinaryOp(op, l, r) \subseteq
          {Trap, Converted(0), Converted(a)} \cup {y \in {Converted(Raw(op, a, b))} : ~(op \in {"Div", "Mod"} /\ b = 0)}
    BY DEF ApplyBinaryOp
  <2> HIDE DEF ty
  <2>3. a \in -Radix .. Radix /\ b \in -Radix .. Radix /\ a \in Int
    BY <2>1, OperandConverted, RadixIsNat
  <2>4. ASSUME NEW n \in Int PROVE Converted(n) \in AllValues
    <3>1. Computed(ty, n) \in Int
      BY <2>1, CastIsValue, ValueForms DEF Computed
    <3> QED BY <2>1, <3>1, CastIsValue
  <2> HIDE DEF Converted, a, b
  <2>5. ~(op \in {"Div", "Mod"} /\ b = 0) => Raw(op, a, b) \in Int
    BY <2>3, RawIsInt
  <2> QED BY <2>2, <2>3, <2>4, <2>5
<1>2. ASSUME NEW op \in UnaryOp, NEW x \in AllValues PROVE ApplyUnaryOp(op, x) \in AllValues
  <2>1. x.v \in Int /\ x.ty \in {"i64", "u64", "bool"}
    BY ValueForms DEF I64, U64, Bool
  <2>2. -x.v \in Int /\ -x.v - 1 \in Int
    BY <2>1
  <2>3. Cast(x.ty, -x.v) \in AllValues /\ Cast(x.ty, -x.v - 1) \in AllValues /\ Bool(x.v = 0) \in AllValues
    BY <2>1, <2>2, CastIsValue DEF AllValues, Bools, Bool
  <2> QED BY <2>3 DEF ApplyUnaryOp, UnaryOp
<1>3. ASSUME NEW kind \in CmpKind, NEW l \in AllValues, NEW r \in AllValues
      PROVE  ApplyComparison(kind, l, r) \in AllValues
  BY DEF ApplyComparison, Bool, AllValues, Bools
<1> QED BY <1>1, <1>2, <1>3

(***************************************************************************)
(* The optimizer of a program is the optimizer of Optimizer_proofs, run    *)
(* once on a module of lowered functions.                                  *)
(***************************************************************************)
OptP == INSTANCE Optimizer_proofs WITH
  Programs <- Seq(LoweredFunctions), PassLists <- PassLists, MaxRuns <- 1,
  FoldBinary <- FoldBinaryInt, FoldUnary1 <- FoldUnary, IsInt <- IsInt64, IsTrue <- Truth,
  source <- lowered, functions <- irModule, runs <- 1, phase <- optPhase,
  passes <- optPasses, fired <- optFired, current <- optCurrent, pass <- optPass,
  changed <- optChanged, touched <- optTouched, cursor <- optCursor, used <- optUsed,
  reached <- optReached, worklist <- optWorklist

LEMMA SameTerms ==
  /\ OptP!IRInstr(RegValue) = Instr /\ OptP!IRBlock(RegValue) = Block
  /\ OptP!Optional(RegValue) = Values /\ OptP!Optional(CmpKind) = Optional(CmpKind)
  /\ OptP!CmpKind = CmpKind
  /\ \A bs : OptP!RebuildBlockIndex(bs) = RebuildBlockIndex(bs)
<1>1. OptP!IRInstr(RegValue) = Instr
  BY DEF Instr, IRInstr, IROp, BinaryOp, UnaryOp, CmpKind, Optional,
         OptP!IRInstr, OptP!IROp, OptP!BinaryOp, OptP!UnaryOp, OptP!CmpKind, OptP!Optional
<1>2. OptP!IRBlock(RegValue) = Block
  BY <1>1 DEF Instr, Block, IRBlock, OptP!IRBlock
<1>3. /\ OptP!Optional(RegValue) = Values /\ OptP!CmpKind = CmpKind
      /\ OptP!Optional(CmpKind) = Optional(CmpKind)
  BY DEF Values, Optional, OptP!Optional, CmpKind, OptP!CmpKind
<1>4. \A bs : OptP!RebuildBlockIndex(bs) = RebuildBlockIndex(bs)
  BY DEF RebuildBlockIndex, OptP!RebuildBlockIndex
<1> QED BY <1>1, <1>2, <1>3, <1>4

\* What the lowering makes the optimizer accepts.
LEMMA LoweredAccepted ==
  ASSUME NEW fn \in LoweredFunctions
  PROVE  /\ fn \in OptP!Func /\ OptP!Sound(fn) /\ OptP!IndexOK(fn) /\ OptP!Optimizable(fn)
         /\ \A b \in DOMAIN fn.blocks : OptP!BranchesLand(fn, b)
<1>1. /\ Handed!WellTyped(fn) /\ Handed!ConstantIsDefinition(fn) /\ Handed!SingleWriter(fn)
      /\ Handed!UniqueIds(fn) /\ \A b \in DOMAIN fn.blocks : Handed!BranchesLand(fn, b)
  BY HandedSound
<1>2. OptP!WellTyped(fn)
  BY <1>1, SameTerms
     DEF OptP!WellTyped, Handed!WellTyped, OptP!InstrAt, Handed!InstrAt, OptP!IRBlock, Handed!IRBlock,
         OptP!IRInstr, Handed!IRInstr, OptP!IROp, Handed!IROp, OptP!BinaryOp, Handed!BinaryOp,
         OptP!UnaryOp, Handed!UnaryOp, OptP!CmpKind, Handed!CmpKind, OptP!Optional, Handed!Optional
<1>3. OptP!ConstantIsDefinition(fn)
  BY <1>1 DEF OptP!ConstantIsDefinition, Handed!ConstantIsDefinition, OptP!InstrAt, Handed!InstrAt,
              OptP!Constant, Handed!Constant
<1>4. OptP!SingleWriter(fn)
  BY <1>1 DEF OptP!SingleWriter, Handed!SingleWriter, OptP!InstrAt, Handed!InstrAt,
              OptP!FoldableOp, Handed!FoldableOp
<1>5. OptP!UniqueIds(fn)
  BY <1>1 DEF OptP!UniqueIds, Handed!UniqueIds
<1>6. \A b \in DOMAIN fn.blocks : OptP!BranchesLand(fn, b)
  BY <1>1 DEF OptP!BranchesLand, Handed!BranchesLand, OptP!InstrAt, Handed!InstrAt, OptP!Targets,
              Handed!Targets, OptP!IsBlockId, Handed!IsBlockId
<1>7. /\ fn \in [name : Name, blocks : Seq(Block), values : Seq(Values), blockIndex : Indexes]
      /\ fn.blockIndex = RebuildBlockIndex(fn.blocks) /\ Name = STRING
  BY ProgramAssumption DEF LoweredFunctions, Name
<1>8. fn.blockIndex = OptP!RebuildBlockIndex(fn.blocks)
  BY <1>7, SameTerms
<1>9. fn \in [name : STRING, blocks : Seq(Block), values : Seq(Values),
              blockIndex : {<<>>, OptP!RebuildBlockIndex(fn.blocks)}]
  BY <1>7, <1>8
<1>10. OptP!Optimizable(fn)
  BY <1>9, <1>2, <1>3, <1>4, <1>5, <1>6, SameTerms DEF OptP!Optimizable
<1>11. fn \in OptP!Func /\ OptP!IndexOK(fn)
  <2>1. fn.blockIndex \in OptP!Indexes
    BY <1>7, <1>8, SameTerms DEF OptP!Indexes, OptP!Block
  <2> QED BY <1>9, <2>1, <1>8, SameTerms DEF OptP!Func, OptP!Block, OptP!IndexOK
<1>12. OptP!Sound(fn)
  BY <1>2, <1>3, <1>4, <1>5 DEF OptP!Sound, OptP!WellTyped, OptP!OutputsBounded
<1> QED BY <1>6, <1>10, <1>11, <1>12

LEMMA SamePasses == OptP!PassNames = Opt!PassNames
  BY DEF OptP!PassNames, Opt!PassNames

\* What the optimizer takes for granted holds here.
LEMMA OptimizerTrusts == OptP!OptimizerAssumption
<1>1. 1 \in Nat /\ PassLists \subseteq Seq(OptP!PassNames)
  BY ProgramAssumption, SamePasses
<1>2. ASSUME NEW p \in Seq(LoweredFunctions)
      PROVE  p \in Seq({p[k] : k \in DOMAIN p}) /\ \A k \in DOMAIN p : OptP!Optimizable(p[k])
  BY LoweredAccepted
<1>3. RegValue = AllValues /\ None \notin AllValues /\ Trap \notin RegValue /\ Trap # None
  BY ProgramAssumption, LoweringAssumption
<1>4. \A op \in OptP!FoldableOp, x \in RegValue : FoldUnary(op, x) \in OptP!Optional(RegValue)
  BY <1>3, FoldUnaryGives, SameTerms DEF Values
<1>5. ASSUME NEW op \in OptP!FoldableOp, NEW kind \in OptP!Optional(OptP!CmpKind),
             NEW l \in RegValue, NEW r \in RegValue, IsInt64(l), IsInt64(r)
      PROVE  LET results == FoldBinaryInt(op, kind, l, r)
             IN  results \subseteq RegValue \cup {None, Trap} /\ (None \in results => results = {None})
  BY <1>3, <1>5, FoldBinaryGives, SameTerms
<1>6. \A p \in Seq(LoweredFunctions) : p \in Seq({p[k] : k \in DOMAIN p}) /\ \A k \in DOMAIN p : OptP!Optimizable(p[k])
  BY <1>2
<1>7. \A op \in OptP!FoldableOp, kind \in OptP!Optional(OptP!CmpKind), l, r \in RegValue :
        IsInt64(l) /\ IsInt64(r) =>
          LET results == FoldBinaryInt(op, kind, l, r)
          IN  results \subseteq RegValue \cup {None, Trap} /\ (None \in results => results = {None})
  BY <1>5
<1> HIDE DEF FoldBinaryInt, FoldUnary, IsInt64, LoweredFunctions
<1> QED BY <1>1, <1>3, <1>4, <1>6, <1>7, Zenon DEF OptP!OptimizerAssumption

(***************************************************************************)
(* The invariant of a program.                                             *)
(***************************************************************************)
\* The variables of an optimizer that there is not.
AtRest ==
  /\ optPasses = <<>> /\ optFired = <<>> /\ optCurrent = 1 /\ optPass = 1
  /\ optChanged = FALSE /\ optTouched = FALSE /\ optCursor = <<1, 1>>
  /\ optUsed = {} /\ optReached = {} /\ optWorklist = {}

\* The IR between two calls of optimize(), made by a build.
IRSound ==
  /\ irModule \in Seq(OptP!Func) /\ Len(irModule) = Len(lowered)
  /\ \A k \in DOMAIN irModule :
       /\ OptP!Sound(irModule[k]) /\ OptP!IndexOK(irModule[k])
       /\ \A b \in DOMAIN irModule[k].blocks : OptP!BranchesLand(irModule[k], b)
       /\ lowered[k].blocks # <<>> =>
            irModule[k].blocks # <<>> /\ irModule[k].blocks[1].id = lowered[k].blocks[1].id

\* What a program that was built remembers of the build.
Remembers ==
  /\ created /\ ~warned
  /\ lowered \in Seq(LoweredFunctions) /\ lowered # <<>>
  /\ DOMAIN meant = DOMAIN lowered

\* lower() runs to the end of the functions it was given.
BuildInv ==
  phase # "dsl" =>
    /\ created /\ ~warned /\ input # <<>> /\ optPhase = "resting"
    /\ phase = "built" => Len(module) = Len(input)

OptimizeInv ==
  IF optPhase = "resting" THEN AtRest /\ (irModule = None \/ (Remembers /\ IRSound))
  ELSE Remembers /\ OptP!SoundInv

ProgramInv ==
  /\ LoweringInv /\ BuildInv /\ OptimizeInv
  /\ created \in BOOLEAN /\ warned \in BOOLEAN

LEMMA InitProgram == Init => ProgramInv
<1> SUFFICES ASSUME Init PROVE ProgramInv
  OBVIOUS
<1>1. LoweringInv
  BY InitLowering DEF Init
<1>2. phase = "dsl"
  BY DEF Init, LoweringInit, Idle
<1> QED BY <1>1, <1>2 DEF Init, ProgramInv, BuildInv, OptimizeInv, AtRest

\* What disturbs neither the IR nor the optimizer leaves their invariant alone.
LEMMA OptimizeInvKept ==
  ASSUME OptimizeInv, UNCHANGED <<created, irModule, warned, meant, lowered, optVars>>
  PROVE  OptimizeInv'
<1>1. UNCHANGED <<created, irModule, warned, meant, lowered, optPhase>> /\ UNCHANGED optRestVars /\ optPasses' = optPasses
  BY DEF optVars
<1>2. UNCHANGED <<optFired, optCurrent, optPass, optChanged, optTouched, optCursor, optUsed, optReached, optWorklist>>
  BY <1>1 DEF optRestVars
<1>3. CASE optPhase = "resting"
  BY <1>1, <1>2, <1>3 DEF OptimizeInv, AtRest, Remembers, IRSound
<1>4. CASE optPhase # "resting"
  <2>1. OptP!SoundInv /\ Remembers
    BY <1>4 DEF OptimizeInv
  <2>2. OptP!SoundInv'
    <3>1. UNCHANGED OptP!vars
      BY <1>1, <1>2 DEF OptP!vars
    <3> QED BY <2>1, <3>1, OptimizerTrusts, NoneAssumption, OptP!NextSound
  <2> QED BY <1>1, <1>4, <2>1, <2>2 DEF OptimizeInv, Remembers
<1> QED BY <1>3, <1>4

\* The number of functions that lower() is given and has lowered.
LEMMA BuildProceeds ==
  ASSUME LoweringInv, BuildInv, LoweringStep,
         UNCHANGED <<created, warned, optPhase>>
  PROVE  BuildInv'
<1>1. phase # "dsl" /\ phase # "built" /\ input' = input
  BY DEF LoweringStep, BeginFunction, DeclareVariable, BeginStatements, LowerAssign, LowerReturn, LowerCall,
         LowerWhile, LowerIf, EndBody, EndFunction, Lowers
<1>2. phase' = "built" => Len(module') = Len(input')
  BY <1>1 DEF LoweringStep, BeginFunction, DeclareVariable, BeginStatements, LowerAssign, LowerReturn, LowerCall,
         LowerWhile, LowerIf, EndBody, EndFunction, Lowers
<1> QED BY <1>1, <1>2 DEF BuildInv

LEMMA ForgottenSound ==
  ASSUME LoweringInv, ForgetLowering, UNCHANGED dslVars
  PROVE  LoweringInv'
<1>1. DslInv'
  BY DEF LoweringInv, DslInv, dslVars
<1>2. NamesInv'
  BY DEF ForgetLowering, NamesInv
<1> QED BY <1>1, <1>2 DEF LoweringInv, ForgetLowering, InputInv, Phase

LEMMA StartBuildKeeps == ProgramInv /\ StartBuild => ProgramInv'
<1> SUFFICES ASSUME ProgramInv, StartBuild PROVE ProgramInv'
  OBVIOUS
<1>1. LoweringInv'
  BY BuildLowering DEF ProgramInv, StartBuild
<1>2. created /\ optPhase = "resting" /\ phase' = "begin" /\ input' # <<>> /\ warned' = FALSE
      /\ UNCHANGED <<created, irModule, meant, lowered, optVars>>
  <2>1. Len(Append(OtherFunctions, Built("main"))) > 0
    BY LoweringAssumption
  <2> QED BY <2>1 DEF StartBuild, Build, Functions, Resting
<1>3. UNCHANGED <<optPhase, optPasses, optFired, optCurrent, optPass, optChanged, optTouched, optCursor,
                  optUsed, optReached, optWorklist>>
  BY <1>2 DEF optVars, optRestVars
<1>4. OptimizeInv'
  BY <1>2, <1>3 DEF ProgramInv, OptimizeInv, AtRest, Remembers, IRSound
<1> QED BY <1>1, <1>2, <1>3, <1>4 DEF ProgramInv, BuildInv

LEMMA FinishBuildKeeps == ProgramInv /\ FinishBuild => ProgramInv'
<1> SUFFICES ASSUME ProgramInv, FinishBuild PROVE ProgramInv'
  OBVIOUS
<1>1. LoweringInv'
  BY ForgottenSound DEF ProgramInv, FinishBuild
<1>2. /\ phase = "built" /\ irModule' = module /\ lowered' = module /\ meant' = input /\ phase' = "dsl"
      /\ UNCHANGED <<created, warned, optVars>>
  BY DEF FinishBuild, ForgetLowering
<1>3. UNCHANGED <<optPhase, optPasses, optFired, optCurrent, optPass, optChanged, optTouched, optCursor,
                  optUsed, optReached, optWorklist>>
  BY <1>2 DEF optVars, optRestVars
<1>4. /\ module \in Seq(LoweredFunctions) /\ created /\ ~warned /\ input # <<>> /\ optPhase = "resting"
      /\ Len(module) = Len(input) /\ InputInv
  BY <1>2 DEF ProgramInv, BuildInv, LoweringInv
<1>5. Remembers'
  <2>1. DOMAIN module = DOMAIN input /\ module # <<>>
    BY <1>4 DEF InputInv
  <2> QED BY <1>2, <1>4, <2>1 DEF Remembers
<1>6. IRSound'
  <2>1. \A k \in DOMAIN module : module[k] \in LoweredFunctions
    BY <1>4
  <2>2. module \in Seq(OptP!Func)
    BY <1>4, <2>1, LoweredAccepted
  <2> QED BY <1>2, <2>1, <2>2, LoweredAccepted DEF IRSound
<1>7. AtRest'
  BY <1>3, <1>4 DEF ProgramInv, OptimizeInv, AtRest
<1> QED BY <1>1, <1>2, <1>3, <1>4, <1>5, <1>6, <1>7 DEF ProgramInv, BuildInv, OptimizeInv

LEMMA StartOptimizeKeeps ==
  ASSUME ProgramInv, NEW level \in PassLists, StartOptimize(level)
  PROVE  ProgramInv'
<1>1. /\ phase = "dsl" /\ optPhase = "resting" /\ irModule # None
      /\ optPasses' = level /\ optPhase' = "start"
      /\ UNCHANGED <<created, irModule, warned, meant, lowered, optFired, optCurrent, optPass, optChanged,
                     optTouched, optCursor, optUsed, optReached, optWorklist>>
      /\ UNCHANGED <<dslVars, loweringVars>>
  BY DEF StartOptimize, Resting, optRestVars
<1>2. AtRest /\ Remembers /\ IRSound
  BY <1>1 DEF ProgramInv, OptimizeInv
<1>3. LoweringInv' /\ phase' = "dsl"
  BY <1>1, LoweringStutter DEF ProgramInv, loweringVars
<1>4. /\ lowered' \in Seq(LoweredFunctions) /\ lowered' # <<>> /\ irModule' \in Seq(OptP!Func)
      /\ Len(irModule') = Len(lowered') /\ level \in Seq(OptP!PassNames)
  BY <1>1, <1>2, ProgramAssumption, SamePasses DEF Remembers, IRSound
<1>5. OptP!StateInv'
  <2>1. 1 \in DOMAIN irModule' /\ 1 \in 1 .. (Len(level) + 1)
    BY <1>4
  <2>2. /\ optFired' = <<>> /\ optCurrent' = 1 /\ optPass' = 1 /\ optChanged' = FALSE /\ optTouched' = FALSE
        /\ optCursor' = <<1, 1>> /\ optUsed' = {} /\ optReached' = {} /\ optWorklist' = {}
    BY <1>1, <1>2 DEF AtRest
  <2>3. optCursor' \in (Nat \ {0}) \X (Nat \ {0}) /\ optFired' \in Seq(OptP!PassNames)
    BY <2>2
  <2>4. /\ optPhase' = "start" /\ "start" \in OptP!Phase /\ optPasses' = level
        /\ optUsed' \in SUBSET Nat /\ optReached' \in SUBSET Nat /\ optWorklist' \in SUBSET optReached'
    BY <1>1, <2>2 DEF OptP!Phase
  <2> QED BY <1>4, <2>1, <2>2, <2>3, <2>4 DEF OptP!StateInv
<1>6. OptP!FunctionsSound' /\ OptP!IndexInv' /\ OptP!EntryKept'
  BY <1>1, <1>2 DEF IRSound, OptP!FunctionsSound, OptP!IndexInv, OptP!EntryKept
<1>7. OptP!ReachInv' /\ OptP!BranchTargetsExist'
  BY <1>1, <1>2 DEF IRSound, OptP!ReachInv, OptP!Eliminating, OptP!BranchTargetsExist
<1>8. OptP!SoundInv'
  BY <1>5, <1>6, <1>7 DEF OptP!SoundInv
<1> QED BY <1>1, <1>2, <1>3, <1>8 DEF ProgramInv, BuildInv, OptimizeInv, Remembers

\* The two instances of the optimizer take the same steps.
LEMMA SameSteps == Opt!OptimizerStep => OptP!OptimizerStep
<1> SUFFICES ASSUME Opt!OptimizerStep PROVE OptP!OptimizerStep
  OBVIOUS
<1> USE DEF OptP!Fn, Opt!Fn, OptP!B, Opt!B, OptP!I, Opt!I, OptP!HasInstr, Opt!HasInstr, OptP!InstrAt, Opt!InstrAt
<1>1. CASE Opt!StartPass
  <2>1. OptP!StartPass
    BY <1>1 DEF OptP!StartPass, Opt!StartPass, OptP!UsedValueIds, Opt!UsedValueIds,
                OptP!WorklistSeed, Opt!WorklistSeed
  <2> QED BY <2>1 DEF OptP!OptimizerStep
<1>2. CASE Opt!FoldConstant
  <2>1. OptP!FoldConstant
    BY <1>2 DEF OptP!FoldConstant, Opt!FoldConstant, OptP!Folded, Opt!Folded, OptP!Constant, Opt!Constant,
                OptP!FoldableOp, Opt!FoldableOp, OptP!FoldInstr, Opt!FoldInstr, OptP!Rewrite, Opt!Rewrite,
                OptP!SkipTo, Opt!SkipTo, OptP!Running, Opt!Running
  <2> QED BY <2>1 DEF OptP!OptimizerStep
<1>3. CASE Opt!EraseDeadInstr
  <2>1. OptP!EraseDeadInstr
    BY <1>3 DEF OptP!EraseDeadInstr, Opt!EraseDeadInstr, OptP!IsDead, Opt!IsDead, OptP!NonElidableOp,
                Opt!NonElidableOp, OptP!Without, Opt!Without, OptP!Rewrite, Opt!Rewrite,
                OptP!SkipTo, Opt!SkipTo, OptP!Running, Opt!Running
  <2> QED BY <2>1 DEF OptP!OptimizerStep
<1>4. CASE Opt!SimplifyJump
  <2>1. OptP!SimplifyJump
    BY <1>4 DEF OptP!SimplifyJump, Opt!SimplifyJump, OptP!IsDecided, Opt!IsDecided, OptP!Decide, Opt!Decide,
                OptP!Constant, Opt!Constant, OptP!Rewrite, Opt!Rewrite,
                OptP!SkipTo, Opt!SkipTo, OptP!Running, Opt!Running
  <2> QED BY <2>1 DEF OptP!OptimizerStep
<1>5. CASE Opt!NextBlock
  <2>1. OptP!NextBlock
    BY <1>5 DEF OptP!NextBlock, Opt!NextBlock, OptP!SkipTo, Opt!SkipTo
  <2> QED BY <2>1 DEF OptP!OptimizerStep
<1>6. ASSUME NEW id \in optWorklist, Opt!VisitReachable(id) PROVE OptP!OptimizerStep
  <2>1. OptP!VisitReachable(id)
    BY <1>6 DEF OptP!VisitReachable, Opt!VisitReachable, OptP!FindBlock, Opt!FindBlock, OptP!SearchBlock,
                Opt!SearchBlock, OptP!RebuildBlockIndex, Opt!RebuildBlockIndex,
                OptP!BlockTargets, Opt!BlockTargets, OptP!Targets, Opt!Targets
  <2> QED BY <2>1 DEF OptP!OptimizerStep
<1>7. CASE Opt!WorklistEmpty
  <2>1. OptP!WorklistEmpty
    BY <1>7 DEF OptP!WorklistEmpty, Opt!WorklistEmpty
  <2> QED BY <2>1 DEF OptP!OptimizerStep
<1>8. CASE Opt!EraseUnreachableBlock
  <2>1. OptP!EraseUnreachableBlock
    BY <1>8 DEF OptP!EraseUnreachableBlock, Opt!EraseUnreachableBlock, OptP!Without, Opt!Without,
                OptP!Rewrite, Opt!Rewrite, OptP!SkipTo, Opt!SkipTo, OptP!Running, Opt!Running
  <2> QED BY <2>1 DEF OptP!OptimizerStep
<1>9. CASE Opt!FinishPass
  <2>1. OptP!FinishPass
    BY <1>9 DEF OptP!FinishPass, Opt!FinishPass, OptP!Finished, Opt!Finished,
                OptP!RebuildBlockIndex, Opt!RebuildBlockIndex
  <2> QED BY <2>1 DEF OptP!OptimizerStep
<1>10. CASE Opt!EndRound
  <2>1. OptP!EndRound
    BY <1>10 DEF OptP!EndRound, Opt!EndRound, OptP!AnotherRound, Opt!AnotherRound, OptP!IsLast, Opt!IsLast
  <2> QED BY <2>1 DEF OptP!OptimizerStep
<1> QED BY <1>1, <1>2, <1>3, <1>4, <1>5, <1>6, <1>7, <1>8, <1>9, <1>10 DEF Opt!OptimizerStep

LEMMA OptimizerRuns == Opt!OptimizerStep => optPhase \notin {"resting", "done"} /\ lowered' = lowered
  BY DEF Opt!OptimizerStep, Opt!StartPass, Opt!FoldConstant, Opt!EraseDeadInstr, Opt!SimplifyJump,
          Opt!NextBlock, Opt!VisitReachable, Opt!WorklistEmpty, Opt!EraseUnreachableBlock, Opt!FinishPass,
          Opt!EndRound, Opt!Running, Opt!SkipTo, Opt!Rewrite

LEMMA OptimizeFunctionsKeeps == ProgramInv /\ OptimizeFunctions => ProgramInv'
<1> SUFFICES ASSUME ProgramInv, OptimizeFunctions PROVE ProgramInv'
  OBVIOUS
<1>1. /\ Opt!OptimizerStep /\ UNCHANGED <<dslVars, loweringVars>> /\ UNCHANGED <<created, warned, meant>>
  BY DEF OptimizeFunctions
<1>2. optPhase # "resting" /\ lowered' = lowered
  BY <1>1, OptimizerRuns
<1>3. Remembers /\ OptP!SoundInv
  BY <1>2 DEF ProgramInv, OptimizeInv
<1>4. OptP!Next
  BY <1>1, SameSteps DEF OptP!Next
<1>5. OptP!SoundInv'
  BY <1>3, <1>4, OptimizerTrusts, NoneAssumption, OptP!NextSound
<1>6. optPhase' # "resting"
  BY <1>5 DEF OptP!SoundInv, OptP!StateInv, OptP!Phase
<1>7. phase = "dsl" /\ phase' = "dsl"
  BY <1>1, <1>2 DEF ProgramInv, BuildInv, loweringVars
<1>8. LoweringInv'
  BY <1>1, LoweringStutter DEF ProgramInv
<1> QED BY <1>1, <1>2, <1>3, <1>5, <1>6, <1>7, <1>8 DEF ProgramInv, BuildInv, OptimizeInv, Remembers

LEMMA FinishOptimizeKeeps == ProgramInv /\ FinishOptimize => ProgramInv'
<1> SUFFICES ASSUME ProgramInv, FinishOptimize PROVE ProgramInv'
  OBVIOUS
<1>1. /\ optPhase = "done" /\ optPhase' = "resting" /\ AtRest' /\ UNCHANGED <<dslVars, loweringVars>>
      /\ UNCHANGED <<created, irModule, warned, meant, lowered>>
  BY DEF FinishOptimize, AtRest
<1>2. Remembers /\ OptP!SoundInv
  BY <1>1 DEF ProgramInv, OptimizeInv
<1>3. IRSound
  BY <1>1, <1>2 DEF IRSound, OptP!SoundInv, OptP!StateInv, OptP!FunctionsSound, OptP!IndexInv, OptP!Erasing,
                    OptP!BranchTargetsExist, OptP!EntryKept
<1>4. phase = "dsl" /\ phase' = "dsl"
  BY <1>1 DEF ProgramInv, BuildInv, loweringVars
<1>5. LoweringInv'
  BY <1>1, LoweringStutter DEF ProgramInv
<1> QED BY <1>1, <1>2, <1>3, <1>4, <1>5 DEF ProgramInv, BuildInv, OptimizeInv, Remembers, IRSound

\* An execution does not disturb the program.
LEMMA ExecutionKeeps ==
  ASSUME ProgramInv, UNCHANGED unlessRunning
  PROVE  ProgramInv'
<1>1. UNCHANGED <<dslVars, loweringVars>> /\ UNCHANGED <<created, irModule, warned, meant, lowered, optVars>>
  BY DEF unlessRunning
<1>2. LoweringInv' /\ OptimizeInv'
  BY <1>1, LoweringStutter, OptimizeInvKept DEF ProgramInv
<1>3. UNCHANGED <<phase, input, module, optPhase>>
  BY <1>1 DEF loweringVars, optVars
<1> QED BY <1>1, <1>2, <1>3 DEF ProgramInv, BuildInv

LEMMA NextProgram == ProgramInv /\ [Next]_programVars => ProgramInv'
<1> SUFFICES ASSUME ProgramInv, [Next]_programVars PROVE ProgramInv'
  OBVIOUS
<1>1. CASE CreateFunction
  <2>1. /\ ~created /\ created' = TRUE /\ UNCHANGED <<dslVars, loweringVars>> /\ phase = "dsl"
        /\ optPhase = "resting" /\ UNCHANGED <<irModule, warned, meant, lowered, optVars>>
    BY <1>1 DEF CreateFunction, Resting
  <2>2. LoweringInv' /\ phase' = "dsl"
    BY <2>1, LoweringStutter DEF ProgramInv, loweringVars
  <2>3. irModule = None /\ AtRest
    BY <2>1 DEF ProgramInv, OptimizeInv, Remembers
  <2>4. OptimizeInv'
    BY <2>1, <2>3 DEF OptimizeInv, AtRest, optVars, optRestVars
  <2> QED BY <2>1, <2>2, <2>4 DEF ProgramInv, BuildInv
<1>2. CASE EditFunction
  <2>1. /\ phase = "dsl" /\ DslNext /\ UNCHANGED loweringVars
        /\ UNCHANGED <<created, irModule, warned, meant, lowered, optVars>>
    BY <1>2 DEF EditFunction, Resting
  <2>2. LoweringInv' /\ phase' = "dsl"
    BY <2>1, DslLowering DEF ProgramInv, loweringVars
  <2> QED BY <2>1, <2>2, OptimizeInvKept DEF ProgramInv, BuildInv
<1>3. CASE BuildNothing
  <2>1. /\ Functions = <<>> /\ warned' = TRUE /\ UNCHANGED <<dslVars, loweringVars>> /\ phase = "dsl"
        /\ optPhase = "resting" /\ UNCHANGED <<created, irModule, meant, lowered, optVars>>
    BY <1>3 DEF BuildNothing, Resting
  <2>2. LoweringInv' /\ phase' = "dsl"
    BY <2>1, LoweringStutter DEF ProgramInv, loweringVars
  <2>3. ~created
    <3>1. Append(OtherFunctions, Built("main")) # <<>>
      BY LoweringAssumption
    <3> QED BY <2>1, <3>1, Zenon DEF Functions
  <2>4. irModule = None /\ AtRest
    BY <2>1, <2>3 DEF ProgramInv, OptimizeInv, Remembers
  <2>5. OptimizeInv'
    BY <2>1, <2>4 DEF OptimizeInv, AtRest, optVars, optRestVars
  <2> QED BY <2>1, <2>2, <2>5 DEF ProgramInv, BuildInv
<1>4. CASE LowerFunctions
  <2>1. LoweringStep /\ UNCHANGED <<created, irModule, warned, meant, lowered, optVars>> /\ optPhase' = optPhase
    BY <1>4 DEF LowerFunctions, optVars
  <2>2. LoweringInv'
    BY <2>1, NextLowering DEF ProgramInv, LoweringNext
  <2> QED BY <2>1, <2>2, OptimizeInvKept, BuildProceeds DEF ProgramInv
<1>5. CASE Simulate \/ SimulatorStep \/ EmitAsm \/ ExecuteAsm \/ ExecuteSource \/ EndRun
  BY <1>5, ExecutionKeeps DEF Simulate, SimulatorStep, EmitAsm, ExecuteAsm, ExecuteSource, EndRun
<1>6. CASE UNCHANGED programVars
  BY <1>6, ExecutionKeeps DEF programVars, unlessRunning
<1>7. CASE \E level \in PassLists : StartOptimize(level)
  BY <1>7, StartOptimizeKeeps
<1> QED BY <1>1, <1>2, <1>3, <1>4, <1>5, <1>6, <1>7, StartBuildKeeps, FinishBuildKeeps, OptimizeFunctionsKeeps,
           FinishOptimizeKeeps
        DEF Next

LEMMA ProgramStaysSound == Spec => []ProgramInv
  BY InitProgram, NextProgram, PTL DEF Spec

\* What there is of the IR, at rest or being rewritten.
LEMMA IRIs ==
  ASSUME ProgramInv, irModule # None
  PROVE  /\ Remembers /\ irModule \in Seq(OptP!Func) /\ Len(irModule) = Len(lowered)
         /\ OptP!FunctionsSound /\ OptP!IndexInv /\ OptP!BranchTargetsExist /\ OptP!EntryKept
<1>1. CASE optPhase = "resting"
  <2>1. Remembers /\ IRSound
    BY <1>1 DEF ProgramInv, OptimizeInv
  <2> QED BY <1>1, <2>1 DEF IRSound, OptP!FunctionsSound, OptP!IndexInv, OptP!BranchTargetsExist, OptP!EntryKept
<1>2. CASE optPhase # "resting"
  <2>1. Remembers /\ OptP!SoundInv
    BY <1>2 DEF ProgramInv, OptimizeInv
  <2> QED BY <2>1 DEF OptP!SoundInv, OptP!StateInv
<1> QED BY <1>1, <1>2

\* Whatever is called, the IR of a program is well typed, and belongs to the
\* functions it was built from; a program with IR does not warn that it is empty.
THEOREM ProgramIsTyped == Spec => []ProgramTypeOK
<1>1. ProgramInv => ProgramTypeOK
  <2> SUFFICES ASSUME ProgramInv PROVE ProgramTypeOK
    OBVIOUS
  <2>1. optChanged \in BOOLEAN /\ optTouched \in BOOLEAN /\ optPhase \in {"resting"} \cup Opt!Phase
    BY DEF ProgramInv, OptimizeInv, AtRest, OptP!SoundInv, OptP!StateInv, OptP!Phase, Opt!Phase
  <2>2. ASSUME irModule # None
        PROVE  /\ \A k \in DOMAIN irModule : Opt!WellTyped(irModule[k])
               /\ DOMAIN irModule = DOMAIN meant /\ ~warned
    <3>1. /\ Remembers /\ irModule \in Seq(OptP!Func) /\ Len(irModule) = Len(lowered)
          /\ OptP!FunctionsSound
      BY <2>2, IRIs
    <3>2. ASSUME NEW k \in DOMAIN irModule PROVE Opt!WellTyped(irModule[k])
      <4>1. irModule[k] \in OptP!Func /\ OptP!Sound(irModule[k])
        BY <3>1 DEF OptP!FunctionsSound
      <4> DEFINE f == irModule[k]
      <4>2. f.blocks \in Seq(Block) /\ f.values \in Seq(Values)
        BY <4>1, SameTerms DEF OptP!Func, OptP!Block
      <4>3. Opt!IRBlock(RegValue) = Block /\ Opt!Optional(RegValue) = Values
        BY DEF Block, Values, IRBlock, IRInstr, IROp, BinaryOp, UnaryOp, CmpKind, Optional, Opt!IRBlock,
               Opt!IRInstr, Opt!IROp, Opt!BinaryOp, Opt!UnaryOp, Opt!CmpKind, Opt!Optional
      <4>4. \A b \in DOMAIN f.blocks : \A i \in DOMAIN f.blocks[b].instrs :
              Opt!InstrAt(f, b, i).output # None => Opt!InstrAt(f, b, i).output < Len(f.values)
        BY <4>1 DEF OptP!Sound, OptP!OutputsBounded, OptP!InstrAt, Opt!InstrAt
      <4> HIDE DEF f
      <4>5. Opt!WellTyped(f)
        BY <4>2, <4>3, <4>4 DEF Opt!WellTyped
      <4> QED BY <4>5 DEF f
    <3>3. DOMAIN irModule = DOMAIN meant /\ ~warned
      BY <3>1 DEF Remembers
    <3> QED BY <3>2, <3>3
  <2>3. phase # "dsl" => optPhase = "resting"
    BY DEF ProgramInv, BuildInv
  <2> QED BY <2>1, <2>2, <2>3 DEF ProgramTypeOK, ProgramInv
<1> QED BY <1>1, ProgramStaysSound, PTL

\* Whatever is called and in whichever order, and at every step of an
\* optimization: the constants kept with values are those the instructions
\* compute, branches lead to blocks, the entry block stays, and the block index
\* is right.  The lowering establishes what the passes rely on.
THEOREM ProgramKeepsIRSound == Spec => []IRStaysSound
<1>1. ProgramInv => IRStaysSound
  <2> SUFFICES ASSUME ProgramInv, irModule # None
               PROVE  Opt!ConstantsSound /\ Opt!BranchTargetsExist /\ Opt!EntryKept /\ Opt!BlockIndexFresh
    BY DEF IRStaysSound
  <2>1. /\ irModule \in Seq(OptP!Func)
        /\ OptP!FunctionsSound /\ OptP!IndexInv /\ OptP!BranchTargetsExist /\ OptP!EntryKept
    BY IRIs
  <2>2. Opt!ConstantsSound
    BY <2>1 DEF Opt!ConstantsSound, OptP!FunctionsSound, OptP!Sound, OptP!ConstantIsDefinition,
                Opt!ConstantIsDefinition, OptP!InstrAt, Opt!InstrAt, OptP!Constant, Opt!Constant
  <2>3. \A k : Opt!Erasing(k) <=> OptP!Erasing(k)
    BY DEF Opt!Erasing, OptP!Erasing
  <2>4. Opt!BranchTargetsExist
    BY <2>1, <2>3 DEF Opt!BranchTargetsExist, OptP!BranchTargetsExist, Opt!BranchesLand, OptP!BranchesLand,
                      Opt!InstrAt, OptP!InstrAt, Opt!Targets, OptP!Targets, Opt!IsBlockId, OptP!IsBlockId
  <2>5. Opt!EntryKept
    BY <2>1 DEF Opt!EntryKept, OptP!EntryKept
  <2>6. Opt!BlockIndexFresh
    <3> SUFFICES ASSUME NEW k \in DOMAIN irModule, ~Opt!Erasing(k), NEW b \in DOMAIN irModule[k].blocks
                 PROVE  LET f == irModule[k]
                        IN  Opt!FindBlock(f, f.blocks[b].id) = Opt!SearchBlock(f, f.blocks[b].id)
      BY DEF Opt!BlockIndexFresh
    <3> DEFINE f == irModule[k]
    <3>1. f \in OptP!Func /\ OptP!UniqueIds(f) /\ OptP!IndexOK(f)
      BY <2>1, <2>3 DEF OptP!FunctionsSound, OptP!IndexInv, OptP!Sound
    <3> HIDE DEF f
    <3>2. b \in DOMAIN f.blocks => OptP!FindBlock(f, f.blocks[b].id) = b /\ OptP!SearchBlock(f, f.blocks[b].id) = b
      BY <3>1, OptimizerTrusts, NoneAssumption, OptP!FindBlockFinds
    <3>3. \A id : /\ OptP!SearchBlock(f, id) = Opt!SearchBlock(f, id)
                  /\ OptP!FindBlock(f, id) = Opt!FindBlock(f, id)
      BY DEF OptP!FindBlock, Opt!FindBlock, OptP!SearchBlock, Opt!SearchBlock, OptP!RebuildBlockIndex,
             Opt!RebuildBlockIndex
    <3> QED BY <3>2, <3>3 DEF f
  <2> QED BY <2>2, <2>4, <2>5, <2>6
<1> QED BY <1>1, ProgramStaysSound, PTL
(***************************************************************************)
(* The simulator of a program is the machine of Machine_proofs, on the IR. *)
(***************************************************************************)
TargetP == INSTANCE Machine_proofs WITH
  Module <- irModule, BinaryOutcomes <- ApplyBinaryOp, UnaryResult <- ApplyUnaryOp,
  CompareResult <- ApplyComparison, IsDivisionByZero <- DividesByZero, IsTrue <- Truth

\* The two instances of the machine execute the same.
LEMMA SameCache ==
  \A name, id : /\ Target!CachedFunction(name) = TargetP!CachedFunction(name)
                /\ Target!EntryFrame(name) = TargetP!EntryFrame(name)
                /\ Target!CachedBlock(name, id) = TargetP!CachedBlock(name, id)
<1>1. \A name : Target!CachedFunction(name) = TargetP!CachedFunction(name)
  BY DEF Target!CachedFunction, TargetP!CachedFunction, Target!Named, TargetP!Named, Target!Max,
         TargetP!Max
<1>2. \A name, id : Target!CachedIndex(name, id) = TargetP!CachedIndex(name, id)
  BY DEF Target!CachedIndex, TargetP!CachedIndex, Target!BlockAt, TargetP!BlockAt, Target!Named,
         TargetP!Named, Target!Min, TargetP!Min
<1>3. \A name, id : Target!CachedBlock(name, id) = TargetP!CachedBlock(name, id)
  BY <1>1, <1>2 DEF Target!CachedBlock, TargetP!CachedBlock
<1>4. \A name : Target!EntryFrame(name) = TargetP!EntryFrame(name)
  BY <1>1 DEF Target!EntryFrame, TargetP!EntryFrame
<1> QED BY <1>1, <1>3, <1>4

LEMMA SameStack ==
  /\ \A s : /\ Target!Top(s) = TargetP!Top(s) /\ Target!Pop(s) = TargetP!Pop(s)
            /\ Target!Advance(s) = TargetP!Advance(s)
  /\ \A s, id : /\ Target!ReadValue(s, id) = TargetP!ReadValue(s, id)
                /\ Target!GoTo(s, id) = TargetP!GoTo(s, id)
  /\ \A s, id, x : Target!WriteValue(s, id, x) = TargetP!WriteValue(s, id, x)
<1>1. \A s : /\ Target!Top(s) = TargetP!Top(s) /\ Target!Pop(s) = TargetP!Pop(s)
             /\ Target!Advance(s) = TargetP!Advance(s)
  BY DEF Target!Top, TargetP!Top, Target!Advance, TargetP!Advance, Target!Pop, TargetP!Pop
<1>2. ASSUME NEW s, NEW id PROVE Target!ReadValue(s, id) = TargetP!ReadValue(s, id)
  <2>1. Target!Top(s) = TargetP!Top(s)
    BY <1>1
  <2>2. Target!CachedFunction(TargetP!Top(s).fn) = TargetP!CachedFunction(TargetP!Top(s).fn)
    BY SameCache
  <2> QED BY <2>1, <2>2 DEF Target!ReadValue, TargetP!ReadValue
<1>3. \A s, id : Target!GoTo(s, id) = TargetP!GoTo(s, id)
  BY DEF Target!GoTo, TargetP!GoTo
<1>4. \A s, id, x : Target!WriteValue(s, id, x) = TargetP!WriteValue(s, id, x)
  BY DEF Target!WriteValue, TargetP!WriteValue, Target!Written, TargetP!Written
<1> QED BY <1>1, <1>2, <1>3, <1>4

LEMMA SameEffects ==
  /\ \A s, t, o, x : Target!Effect(s, t, o, x) = TargetP!Effect(s, t, o, x)
  /\ \A s, x : Target!Continue(s) = TargetP!Continue(s) /\ Target!Fail(s, x) = TargetP!Fail(s, x)
  /\ \A s, instr, x : Target!Produce(s, instr, x) = TargetP!Produce(s, instr, x)
<1>1. \A s, t, o, x : Target!Effect(s, t, o, x) = TargetP!Effect(s, t, o, x)
  BY DEF Target!Effect, TargetP!Effect
<1>2. \A s, x : Target!Continue(s) = TargetP!Continue(s) /\ Target!Fail(s, x) = TargetP!Fail(s, x)
  BY <1>1 DEF Target!Continue, TargetP!Continue, Target!Fail, TargetP!Fail
<1>3. \A s, instr, x : Target!Produce(s, instr, x) = TargetP!Produce(s, instr, x)
  BY <1>2, SameStack DEF Target!Produce, TargetP!Produce
<1> QED BY <1>1, <1>2, <1>3

LEMMA SameBinary == \A s, instr : Target!HandleBinary(s, instr) = TargetP!HandleBinary(s, instr)
<1> SUFFICES ASSUME NEW s, NEW instr PROVE Target!HandleBinary(s, instr) = TargetP!HandleBinary(s, instr)
  OBVIOUS
<1> DEFINE x == [k \in 1 .. 2 |-> Target!ReadValue(s, instr.inputs[k])]
           y == [k \in 1 .. 2 |-> TargetP!ReadValue(s, instr.inputs[k])]
           short == Len(instr.inputs) < 2 \/ instr.output = None
<1>1. x = y
  BY SameStack
<1>2. Target!HandleBinary(s, instr) =
        IF short THEN {Target!Continue(s)}
        ELSE IF \E k \in 1 .. 2 : x[k] = None THEN {Target!Fail(s, "TypeMismatch")}
        ELSE IF DividesByZero(instr.op, x[2]) THEN {Target!Fail(s, "DivisionByZero")}
        ELSE {Target!Produce(s, instr, z) : z \in ApplyBinaryOp(instr.op, x[1], x[2])}
  BY DEF Target!HandleBinary, Target!Compute
<1>3. TargetP!HandleBinary(s, instr) =
        IF short THEN {TargetP!Continue(s)}
        ELSE IF \E k \in 1 .. 2 : y[k] = None THEN {TargetP!Fail(s, "TypeMismatch")}
        ELSE IF DividesByZero(instr.op, y[2]) THEN {TargetP!Fail(s, "DivisionByZero")}
        ELSE {TargetP!Produce(s, instr, z) : z \in ApplyBinaryOp(instr.op, y[1], y[2])}
  BY DEF TargetP!HandleBinary, TargetP!Compute
<1> HIDE DEF x, y, short
<1>4. \A S : {Target!Produce(s, instr, z) : z \in S} = {TargetP!Produce(s, instr, z) : z \in S}
  BY SameEffects
<1>5. {Target!Produce(s, instr, z) : z \in ApplyBinaryOp(instr.op, x[1], x[2])} =
      {TargetP!Produce(s, instr, z) : z \in ApplyBinaryOp(instr.op, x[1], x[2])}
  BY <1>4
<1> QED BY SameEffects, <1>1, <1>2, <1>3, <1>5

LEMMA SameHandlers == \A s, instr : Target!Handle(s, instr) = TargetP!Handle(s, instr)
<1> SUFFICES ASSUME NEW s, NEW instr PROVE Target!Handle(s, instr) = TargetP!Handle(s, instr)
  OBVIOUS
<1>1. Target!HandleConst(s, instr) = TargetP!HandleConst(s, instr)
  BY SameEffects, SameStack DEF Target!HandleConst, TargetP!HandleConst
<1>2. Target!HandleCopy(s, instr) = TargetP!HandleCopy(s, instr)
  BY SameEffects, SameStack DEF Target!HandleCopy, TargetP!HandleCopy, Target!Compute, TargetP!Compute
<1>3. Target!HandleUnary(s, instr) = TargetP!HandleUnary(s, instr)
  BY SameEffects, SameStack DEF Target!HandleUnary, TargetP!HandleUnary, Target!Compute, TargetP!Compute
<1>4. Target!HandleBinary(s, instr) = TargetP!HandleBinary(s, instr)
  BY SameBinary
<1>5. Target!HandleCmp(s, instr) = TargetP!HandleCmp(s, instr)
  BY SameEffects, SameStack DEF Target!HandleCmp, TargetP!HandleCmp, Target!Compute, TargetP!Compute
<1>6. Target!HandleJump(s, instr) = TargetP!HandleJump(s, instr)
  BY SameEffects, SameStack DEF Target!HandleJump, TargetP!HandleJump
<1>7. Target!HandleBranch(s, instr) = TargetP!HandleBranch(s, instr)
  <2> DEFINE cond == TargetP!ReadValue(s, instr.inputs[1])
             target == IF Truth(cond) THEN instr.trueTarget ELSE instr.falseTarget
  <2>1. Target!ReadValue(s, instr.inputs[1]) = cond
    BY SameStack
  <2>2. Target!HandleBranch(s, instr) =
          IF instr.inputs = <<>> THEN {Target!Continue(s)}
          ELSE IF cond = None THEN {Target!Fail(s, "TypeMismatch")}
          ELSE {Target!Continue(IF target = None THEN s ELSE Target!GoTo(s, target))}
    BY <2>1 DEF Target!HandleBranch
  <2>3. TargetP!HandleBranch(s, instr) =
          IF instr.inputs = <<>> THEN {TargetP!Continue(s)}
          ELSE IF cond = None THEN {TargetP!Fail(s, "TypeMismatch")}
          ELSE {TargetP!Continue(IF target = None THEN s ELSE TargetP!GoTo(s, target))}
    BY DEF TargetP!HandleBranch
  <2> HIDE DEF cond, target
  <2>4. Target!GoTo(s, target) = TargetP!GoTo(s, target)
    BY SameStack
  <2>5. Target!Fail(s, "TypeMismatch") = TargetP!Fail(s, "TypeMismatch") /\ Target!Continue(s) = TargetP!Continue(s)
        /\ Target!Continue(TargetP!GoTo(s, target)) = TargetP!Continue(TargetP!GoTo(s, target))
    BY SameEffects
  <2> QED BY <2>2, <2>3, <2>4, <2>5
<1>8. Target!HandleCall(s, instr) = TargetP!HandleCall(s, instr)
  BY SameEffects, SameCache
     DEF Target!HandleCall, TargetP!HandleCall, Target!FunctionNames, TargetP!FunctionNames
<1>9. Target!HandleRet(s, instr) = TargetP!HandleRet(s, instr)
  BY SameEffects, SameStack DEF Target!HandleRet, TargetP!HandleRet
<1>10. Target!Continue(s) = TargetP!Continue(s)
  BY SameEffects
<1> QED BY <1>1, <1>2, <1>3, <1>4, <1>5, <1>6, <1>7, <1>8, <1>9, <1>10
        DEF Target!Handle, TargetP!Handle, Target!BinaryOp, TargetP!BinaryOp, Target!UnaryOp, TargetP!UnaryOp

LEMMA SameMachine == \A s : Target!StepOne(s) = TargetP!StepOne(s)
BY SameCache, SameStack, SameEffects, SameHandlers
   DEF Target!StepOne, TargetP!StepOne, Target!ImplicitReturn, TargetP!ImplicitReturn,
       Target!TooDeep, TargetP!TooDeep, Target!FunctionNames, TargetP!FunctionNames

\* What the machine takes for granted holds of IR that a build made.
LEMMA MachineTrusts ==
  ASSUME ProgramInv, irModule # None
  PROVE  TargetP!MachineAssumption
<1>1. /\ irModule \in Seq(OptP!Func)
  BY IRIs
<1>2. TargetP!IRBlock(RegValue) = Block /\ TargetP!Optional(RegValue) = Values
  BY DEF Block, Values, IRBlock, IRInstr, IROp, BinaryOp, UnaryOp, CmpKind, Optional, TargetP!IRBlock,
         TargetP!IRInstr, TargetP!IROp, TargetP!BinaryOp, TargetP!UnaryOp, TargetP!CmpKind, TargetP!Optional
<1>3. ASSUME NEW k \in DOMAIN irModule PROVE TargetP!IsIRFunction(irModule[k], RegValue)
  <2>1. irModule[k] \in OptP!Func
    BY <1>1
  <2> QED BY <2>1, <1>2, SameTerms DEF OptP!Func, OptP!Block, TargetP!IsIRFunction
<1>4. TargetP!ModuleAssumption
  BY <1>1, <1>3 DEF TargetP!ModuleAssumption
<1>5. RegValue = AllValues /\ None \notin AllValues /\ Trap \notin AllValues
  BY ProgramAssumption, LoweringAssumption
<1>6. TargetP!BinaryOp = BinaryOp /\ TargetP!UnaryOp = UnaryOp /\ TargetP!CmpKind = CmpKind
  BY DEF TargetP!BinaryOp, BinaryOp, TargetP!UnaryOp, UnaryOp, TargetP!CmpKind, CmpKind
<1>7. TargetP!ArithmeticAssumption
  BY <1>5, <1>6, ArithmeticIsClosed DEF TargetP!ArithmeticAssumption
<1> QED BY <1>4, <1>7, ProgramAssumption DEF TargetP!MachineAssumption

(***************************************************************************)
(* What a program keeps of its executions, and of the names of functions.  *)
(***************************************************************************)
GivenMain(fns) == \E f : f.name = "main" /\ fns = Append(OtherFunctions, f)

NamesKept ==
  /\ phase # "dsl" => GivenMain(input)
  /\ irModule # None \/ optPhase # "resting" =>
       /\ GivenMain(meant)
       /\ \A k \in DOMAIN irModule : irModule[k].name = meant[k].name

\* Nothing is built or optimized while something runs; a call stack is one of
\* the IR that there is.
RunInv ==
  /\ meaning.steps \in Nat
  /\ meaning # Waiting => phase = "dsl" /\ optPhase = "resting" /\ irModule # None
  /\ meaning = Waiting => simulation = Waiting
  /\ simulation # Waiting =>
       simulation.stack \in Seq(TargetP!Frame) /\ TargetP!Known(simulation.stack)

\* An optimization changes no name.
LEMMA OptimizerKeepsNames ==
  ASSUME ProgramInv, Opt!OptimizerStep
  PROVE  /\ DOMAIN irModule' = DOMAIN irModule
         /\ \A k \in DOMAIN irModule : irModule'[k].name = irModule[k].name
<1> DEFINE fn == irModule[optCurrent]
<1>1. optPhase \notin {"resting", "done"}
  BY OptimizerRuns
<1>2. irModule \in Seq(OptP!Func) /\ optCurrent \in DOMAIN irModule
  BY <1>1 DEF ProgramInv, OptimizeInv, OptP!SoundInv, OptP!StateInv
<1>3. fn \in OptP!Func
  BY <1>2
<1>4. ASSUME NEW f, f.name = fn.name, irModule' = [irModule EXCEPT ![optCurrent] = f]
      PROVE  /\ DOMAIN irModule' = DOMAIN irModule
             /\ \A k \in DOMAIN irModule : irModule'[k].name = irModule[k].name
  BY <1>4
<1>5. \A f, pos : Opt!Rewrite(f, pos) => irModule' = [irModule EXCEPT ![optCurrent] = f]
  BY DEF Opt!Rewrite
<1>6. \A pos : Opt!SkipTo(pos) => irModule' = irModule
  BY DEF Opt!SkipTo
<1>7. Opt!Fn = fn
  BY DEF Opt!Fn
<1> HIDE DEF fn
<1>8. CASE Opt!FoldConstant
  <2>1. PICK c \in Opt!Folded(fn, Opt!InstrAt(fn, Opt!B, Opt!I)) :
          \/ irModule' = irModule
          \/ Opt!Rewrite(Opt!FoldInstr(fn, Opt!B, Opt!I, c), <<Opt!B, Opt!I + 1>>)
    BY <1>6, <1>7, <1>8 DEF Opt!FoldConstant
  <2>2. Opt!FoldInstr(fn, Opt!B, Opt!I, c).name = fn.name
    BY <1>3 DEF Opt!FoldInstr, OptP!Func
  <2> QED BY <1>4, <1>5, <2>1, <2>2
<1>9. CASE Opt!EraseDeadInstr
  <2> DEFINE f == [fn EXCEPT !.blocks[Opt!B].instrs = Opt!Without(@, Opt!I)]
  <2>1. irModule' = irModule \/ Opt!Rewrite(f, optCursor)
    BY <1>6, <1>7, <1>9 DEF Opt!EraseDeadInstr
  <2>2. f.name = fn.name
    BY <1>3 DEF OptP!Func
  <2> HIDE DEF f
  <2> QED BY <1>4, <1>5, <2>1, <2>2
<1>10. CASE Opt!SimplifyJump
  <2> DEFINE f == [fn EXCEPT !.blocks[Opt!B].instrs[Opt!I] = Opt!Decide(fn, @)]
  <2>1. irModule' = irModule \/ Opt!Rewrite(f, <<Opt!B, Opt!I + 1>>)
    BY <1>6, <1>7, <1>10 DEF Opt!SimplifyJump
  <2>2. f.name = fn.name
    BY <1>3 DEF OptP!Func
  <2> HIDE DEF f
  <2> QED BY <1>4, <1>5, <2>1, <2>2
<1>11. CASE Opt!EraseUnreachableBlock
  <2> DEFINE f == [fn EXCEPT !.blocks = Opt!Without(@, Opt!B)]
  <2>1. irModule' = irModule \/ Opt!Rewrite(f, optCursor)
    BY <1>6, <1>7, <1>11 DEF Opt!EraseUnreachableBlock
  <2>2. f.name = fn.name
    BY <1>3 DEF OptP!Func
  <2> HIDE DEF f
  <2> QED BY <1>4, <1>5, <2>1, <2>2
<1>12. CASE Opt!FinishPass
  <2>1. irModule' = [irModule EXCEPT ![optCurrent] = Opt!Finished(fn)]
    BY <1>12 DEF Opt!FinishPass, fn
  <2>2. Opt!Finished(fn).name = fn.name
    BY <1>3 DEF Opt!Finished, OptP!Func
  <2> QED BY <1>4, <2>1, <2>2
<1>13. CASE Opt!StartPass \/ Opt!NextBlock \/ Opt!WorklistEmpty \/ Opt!EndRound \/ \E id \in optWorklist : Opt!VisitReachable(id)
  <2>1. irModule' = irModule
    BY <1>6, <1>13 DEF Opt!StartPass, Opt!NextBlock, Opt!VisitReachable, Opt!WorklistEmpty, Opt!EndRound
  <2> QED BY <2>1
<1> QED BY <1>8, <1>9, <1>10, <1>11, <1>12, <1>13 DEF Opt!OptimizerStep

LEMMA InitKeepsNames == Init => NamesKept /\ RunInv
BY DEF Init, LoweringInit, Idle, NamesKept, RunInv, Waiting, Execution

LEMMA NamesStay ==
  ASSUME NamesKept, UNCHANGED <<phase, input, irModule, optPhase, meant>>
  PROVE  NamesKept'
BY DEF NamesKept, GivenMain

LEMMA RunStays ==
  ASSUME RunInv, UNCHANGED <<phase, irModule, optPhase>>, UNCHANGED <<meaning, simulation>>
  PROVE  RunInv'
BY DEF RunInv, TargetP!Known, TargetP!FunctionNames, Waiting, Execution

LEMMA NothingRuns ==
  ASSUME RunInv, meaning = Waiting, UNCHANGED <<meaning, simulation>>
  PROVE  RunInv'
BY DEF RunInv, Waiting, Execution

\* The functions there are have the names they were given, "main" among them.
LEMMA NextKeepsNames ==
  ASSUME ProgramInv, NamesKept, [Next]_programVars
  PROVE  NamesKept'
<1>1. CASE CreateFunction \/ EditFunction \/ BuildNothing
  BY <1>1, NamesStay DEF CreateFunction, EditFunction, BuildNothing, loweringVars, optVars
<1>2. CASE StartBuild
  <2>1. input' = Append(OtherFunctions, Built("main")) /\ UNCHANGED <<irModule, meant, optPhase>>
    BY <1>2 DEF StartBuild, Build, optVars
  <2>2. Built("main").name = "main"
    BY DEF Built
  <2>3. GivenMain(input')
    BY <2>1, <2>2 DEF GivenMain
  <2> QED BY <2>1, <2>3 DEF NamesKept, GivenMain
<1>3. CASE LowerFunctions
  <2>1. phase # "dsl" /\ input' = input
    BY <1>3 DEF LowerFunctions, LoweringStep, BeginFunction, DeclareVariable, BeginStatements, LowerAssign,
                LowerReturn, LowerCall, LowerWhile, LowerIf, EndBody, EndFunction, Lowers
  <2>2. UNCHANGED <<irModule, meant, optPhase>>
    BY <1>3 DEF LowerFunctions, optVars
  <2> QED BY <2>1, <2>2 DEF NamesKept, GivenMain
<1>4. CASE FinishBuild
  <2>1. phase = "built" /\ irModule' = module /\ meant' = input /\ phase' = "dsl"
    BY <1>4 DEF FinishBuild, ForgetLowering
  <2>2. \A k \in DOMAIN module : module[k].name = input[k].name
    BY DEF ProgramInv, LoweringInv, NamesInv
  <2>3. GivenMain(input)
    BY <2>1 DEF NamesKept
  <2> QED BY <2>1, <2>2, <2>3 DEF NamesKept, GivenMain
<1>5. CASE \E level \in PassLists : StartOptimize(level)
  <2>1. irModule # None /\ UNCHANGED <<phase, input, irModule, meant>>
    BY <1>5 DEF StartOptimize, loweringVars
  <2> QED BY <2>1 DEF NamesKept, GivenMain
<1>6. CASE OptimizeFunctions
  <2>1. Opt!OptimizerStep /\ UNCHANGED <<phase, input, meant>> /\ optPhase # "resting"
    BY <1>6, OptimizerRuns DEF OptimizeFunctions, loweringVars
  <2>2. DOMAIN irModule' = DOMAIN irModule /\ \A k \in DOMAIN irModule : irModule'[k].name = irModule[k].name
    BY <2>1, OptimizerKeepsNames
  <2> QED BY <2>1, <2>2 DEF NamesKept, GivenMain
<1>7. CASE FinishOptimize
  <2>1. optPhase = "done" /\ UNCHANGED <<phase, input, irModule, meant>>
    BY <1>7 DEF FinishOptimize, loweringVars
  <2> QED BY <2>1 DEF NamesKept, GivenMain
<1>8. CASE Simulate \/ SimulatorStep \/ EmitAsm \/ ExecuteAsm \/ ExecuteSource \/ EndRun
  <2>1. UNCHANGED unlessRunning
    BY <1>8 DEF Simulate, SimulatorStep, EmitAsm, ExecuteAsm, ExecuteSource, EndRun
  <2> QED BY <2>1, NamesStay DEF unlessRunning, loweringVars, optVars
<1>9. CASE UNCHANGED programVars
  BY <1>9, NamesStay DEF programVars, loweringVars, optVars
<1> QED BY <1>1, <1>2, <1>3, <1>4, <1>5, <1>6, <1>7, <1>8, <1>9 DEF Next

\* One instruction of the simulator, on a stack of the IR that there is.
LEMMA SimulatorStepIs ==
  ASSUME ProgramInv, RunInv, SimulatorStep
  PROVE  /\ phase = "dsl" /\ optPhase = "resting" /\ irModule # None
         /\ simulation.stack \in Seq(TargetP!Frame) /\ TargetP!Known(simulation.stack)
         /\ \E e \in TargetP!StepOne(simulation.stack) : simulation' = Extended(simulation, e)
<1>1. meaning # Waiting /\ simulation # Waiting
  BY DEF SimulatorStep, SimulatorGoesOn, SourceEnded, Waiting, Execution
<1>2. \E e \in Target!StepOne(simulation.stack) : simulation' = Extended(simulation, e)
  BY DEF SimulatorStep
<1>3. Target!StepOne(simulation.stack) = TargetP!StepOne(simulation.stack)
  BY SameMachine
<1> QED BY <1>1, <1>2, <1>3 DEF RunInv

LEMMA SimulatorStepKeeps ==
  ASSUME ProgramInv, RunInv, SimulatorStep
  PROVE  RunInv'
<1> DEFINE s == simulation.stack
<1>1. PICK e \in TargetP!StepOne(s) : simulation' = Extended(simulation, e)
  BY SimulatorStepIs
<1>2. /\ phase = "dsl" /\ optPhase = "resting" /\ irModule # None
      /\ s \in Seq(TargetP!Frame) /\ TargetP!Known(s)
  BY SimulatorStepIs
<1>3. UNCHANGED <<phase, optPhase, irModule, meaning>> /\ meaning # Waiting
  BY DEF SimulatorStep, unlessRunning, loweringVars, optVars, SimulatorGoesOn, SourceEnded, Waiting, Execution
<1>4. simulation'.stack = e.stack
  BY <1>1 DEF Extended
<1>5. e.stack \in Seq(TargetP!Frame) /\ TargetP!Known(e.stack)
  <2>1. CASE s = <<>>
    <3>1. e = TargetP!Effect(s, <<>>, TRUE, "none")
      BY <1>1, <2>1 DEF TargetP!StepOne
    <3> QED BY <1>2, <3>1 DEF TargetP!Effect
  <2>2. CASE s # <<>>
    <3>1. s \in TargetP!Stack
      BY <1>2, <2>2 DEF TargetP!Stack
    <3>2. TargetP!EffectOK(e) /\ TargetP!Known(e.stack)
      BY <1>1, <1>2, <3>1, MachineTrusts, NoneAssumption, TargetP!StepKnown
    <3> QED BY <3>2 DEF TargetP!EffectOK
  <2> QED BY <2>1, <2>2
<1> QED BY <1>2, <1>3, <1>4, <1>5 DEF RunInv, TargetP!Known, TargetP!FunctionNames

LEMMA SimulateKeeps ==
  ASSUME ProgramInv, NamesKept, RunInv, Simulate
  PROVE  RunInv'
<1> DEFINE entry == TargetP!EntryFrame("main")
<1>1. irModule # None /\ phase = "dsl" /\ optPhase = "resting" /\ UNCHANGED <<phase, optPhase, irModule>>
  BY DEF Simulate, Resting, unlessRunning, loweringVars, optVars
<1>2. meaning' = Prescribed /\ simulation' = Execution(<<entry>>, "running")
  BY SameCache DEF Simulate
<1>3. "main" \in TargetP!FunctionNames
  <2>1. PICK f : f.name = "main" /\ meant = Append(OtherFunctions, f)
    BY <1>1 DEF NamesKept, GivenMain
  <2>2. OtherFunctions \in Seq(ToSet(OtherFunctions))
    BY LoweringAssumption
  <2>3. Len(meant) \in DOMAIN meant /\ meant[Len(meant)].name = "main"
    BY <2>1, <2>2
  <2>4. DOMAIN irModule = DOMAIN meant
    BY <1>1, IRIs DEF Remembers
  <2> QED BY <1>1, <2>3, <2>4 DEF NamesKept, TargetP!FunctionNames
<1>4. entry \in TargetP!Frame /\ entry.fn = "main"
  BY <1>1, <1>3, MachineTrusts, NoneAssumption, TargetP!EntryFrameType
<1> HIDE DEF entry
<1>5. simulation'.stack = <<entry>> /\ <<entry>> \in Seq(TargetP!Frame)
  BY <1>2, <1>4 DEF Execution
<1>6. meaning'.steps \in Nat /\ meaning' # Waiting
  BY <1>2 DEF Prescribed, Execution, Waiting
<1>7. TargetP!Frame' = TargetP!Frame /\ TargetP!FunctionNames' = TargetP!FunctionNames
  BY <1>1 DEF TargetP!Frame, TargetP!FunctionNames, TargetP!Optional
<1>8. \A k \in DOMAIN simulation'.stack : simulation'.stack[k].fn \in TargetP!FunctionNames
  BY <1>3, <1>4, <1>5
<1>9. TargetP!Known(simulation.stack)'
  BY <1>7, <1>8 DEF TargetP!Known
<1> QED BY <1>1, <1>5, <1>6, <1>7, <1>9 DEF RunInv, Waiting

LEMMA NextRun ==
  ASSUME ProgramInv, NamesKept, RunInv, [Next]_programVars
  PROVE  RunInv'
<1>1. CASE CreateFunction \/ EditFunction \/ BuildNothing \/ StartBuild \/ \E level \in PassLists : StartOptimize(level)
  <2>1. meaning = Waiting /\ UNCHANGED <<meaning, simulation>>
    BY <1>1 DEF CreateFunction, EditFunction, BuildNothing, StartBuild, StartOptimize, Resting, runVars
  <2> QED BY <2>1, NothingRuns
<1>2. CASE LowerFunctions \/ FinishBuild \/ OptimizeFunctions \/ FinishOptimize
  <2>1. phase # "dsl" \/ optPhase # "resting"
    BY <1>2, OptimizerRuns
       DEF LowerFunctions, FinishBuild, OptimizeFunctions, FinishOptimize,
           LoweringStep, BeginFunction, DeclareVariable, BeginStatements, LowerAssign,
           LowerReturn, LowerCall, LowerWhile, LowerIf, EndBody, EndFunction, Lowers
  <2>2. UNCHANGED <<meaning, simulation>>
    BY <1>2 DEF LowerFunctions, FinishBuild, OptimizeFunctions, FinishOptimize, runVars
  <2>3. meaning = Waiting
    BY <2>1 DEF RunInv
  <2> QED BY <2>2, <2>3, NothingRuns
<1>3. CASE EmitAsm
  <2>1. /\ phase = "dsl" /\ optPhase = "resting" /\ irModule # None /\ meaning = Waiting
        /\ UNCHANGED <<phase, optPhase, irModule, simulation>> /\ meaning' = Prescribed
    BY <1>3 DEF EmitAsm, Resting, unlessRunning, loweringVars, optVars
  <2>2. meaning'.steps \in Nat /\ meaning' # Waiting /\ simulation' = Waiting
    BY <2>1 DEF Prescribed, Execution, Waiting, RunInv
  <2> QED BY <2>1, <2>2 DEF RunInv, Waiting
<1>4. CASE ExecuteAsm
  BY <1>4, RunStays DEF ExecuteAsm, unlessRunning, loweringVars, optVars
<1>5. CASE ExecuteSource
  <2>1. UNCHANGED <<phase, optPhase, irModule, simulation>> /\ meaning # Waiting
    BY <1>5 DEF ExecuteSource, SourceGoesOn, unlessRunning, loweringVars, optVars, Waiting, Execution
  <2>2. meaning'.steps = meaning.steps + 1
    BY <1>5 DEF ExecuteSource, Extended
  <2>3. meaning'.steps \in Nat /\ meaning' # Waiting
    BY <2>2 DEF RunInv, Waiting, Execution
  <2>4. TargetP!Known(simulation.stack)' <=> TargetP!Known(simulation.stack)
    BY <2>1 DEF TargetP!Known, TargetP!FunctionNames
  <2>5. TargetP!Frame' = TargetP!Frame
    BY DEF TargetP!Frame, TargetP!Optional
  <2> QED BY <2>1, <2>3, <2>4, <2>5 DEF RunInv, Waiting
<1>6. CASE EndRun
  <2>1. meaning' = Waiting /\ simulation' = Waiting
    BY <1>6 DEF EndRun
  <2> QED BY <2>1 DEF RunInv, Waiting, Execution
<1>7. CASE UNCHANGED programVars
  BY <1>7, RunStays DEF programVars, loweringVars, optVars, runVars
<1> QED BY <1>1, <1>2, <1>3, <1>4, <1>5, <1>6, <1>7, SimulatorStepKeeps, SimulateKeeps DEF Next

(***************************************************************************)
(* toDot() shows where the simulator goes.                                 *)
(***************************************************************************)
\* No two functions of the program have one name.  createFunction does not see
\* to it: of two functions with one name findBlock answers for either.
DistinctNames ==
  /\ \A j, k \in DOMAIN OtherFunctions : OtherFunctions[j].name = OtherFunctions[k].name => j = k
  /\ \A k \in DOMAIN OtherFunctions : OtherFunctions[k].name # "main"

LEMMA IRNamesDiffer ==
  ASSUME ProgramInv, NamesKept, irModule # None, DistinctNames
  PROVE  \A j, k \in DOMAIN irModule : irModule[j].name = irModule[k].name => j = k
<1>1. PICK f : f.name = "main" /\ meant = Append(OtherFunctions, f)
  BY DEF NamesKept, GivenMain
<1>2. OtherFunctions \in Seq(ToSet(OtherFunctions))
  BY LoweringAssumption
<1>3. DOMAIN irModule = DOMAIN meant /\ \A k \in DOMAIN irModule : irModule[k].name = meant[k].name
  BY IRIs DEF Remembers, NamesKept
<1> DEFINE n == Len(OtherFunctions)
<1>4. /\ n \in Nat /\ DOMAIN meant = 1 .. n + 1 /\ meant[n + 1] = f
      /\ \A k \in 1 .. n : k \in DOMAIN OtherFunctions /\ meant[k] = OtherFunctions[k]
  BY <1>1, <1>2
<1> HIDE DEF n
<1>5. ASSUME NEW j \in 1 .. n + 1, NEW k \in 1 .. n + 1, meant[j].name = meant[k].name PROVE j = k
  <2>1. CASE j \in 1 .. n /\ k \in 1 .. n
    BY <1>4, <1>5, <2>1 DEF DistinctNames
  <2>2. CASE j = n + 1 /\ k \in 1 .. n
    BY <1>1, <1>4, <1>5, <2>2 DEF DistinctNames
  <2>3. CASE j \in 1 .. n /\ k = n + 1
    BY <1>1, <1>4, <1>5, <2>3 DEF DistinctNames
  <2> QED BY <1>4, <2>1, <2>2, <2>3
<1> QED BY <1>3, <1>4, <1>5

\* The edges from a block are those of its instructions.
LEMMA EdgeOfInstr ==
  ASSUME NEW fn, NEW b \in DOMAIN fn.blocks, NEW i \in DOMAIN fn.blocks[b].instrs,
         NEW e \in EdgesOf(fn.blocks[b].id, fn.blocks[b].instrs[i])
  PROVE  e \in Edges(fn)
BY DEF Edges

\* A block of a function of the IR, between two calls of optimize(): what its
\* instructions name are blocks of the function.
LEMMA TargetsAreNodes ==
  ASSUME ProgramInv, irModule # None, optPhase = "resting",
         NEW k \in DOMAIN irModule, NEW b \in DOMAIN irModule[k].blocks,
         NEW i \in DOMAIN irModule[k].blocks[b].instrs,
         NEW t \in Targets(irModule[k].blocks[b].instrs[i])
  PROVE  t \in Nodes(irModule[k])
<1>1. OptP!BranchesLand(irModule[k], b)
  BY DEF ProgramInv, OptimizeInv, IRSound
<1>2. t \in OptP!Targets(OptP!InstrAt(irModule[k], b, i))
  BY DEF OptP!Targets, Targets, OptP!InstrAt
<1>3. OptP!IsBlockId(irModule[k], t)
  BY <1>1, <1>2 DEF OptP!BranchesLand, OptP!InstrAt
<1> QED BY <1>3 DEF OptP!IsBlockId, Nodes

ShownMove(s, t) ==
  LET frame == TargetP!Top(s)
      next  == TargetP!Top(t)
      fn    == TargetP!CachedFunction(frame.fn)
      instr == TargetP!CachedBlock(frame.fn, frame.block).instrs[frame.pc + 1]
      Label == IF instr.op # "BrTrue" THEN ""
               ELSE IF Truth(TargetP!ReadValue(s, instr.inputs[1])) THEN "T" ELSE "F"
  IN  /\ Edge(frame.block, next.block, Label) \in Edges(fn)
      /\ next.block \in Nodes(fn)

LEMMA MoveIsShown ==
  ASSUME ProgramInv, NamesKept, irModule # None, optPhase = "resting", DistinctNames,
         NEW s \in TargetP!Stack, TargetP!Known(s), NEW e \in TargetP!StepOne(s),
         e.error = "none", ~e.done, Len(e.stack) = Len(s),
         TargetP!Top(e.stack).block # TargetP!Top(s).block \/ TargetP!Top(e.stack).pc <= TargetP!Top(s).pc
  PROVE  ShownMove(s, e.stack)
<1> DEFINE frame == TargetP!Top(s)
           next  == TargetP!Top(e.stack).block
           fn    == TargetP!CachedFunction(frame.fn)
           here  == TargetP!CachedBlock(frame.fn, frame.block)
           instr == here.instrs[frame.pc + 1]
           cond  == TargetP!ReadValue(s, instr.inputs[1])
<1>1. frame.fn \in TargetP!FunctionNames
  <2>1. Len(s) \in DOMAIN s
    BY MachineTrusts, NoneAssumption, TargetP!TopType DEF TargetP!Stack
  <2> QED BY <2>1 DEF TargetP!Known, TargetP!Top
<1>2. /\ here # None /\ frame.pc + 1 \in DOMAIN here.instrs /\ next # None
      /\ \/ instr.op = "Jmp" /\ next = instr.trueTarget
         \/ /\ instr.op = "BrTrue"
            /\ next = IF Truth(cond) THEN instr.trueTarget ELSE instr.falseTarget
  BY <1>1, MachineTrusts, NoneAssumption, TargetP!ControlMoves
<1>3. PICK k \in DOMAIN irModule : fn = irModule[k]
  BY <1>1, MachineTrusts, NoneAssumption, TargetP!CachedFunctionType
<1>4. PICK b \in DOMAIN fn.blocks : fn.blocks[b] = here /\ here.id = frame.block
  BY <1>1, <1>2, IRNamesDiffer, MachineTrusts, NoneAssumption, TargetP!CachedBlockIs
<1> DEFINE label == IF instr.op # "BrTrue" THEN "" ELSE IF Truth(cond) THEN "T" ELSE "F"
<1>5. ShownMove(s, e.stack) <=> Edge(frame.block, next, label) \in Edges(fn) /\ next \in Nodes(fn)
  BY DEF ShownMove
<1> HIDE DEF frame, next, fn, here, cond
<1>6. next \in Targets(instr)
  BY <1>2 DEF Targets
<1>7. next \in Nodes(fn)
  BY <1>2, <1>3, <1>4, <1>6, TargetsAreNodes
<1>8. Edge(frame.block, next, label) \in EdgesOf(frame.block, instr)
  <2>1. Edge(frame.block, next, label).to # None
    BY <1>2 DEF Edge
  <2>2. CASE instr.op = "Jmp"
    <3>1. label = "" /\ next = instr.trueTarget
      BY <1>2, <2>2
    <3> QED BY <2>1, <2>2, <3>1 DEF EdgesOf
  <2>3. CASE instr.op = "BrTrue" /\ Truth(cond)
    <3>1. label = "T" /\ next = instr.trueTarget
      BY <1>2, <2>3
    <3> QED BY <2>1, <2>3, <3>1 DEF EdgesOf
  <2>4. CASE instr.op = "BrTrue" /\ ~Truth(cond)
    <3>1. label = "F" /\ next = instr.falseTarget
      BY <1>2, <2>4
    <3> QED BY <2>1, <2>4, <3>1 DEF EdgesOf
  <2> QED BY <1>2, <2>2, <2>3, <2>4
<1>9. Edge(frame.block, next, label) \in Edges(fn)
  BY <1>2, <1>4, <1>8, EdgeOfInstr
<1> QED BY <1>5, <1>7, <1>9

\* toDot() draws an edge, with the label of the condition's outcome, to a node,
\* for each way control goes when simulate() executes the IR a program has,
\* optimized or not, if its functions have different names.
THEOREM GraphIsTrue == DistinctNames => (Spec => GraphShowsExecution)
<1> SUFFICES ASSUME DistinctNames PROVE Spec => GraphShowsExecution
  OBVIOUS
<1> DEFINE Inv == ProgramInv /\ NamesKept /\ RunInv
           s == simulation.stack
           t == simulation'.stack
           Moves == /\ simulation'.status = "running" /\ Len(t) = Len(s)
                    /\ Target!Top(t).block # Target!Top(s).block \/ Target!Top(t).pc <= Target!Top(s).pc
<1>1. Init => Inv
  BY InitProgram, InitKeepsNames
<1>2. Inv /\ [Next]_programVars => Inv'
  BY NextProgram, NextKeepsNames, NextRun
<1>3. ASSUME Inv, DistinctNames, SimulatorStep, Moves PROVE ShownMove(s, t)
  <2>1. PICK e \in TargetP!StepOne(s) : simulation' = Extended(simulation, e)
    BY <1>3, SimulatorStepIs
  <2>2. /\ optPhase = "resting" /\ irModule # None
        /\ s \in Seq(TargetP!Frame) /\ TargetP!Known(s)
    BY <1>3, SimulatorStepIs
  <2>3. t = e.stack
    BY <2>1 DEF Extended
  <2>4. (IF e.error # "none" THEN e.error ELSE IF e.done THEN "finished" ELSE "running") = "running"
    BY <1>3, <2>1 DEF Extended
  <2>5. s # <<>>
    <3>1. SUFFICES ASSUME s = <<>> PROVE FALSE
      OBVIOUS
    <3>2. e = TargetP!Effect(s, <<>>, TRUE, "none")
      BY <2>1, <3>1 DEF TargetP!StepOne
    <3> QED BY <2>4, <3>2 DEF TargetP!Effect
  <2>6. s \in TargetP!Stack
    BY <2>2, <2>5 DEF TargetP!Stack
  <2>7. TargetP!EffectOK(e)
    BY <1>3, <2>1, <2>2, <2>6, MachineTrusts, NoneAssumption, TargetP!StepKnown
  <2>8. e.error = "none" /\ ~e.done
    BY <2>4, <2>7 DEF TargetP!EffectOK, TargetP!SimError
  <2>9. TargetP!Top(t).block # TargetP!Top(s).block \/ TargetP!Top(t).pc <= TargetP!Top(s).pc
    BY <1>3, SameStack
  <2> QED BY <1>3, <2>1, <2>2, <2>3, <2>6, <2>8, <2>9, MoveIsShown
<1>4. ASSUME Moves => ShownMove(s, t) PROVE GoesAlongEdge
  <2>1. Target!Top(s) = TargetP!Top(s) /\ Target!Top(t) = TargetP!Top(t)
    BY SameStack
  <2>2. /\ Target!CachedFunction(TargetP!Top(s).fn) = TargetP!CachedFunction(TargetP!Top(s).fn)
        /\ Target!CachedBlock(TargetP!Top(s).fn, TargetP!Top(s).block) =
             TargetP!CachedBlock(TargetP!Top(s).fn, TargetP!Top(s).block)
    BY SameCache
  <2>3. \A id : Target!ReadValue(s, id) = TargetP!ReadValue(s, id)
    BY SameStack
  <2> QED BY <1>4, <2>1, <2>2, <2>3 DEF ShownMove, GoesAlongEdge
<1>5. Inv => (SimulatorStep => GoesAlongEdge)
  BY <1>3, <1>4
<1> HIDE DEF Inv
<1> QED BY <1>1, <1>2, <1>5, PTL DEF Spec, GraphShowsExecution
=============================================================================
