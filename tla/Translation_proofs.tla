------------------------- MODULE Translation_proofs -------------------------
(***************************************************************************)
(* The optimizer preserves what a function does: an execution of the       *)
(* function as it was is, up to instructions whose results nobody reads,   *)
(* one of the function as it is.                                           *)
(*                                                                         *)
(* First what the optimizer leaves of a function (DerivedInv), then what   *)
(* one instruction does in the two functions, then the two executions.     *)
(***************************************************************************)
EXTENDS Translation, Optimizer_proofs, SequenceTheorems

(***************************************************************************)
(* What the optimizer leaves of a function.                                *)
(***************************************************************************)
\* y may stand in f where x was.
Stands(f, x, y) ==
  \/ y = x
  \/ /\ x.op \in FoldableOp /\ x.output # None /\ Constant(f, x.output) # None
     /\ y.op = "Const" /\ y.output = x.output /\ y.constVal = Constant(f, x.output)
  \/ IsDecided(f, x) /\ y = Decide(f, x)

\* x may be missing in f.
Elided(f, x) == x.op \notin NonElidableOp /\ x.output # None /\ x.output \notin UsedValueIds(f)

\* The instructions ys of f are what is left of xs, the j-th of the p[j]-th.
Embeds(f, xs, ys, p) ==
  /\ p \in [DOMAIN ys -> DOMAIN xs]
  /\ \A i, j \in DOMAIN ys : i < j => p[i] < p[j]
  /\ \A j \in DOMAIN ys : Stands(f, xs[p[j]], ys[j])
  /\ \A i \in DOMAIN xs : (\E j \in DOMAIN ys : p[j] = i) \/ Elided(f, xs[i])

HasOrigin(s, f, block) ==
  \E a \in DOMAIN s.blocks :
    /\ s.blocks[a].id = block.id
    /\ \E p : Embeds(f, s.blocks[a].instrs, block.instrs, p)

\* A value with a constant in f is written in s by that Const, or by an
\* operation that is folded to the constant.
Justified(s, f) ==
  \A b \in DOMAIN s.blocks : \A i \in DOMAIN s.blocks[b].instrs :
    LET x == InstrAt(s, b, i)
    IN  (x.output # None /\ Constant(f, x.output) # None) =>
          \/ x.op = "Const" /\ x.constVal = Constant(f, x.output)
          \/ Constant(f, x.output) \in Folded(f, x)

\* Every constant of f is one of g.
KeepsConstants(f, g) ==
  \A v \in Nat : Constant(f, v) # None => Constant(g, v) = Constant(f, v)

\* f is what the optimizer may have made of s so far.
Derived(s, f) ==
  /\ f.name = s.name /\ Len(f.values) = Len(s.values) /\ KeepsConstants(s, f)
  /\ Justified(s, f)
  /\ \A b \in DOMAIN f.blocks : HasOrigin(s, f, f.blocks[b])

LEMMA InstrParts ==
  ASSUME NEW x \in Instr
  PROVE  /\ x.inputs \in Seq(Nat) /\ x.output \in Optional(Nat) /\ x.constVal \in Optional(RegValue)
         /\ x.trueTarget \in Optional(Nat) /\ x.falseTarget \in Optional(Nat)
         /\ x.cmpKind \in Optional(CmpKind) /\ x.op \in IROp /\ x.callee \in Optional(STRING)
         /\ Len(x.inputs) \in Nat /\ DOMAIN x.inputs = 1 .. Len(x.inputs)
         /\ \A k \in DOMAIN x.inputs : x.inputs[k] \in Nat
  BY DEF Instr, IRInstr

LEMMA ConstantType ==
  ASSUME NEW f \in Func, NEW v \in Nat
  PROVE  /\ Constant(f, v) \in Optional(RegValue)
         /\ Constant(f, v) # None => v < Len(f.values)
<1>1. f.values \in Seq(Optional(RegValue))
  BY FuncParts
<1>2. CASE v < Len(f.values)
  <2>1. v + 1 \in DOMAIN f.values
    BY <1>1, <1>2
  <2>2. f.values[v + 1] \in Optional(RegValue)
    BY <1>1, <2>1
  <2> QED BY <1>2, <2>2 DEF Constant
<1>3. CASE ~(v < Len(f.values))
  BY <1>3 DEF Constant, Optional
<1> QED BY <1>2, <1>3

\* What is read by an instruction that is still there is used.
LEMMA UsedId ==
  ASSUME NEW f, NEW b \in DOMAIN f.blocks, NEW i \in DOMAIN f.blocks[b].instrs,
         NEW k \in DOMAIN InstrAt(f, b, i).inputs
  PROVE  InstrAt(f, b, i).inputs[k] \in UsedValueIds(f)
<1> DEFINE x        == f.blocks[b].instrs[i]
           Body(c)  == f.blocks[c].instrs
           Reads(c) == { {Body(c)[j].inputs[n] : n \in DOMAIN Body(c)[j].inputs} : j \in DOMAIN Body(c) }
<1>1. k \in DOMAIN x.inputs /\ x = InstrAt(f, b, i)
  BY DEF InstrAt
<1>2. {x.inputs[n] : n \in DOMAIN x.inputs} \in Reads(b)
  OBVIOUS
<1>3. x.inputs[k] \in UNION Reads(b)
  BY <1>1, <1>2
<1> HIDE DEF x
<1>4. x.inputs[k] \in UNION {UNION Reads(c) : c \in DOMAIN f.blocks}
  BY <1>3
<1> QED BY <1>1, <1>4, Zenon DEF UsedValueIds

\* Whatever reads nothing new uses nothing new.
LEMMA UsedShrinks ==
  ASSUME NEW f, NEW g,
         \A b \in DOMAIN g.blocks : \A i \in DOMAIN g.blocks[b].instrs :
           \/ InstrAt(g, b, i).inputs = <<>>
           \/ \E c \in DOMAIN f.blocks : \E j \in DOMAIN f.blocks[c].instrs :
                InstrAt(g, b, i).inputs = InstrAt(f, c, j).inputs
  PROVE  UsedValueIds(g) \subseteq UsedValueIds(f)
<1> SUFFICES ASSUME NEW v \in UsedValueIds(g) PROVE v \in UsedValueIds(f)
  OBVIOUS
<1>0. PICK b \in DOMAIN g.blocks :
        v \in UNION { {g.blocks[b].instrs[i].inputs[k] : k \in DOMAIN g.blocks[b].instrs[i].inputs} :
                      i \in DOMAIN g.blocks[b].instrs }
  BY DEF UsedValueIds
<1>a. PICK i \in DOMAIN g.blocks[b].instrs :
        v \in {g.blocks[b].instrs[i].inputs[k] : k \in DOMAIN g.blocks[b].instrs[i].inputs}
  BY <1>0
<1>b. PICK k \in DOMAIN InstrAt(g, b, i).inputs : v = InstrAt(g, b, i).inputs[k]
  BY <1>a DEF InstrAt
<1>1. InstrAt(g, b, i).inputs # <<>>
  <2>1. DOMAIN <<>> = {}
    OBVIOUS
  <2> QED BY <1>b, <2>1
<1>2. PICK c \in DOMAIN f.blocks : \E j \in DOMAIN f.blocks[c].instrs :
        InstrAt(g, b, i).inputs = InstrAt(f, c, j).inputs
  BY <1>1
<1>3. PICK j \in DOMAIN f.blocks[c].instrs : InstrAt(g, b, i).inputs = InstrAt(f, c, j).inputs
  BY <1>2
<1>4. k \in DOMAIN InstrAt(f, c, j).inputs /\ v = InstrAt(f, c, j).inputs[k]
  BY <1>b, <1>3
<1> QED BY <1>4, UsedId

\* An instruction that folds to a constant folds to it still.
LEMMA FoldedKept ==
  ASSUME NEW f, NEW g, KeepsConstants(f, g), NEW x \in Instr,
         NEW c \in Folded(f, x), c # None
  PROVE  c \in Folded(g, x)
<1> DEFINE operand(h, k) == Constant(h, x.inputs[k])
           all(h) == x.inputs # <<>> /\ \A k \in DOMAIN x.inputs : operand(h, k) # None
<1>1. all(f) /\ x.output # None /\ x.op \in FoldableOp
  BY DEF Folded
<1>2. \A k \in DOMAIN x.inputs : operand(g, k) = operand(f, k)
  BY <1>1, InstrParts DEF KeepsConstants
<1>3. all(g)
  BY <1>1, <1>2
<1>4. Len(x.inputs) \in {1, 2} => 1 \in DOMAIN x.inputs
  BY InstrParts
<1>5. Len(x.inputs) = 2 => 2 \in DOMAIN x.inputs
  BY InstrParts
<1>6. c \in IF Len(x.inputs) = 1 THEN {FoldUnary1(x.op, operand(f, 1))}
            ELSE IF Len(x.inputs) = 2 /\ IsInt(operand(f, 1)) /\ IsInt(operand(f, 2))
                 THEN FoldBinary(x.op, x.cmpKind, operand(f, 1), operand(f, 2))
            ELSE {None}
  BY <1>1 DEF Folded
<1>7. Folded(g, x) = IF Len(x.inputs) = 1 THEN {FoldUnary1(x.op, operand(g, 1))}
                     ELSE IF Len(x.inputs) = 2 /\ IsInt(operand(g, 1)) /\ IsInt(operand(g, 2))
                          THEN FoldBinary(x.op, x.cmpKind, operand(g, 1), operand(g, 2))
                     ELSE {None}
  BY <1>1, <1>3 DEF Folded
<1> HIDE DEF operand, all
<1>8. CASE Len(x.inputs) = 1
  BY <1>2, <1>4, <1>6, <1>7, <1>8
<1>9. CASE Len(x.inputs) # 1 /\ Len(x.inputs) = 2 /\ IsInt(operand(f, 1)) /\ IsInt(operand(f, 2))
  BY <1>2, <1>4, <1>5, <1>6, <1>7, <1>9
<1> QED BY <1>6, <1>8, <1>9

LEMMA StandsKept ==
  ASSUME NEW f, NEW g, KeepsConstants(f, g), NEW x \in Instr, NEW y, Stands(f, x, y)
  PROVE  Stands(g, x, y)
<1>1. CASE y = x
  BY <1>1 DEF Stands
<1>2. CASE /\ x.op \in FoldableOp /\ x.output # None /\ Constant(f, x.output) # None
           /\ y.op = "Const" /\ y.output = x.output /\ y.constVal = Constant(f, x.output)
  <2>1. x.output \in Nat
    BY <1>2, InstrParts DEF Optional
  <2>2. Constant(g, x.output) = Constant(f, x.output)
    BY <1>2, <2>1 DEF KeepsConstants
  <2> QED BY <1>2, <2>2 DEF Stands
<1>3. CASE IsDecided(f, x) /\ y = Decide(f, x)
  <2>1. x.inputs # <<>> /\ Constant(f, x.inputs[1]) # None /\ x.op = "BrTrue"
    BY <1>3 DEF IsDecided
  <2>2. 1 \in DOMAIN x.inputs /\ x.inputs[1] \in Nat
    BY <2>1, InstrParts
  <2>3. Constant(g, x.inputs[1]) = Constant(f, x.inputs[1])
    BY <2>1, <2>2 DEF KeepsConstants
  <2>4. Decide(g, x) = Decide(f, x)
    BY <2>3 DEF Decide
  <2> QED BY <1>3, <2>1, <2>3, <2>4 DEF Stands, IsDecided
<1> QED BY <1>1, <1>2, <1>3 DEF Stands

LEMMA EmbedsKept ==
  ASSUME NEW f, NEW g, KeepsConstants(f, g), UsedValueIds(g) \subseteq UsedValueIds(f),
         NEW xs \in Seq(Instr), NEW ys, NEW p, Embeds(f, xs, ys, p)
  PROVE  Embeds(g, xs, ys, p)
<1>1. p \in [DOMAIN ys -> DOMAIN xs]
  BY DEF Embeds
<1>2. \A j \in DOMAIN ys : xs[p[j]] \in Instr /\ Stands(f, xs[p[j]], ys[j])
  BY <1>1 DEF Embeds
<1>3. \A j \in DOMAIN ys : Stands(g, xs[p[j]], ys[j])
  BY <1>2, StandsKept
<1>4. \A i \in DOMAIN xs : Elided(f, xs[i]) => Elided(g, xs[i])
  BY DEF Elided
<1> QED BY <1>3, <1>4 DEF Embeds

\* The instruction an operation or a branch was is the one it still is.
LEMMA StandsSame ==
  ASSUME NEW f, NEW x, NEW y, Stands(f, x, y), y.op \in FoldableOp \cup {"BrTrue"}
  PROVE  y = x
<1>1. ~(IsDecided(f, x) /\ y = Decide(f, x))
  <2> SUFFICES ASSUME IsDecided(f, x), y = Decide(f, x) PROVE FALSE
    OBVIOUS
  <2> QED BY DEF IsDecided, Decide, FoldableOp
<1>2. y.op # "Const"
  BY DEF FoldableOp
<1> QED BY <1>1, <1>2 DEF Stands

(***************************************************************************)
(* The rewrites of the passes.                                             *)
(***************************************************************************)
LEMMA ConstantsKeptTransitive ==
  ASSUME NEW s, NEW f, NEW g, KeepsConstants(s, f), KeepsConstants(f, g)
  PROVE  KeepsConstants(s, g)
  BY DEF KeepsConstants

\* A block whose instructions are those of a block of f.
LEMMA DerivedFrom ==
  ASSUME NEW s \in Func, NEW f \in Func, NEW g, Derived(s, f),
         g.name = f.name, Len(g.values) = Len(f.values), KeepsConstants(f, g), Justified(s, g),
         UsedValueIds(g) \subseteq UsedValueIds(f),
         \A b \in DOMAIN g.blocks : \E c \in DOMAIN f.blocks :
           /\ g.blocks[b].id = f.blocks[c].id
           /\ \/ g.blocks[b].instrs = f.blocks[c].instrs
              \/ \A xs \in Seq(Instr) : \A p :
                   Embeds(f, xs, f.blocks[c].instrs, p) => \E q : Embeds(g, xs, g.blocks[b].instrs, q)
  PROVE  Derived(s, g)
<1>1. KeepsConstants(s, g)
  BY ConstantsKeptTransitive DEF Derived
<1>2. ASSUME NEW b \in DOMAIN g.blocks PROVE HasOrigin(s, g, g.blocks[b])
  <2>1. PICK c \in DOMAIN f.blocks :
          /\ g.blocks[b].id = f.blocks[c].id
          /\ \/ g.blocks[b].instrs = f.blocks[c].instrs
             \/ \A xs \in Seq(Instr) : \A p :
                  Embeds(f, xs, f.blocks[c].instrs, p) => \E q : Embeds(g, xs, g.blocks[b].instrs, q)
    OBVIOUS
  <2>2. HasOrigin(s, f, f.blocks[c])
    BY DEF Derived
  <2>3. PICK a \in DOMAIN s.blocks :
          /\ s.blocks[a].id = f.blocks[c].id
          /\ \E p : Embeds(f, s.blocks[a].instrs, f.blocks[c].instrs, p)
    BY <2>2 DEF HasOrigin
  <2>4. PICK p : Embeds(f, s.blocks[a].instrs, f.blocks[c].instrs, p)
    BY <2>3
  <2>5. s.blocks[a].instrs \in Seq(Instr)
    BY FuncParts
  <2>6. \E q : Embeds(g, s.blocks[a].instrs, g.blocks[b].instrs, q)
    <3>1. CASE g.blocks[b].instrs = f.blocks[c].instrs
      BY <3>1, <2>4, <2>5, EmbedsKept
    <3> QED BY <3>1, <2>1, <2>4, <2>5
  <2> QED BY <2>1, <2>3, <2>6 DEF HasOrigin
<1> QED BY <1>1, <1>2 DEF Derived

\* The constants of s are justified in g if the new ones of g are.
LEMMA JustifiedFrom ==
  ASSUME NEW s \in Func, NEW f, NEW g, Justified(s, f), KeepsConstants(f, g),
         \A b \in DOMAIN s.blocks : \A i \in DOMAIN s.blocks[b].instrs :
           LET x == InstrAt(s, b, i)
           IN  (x.output # None /\ Constant(f, x.output) = None /\ Constant(g, x.output) # None) =>
                 Constant(g, x.output) \in Folded(g, x)
  PROVE  Justified(s, g)
<1> SUFFICES ASSUME NEW b \in DOMAIN s.blocks, NEW i \in DOMAIN s.blocks[b].instrs,
                    NEW x, x = InstrAt(s, b, i), x.output # None, Constant(g, x.output) # None
             PROVE  \/ x.op = "Const" /\ x.constVal = Constant(g, x.output)
                    \/ Constant(g, x.output) \in Folded(g, x)
  BY DEF Justified
<1>1. x \in Instr /\ x.output \in Nat
  <2>1. x \in Instr
    BY FuncParts
  <2> QED BY <2>1, InstrParts DEF Optional
<1>2. CASE Constant(f, x.output) = None
  BY <1>2
<1>3. CASE Constant(f, x.output) # None
  <2>1. Constant(g, x.output) = Constant(f, x.output)
    BY <1>1, <1>3 DEF KeepsConstants
  <2>2. \/ x.op = "Const" /\ x.constVal = Constant(f, x.output)
        \/ Constant(f, x.output) \in Folded(f, x)
    BY <1>3 DEF Justified
  <2> QED BY <1>1, <1>3, <2>1, <2>2, FoldedKept
<1> QED BY <1>2, <1>3

\* ConstantFolding: what a folded function is.
LEMMA FoldedFunction ==
  ASSUME NEW f \in Func, Sound(f), NEW b \in DOMAIN f.blocks, NEW i \in DOMAIN f.blocks[b].instrs,
         NEW c \in RegValue, InstrAt(f, b, i).op \in FoldableOp, InstrAt(f, b, i).output # None,
         NEW g, g = FoldInstr(f, b, i, c)
  PROVE  /\ g \in Func /\ g.name = f.name /\ Len(g.values) = Len(f.values)
         /\ KeepsConstants(f, g)
         /\ Constant(f, InstrAt(f, b, i).output) = None
         /\ \A v \in Nat : Constant(g, v) = IF v = InstrAt(f, b, i).output THEN c ELSE Constant(f, v)
         /\ DOMAIN g.blocks = DOMAIN f.blocks
         /\ \A d \in DOMAIN f.blocks :
              /\ g.blocks[d].id = f.blocks[d].id
              /\ DOMAIN g.blocks[d].instrs = DOMAIN f.blocks[d].instrs
              /\ \A j \in DOMAIN f.blocks[d].instrs :
                   (d # b \/ j # i) => InstrAt(g, d, j) = InstrAt(f, d, j)
         /\ InstrAt(g, b, i).op = "Const" /\ InstrAt(g, b, i).output = InstrAt(f, b, i).output
         /\ InstrAt(g, b, i).constVal = c /\ InstrAt(g, b, i).inputs = <<>>
<1> DEFINE instr == InstrAt(f, b, i)
           x == [instr EXCEPT !.op = "Const", !.constVal = c, !.inputs = <<>>,
                              !.cmpKind = IF Len(instr.inputs) = 2 THEN None ELSE @]
           h == SetInstr(f, b, i, x)
           v == instr.output + 1
<1>1. instr \in Instr
  BY FuncParts
<1>2. /\ x \in Instr /\ x.op = "Const" /\ x.output = instr.output /\ x.constVal = c
      /\ x.inputs = <<>>
  <2> HIDE DEF instr
  <2>1. x.inputs = <<>>
    BY <1>1 DEF Instr, IRInstr
  <2> QED BY <1>1, <2>1, ConstantInstr
<1>3. /\ h \in Func
      /\ h.values = f.values /\ h.name = f.name
      /\ DOMAIN h.blocks = DOMAIN f.blocks
      /\ \A d \in DOMAIN f.blocks :
           /\ h.blocks[d].id = f.blocks[d].id
           /\ DOMAIN h.blocks[d].instrs = DOMAIN f.blocks[d].instrs
           /\ \A j \in DOMAIN f.blocks[d].instrs :
                InstrAt(h, d, j) = IF d = b /\ j = i THEN x ELSE InstrAt(f, d, j)
  <2> HIDE DEF x
  <2> QED BY <1>2, UpdateInstr
<1>4. g = SetValue(h, v, c)
  BY DEF FoldInstr, SetInstr, SetValue, Func
<1> HIDE DEF x, h
<1>5. /\ g \in Func /\ g.blocks = h.blocks /\ g.name = h.name
      /\ Len(g.values) = Len(h.values)
      /\ \A k \in DOMAIN h.values : g.values[k] = IF k = v THEN c ELSE h.values[k]
  <2>1. c \in Optional(RegValue)
    BY DEF Optional
  <2>2. h \in Func
    BY <1>3
  <2> HIDE DEF v
  <2> QED BY <2>1, <2>2, <1>4, UpdateValue
<1>6. \A d \in DOMAIN f.blocks : \A j \in DOMAIN f.blocks[d].instrs :
        InstrAt(g, d, j) = IF d = b /\ j = i THEN x ELSE InstrAt(f, d, j)
  BY <1>3, <1>5 DEF InstrAt
<1>7. /\ DOMAIN g.blocks = DOMAIN f.blocks
      /\ \A d \in DOMAIN f.blocks :
           /\ g.blocks[d].id = f.blocks[d].id
           /\ DOMAIN g.blocks[d].instrs = DOMAIN f.blocks[d].instrs
  BY <1>3, <1>5
<1>8. instr.output \in Nat /\ instr.output < Len(f.values)
  BY <1>1 DEF Instr, IRInstr, Optional, Sound, OutputsBounded
<1>9. f.values \in Seq(Optional(RegValue))
  BY FuncParts
<1>10. ASSUME NEW w \in Nat
       PROVE  Constant(g, w) = IF w = instr.output THEN c ELSE Constant(f, w)
  <2>1. CASE w = instr.output
    <3>1. v \in DOMAIN f.values
      BY <1>8, <1>9
    <3> QED BY <2>1, <3>1, <1>3, <1>5, <1>8 DEF Constant
  <2>2. CASE w # instr.output
    <3>1. w + 1 # v
      BY <1>8, <2>2
    <3>2. w < Len(f.values) => w + 1 \in DOMAIN f.values
      BY <1>9
    <3> HIDE DEF v
    <3> QED BY <2>2, <3>1, <3>2, <1>3, <1>5 DEF Constant
  <2> QED BY <2>1, <2>2
<1>11. Constant(f, instr.output) = None
  <2>1. ConstantIsDefinition(f)
    BY DEF Sound
  <2>2. instr.op # "Const"
    BY DEF FoldableOp
  <2> QED BY <2>1, <2>2 DEF ConstantIsDefinition
<1>12. KeepsConstants(f, g)
  BY <1>10, <1>11 DEF KeepsConstants
<1>13. InstrAt(g, b, i) = x
  BY <1>6
<1> HIDE DEF instr, v
<1> QED BY <1>2, <1>3, <1>5, <1>6, <1>7, <1>10, <1>11, <1>12, <1>13 DEF instr

\* Folding one instruction of what is left of s.
LEMMA FoldDerived ==
  ASSUME NEW s \in Func, SingleWriter(s), NEW f \in Func, Sound(f), Derived(s, f),
         NEW b \in DOMAIN f.blocks, NEW i \in DOMAIN f.blocks[b].instrs,
         NEW c \in RegValue, c \in Folded(f, InstrAt(f, b, i)),
         NEW g, g = FoldInstr(f, b, i, c)
  PROVE  Derived(s, g)
<1> DEFINE y == InstrAt(f, b, i)
<1>1. y \in Instr /\ y.op \in FoldableOp /\ y.output # None
  <2>1. y \in Instr
    BY FuncParts
  <2>2. c # None
    BY OptimizerAssumption
  <2> HIDE DEF y
  <2> QED BY <2>1, <2>2, FoldedConstant DEF y
<1>2. /\ g \in Func /\ g.name = f.name /\ Len(g.values) = Len(f.values)
      /\ KeepsConstants(f, g)
      /\ Constant(f, y.output) = None
      /\ \A v \in Nat : Constant(g, v) = IF v = y.output THEN c ELSE Constant(f, v)
      /\ DOMAIN g.blocks = DOMAIN f.blocks
      /\ \A d \in DOMAIN f.blocks :
           /\ g.blocks[d].id = f.blocks[d].id
           /\ DOMAIN g.blocks[d].instrs = DOMAIN f.blocks[d].instrs
           /\ \A j \in DOMAIN f.blocks[d].instrs :
                (d # b \/ j # i) => InstrAt(g, d, j) = InstrAt(f, d, j)
      /\ InstrAt(g, b, i).op = "Const" /\ InstrAt(g, b, i).output = y.output
      /\ InstrAt(g, b, i).constVal = c /\ InstrAt(g, b, i).inputs = <<>>
  BY <1>1, FoldedFunction
<1>3. c # None
  BY OptimizerAssumption
<1>4. UsedValueIds(g) \subseteq UsedValueIds(f)
  <2>1. ASSUME NEW d \in DOMAIN g.blocks, NEW j \in DOMAIN g.blocks[d].instrs
        PROVE  \/ InstrAt(g, d, j).inputs = <<>>
               \/ \E e \in DOMAIN f.blocks : \E k \in DOMAIN f.blocks[e].instrs :
                    InstrAt(g, d, j).inputs = InstrAt(f, e, k).inputs
    BY <1>2
  <2> QED BY <2>1, UsedShrinks
\* The instruction is one of s, and the only one with this output.
<1>5. PICK a \in DOMAIN s.blocks : \E p : Embeds(f, s.blocks[a].instrs, f.blocks[b].instrs, p)
  BY DEF Derived, HasOrigin
<1>6. PICK p : Embeds(f, s.blocks[a].instrs, f.blocks[b].instrs, p)
  BY <1>5
<1>7. p[i] \in DOMAIN s.blocks[a].instrs /\ InstrAt(s, a, p[i]) = y
  <2>1. p[i] \in DOMAIN s.blocks[a].instrs /\ Stands(f, InstrAt(s, a, p[i]), y)
    BY <1>6 DEF Embeds, InstrAt
  <2> HIDE DEF y
  <2> QED BY <2>1, <1>1, StandsSame
<1>8. Justified(s, g)
  <2>1. ASSUME NEW d \in DOMAIN s.blocks, NEW j \in DOMAIN s.blocks[d].instrs,
               InstrAt(s, d, j).output # None, Constant(f, InstrAt(s, d, j).output) = None,
               Constant(g, InstrAt(s, d, j).output) # None
        PROVE  Constant(g, InstrAt(s, d, j).output) \in Folded(g, InstrAt(s, d, j))
    <3>1. InstrAt(s, d, j).output \in Nat
      <4>1. InstrAt(s, d, j) \in Instr
        BY FuncParts
      <4> QED BY <4>1, <2>1, InstrParts DEF Optional
    <3>2. InstrAt(s, d, j).output = y.output /\ Constant(g, y.output) = c
      BY <3>1, <2>1, <1>2
    <3>3. d = a /\ j = p[i]
      BY <3>2, <1>1, <1>7 DEF SingleWriter
    <3>4. InstrAt(s, d, j) = y
      BY <3>3, <1>7
    <3>5. c \in Folded(g, y)
      <4> HIDE DEF y
      <4> QED BY <1>1, <1>2, <1>3, FoldedKept DEF y
    <3> QED BY <3>2, <3>4, <3>5
  <2> HIDE DEF y
  <2>2. Justified(s, f)
    BY DEF Derived
  <2> QED BY <2>1, <2>2, <1>2, JustifiedFrom
<1>9. ASSUME NEW d \in DOMAIN g.blocks, d # b PROVE g.blocks[d].instrs = f.blocks[d].instrs
  <2>1. g.blocks[d].instrs \in Seq(Instr) /\ f.blocks[d].instrs \in Seq(Instr)
    BY <1>2, FuncParts
  <2>2. \A j \in DOMAIN f.blocks[d].instrs : g.blocks[d].instrs[j] = f.blocks[d].instrs[j]
    BY <1>2, <1>9 DEF InstrAt
  <2>3. DOMAIN g.blocks[d].instrs = DOMAIN f.blocks[d].instrs
    BY <1>2
  <2> QED BY <2>1, <2>2, <2>3
<1>10. ASSUME NEW xs \in Seq(Instr), NEW q, Embeds(f, xs, f.blocks[b].instrs, q)
       PROVE  Embeds(g, xs, g.blocks[b].instrs, q)
  <2>1. Embeds(g, xs, f.blocks[b].instrs, q)
    BY <1>2, <1>4, <1>10, EmbedsKept
  <2>2. xs[q[i]] = y
    <3>1. q[i] \in DOMAIN xs /\ Stands(f, xs[q[i]], y)
      BY <1>10 DEF Embeds, InstrAt
    <3> HIDE DEF y
    <3> QED BY <3>1, <1>1, StandsSame
  <2>3. Stands(g, y, InstrAt(g, b, i))
    <3>1. y.output \in Nat
      <4> HIDE DEF y
      <4> QED BY <1>1, InstrParts DEF Optional
    <3>2. Constant(g, y.output) = c
      BY <3>1, <1>2
    <3> QED BY <3>2, <1>1, <1>2, <1>3 DEF Stands
  <2>4. ASSUME NEW j \in DOMAIN g.blocks[b].instrs
        PROVE  Stands(g, xs[q[j]], g.blocks[b].instrs[j])
    <3>1. CASE j = i
      BY <3>1, <2>2, <2>3 DEF InstrAt
    <3>2. CASE j # i
      <4>1. g.blocks[b].instrs[j] = f.blocks[b].instrs[j]
        BY <3>2, <1>2 DEF InstrAt
      <4> QED BY <4>1, <2>1, <1>2 DEF Embeds
    <3> QED BY <3>1, <3>2
  <2>5. DOMAIN g.blocks[b].instrs = DOMAIN f.blocks[b].instrs
    BY <1>2
  <2> QED BY <2>1, <2>4, <2>5 DEF Embeds
<1>11. \A d \in DOMAIN g.blocks : \E e \in DOMAIN f.blocks :
         /\ g.blocks[d].id = f.blocks[e].id
         /\ \/ g.blocks[d].instrs = f.blocks[e].instrs
            \/ \A xs \in Seq(Instr) : \A q :
                 Embeds(f, xs, f.blocks[e].instrs, q) => \E r : Embeds(g, xs, g.blocks[d].instrs, r)
  BY <1>2, <1>9, <1>10
<1> QED BY <1>2, <1>4, <1>8, <1>11, DerivedFrom

\* The other passes leave the constants alone.
LEMMA SameConstants ==
  ASSUME NEW s \in Func, NEW f, NEW g, g.values = f.values, Justified(s, f)
  PROVE  /\ KeepsConstants(f, g) /\ Justified(s, g)
         /\ \A v : Constant(g, v) = Constant(f, v)
<1>1. \A v : Constant(g, v) = Constant(f, v)
  BY DEF Constant
<1>2. KeepsConstants(f, g)
  BY <1>1 DEF KeepsConstants
<1>3. Justified(s, g)
  BY <1>1, <1>2, JustifiedFrom
<1> QED BY <1>1, <1>2, <1>3

\* DeadCodeElim: an instruction whose result is not read may be missing.
LEMMA EraseDerived ==
  ASSUME NEW s \in Func, NEW f \in Func, Derived(s, f),
         NEW b \in DOMAIN f.blocks, NEW i \in DOMAIN f.blocks[b].instrs,
         NEW ids, UsedValueIds(f) \subseteq ids, IsDead(InstrAt(f, b, i), ids),
         NEW g, g = DropInstr(f, b, i)
  PROVE  Derived(s, g) /\ UsedValueIds(g) \subseteq UsedValueIds(f)
<1>1. /\ g \in Func
      /\ g.values = f.values /\ g.name = f.name
      /\ DOMAIN g.blocks = DOMAIN f.blocks
      /\ \A c \in DOMAIN f.blocks :
           /\ g.blocks[c].id = f.blocks[c].id
           /\ c # b => g.blocks[c] = f.blocks[c]
      /\ DOMAIN g.blocks[b].instrs = 1 .. (Len(f.blocks[b].instrs) - 1)
      /\ \A j \in DOMAIN g.blocks[b].instrs :
           /\ Shift(i, j) \in DOMAIN f.blocks[b].instrs
           /\ InstrAt(g, b, j) = InstrAt(f, b, Shift(i, j))
  BY EraseInstr
<1>2. UsedValueIds(g) \subseteq UsedValueIds(f)
  <2>1. ASSUME NEW d \in DOMAIN g.blocks, NEW j \in DOMAIN g.blocks[d].instrs
        PROVE  \E e \in DOMAIN f.blocks : \E k \in DOMAIN f.blocks[e].instrs :
                 InstrAt(g, d, j).inputs = InstrAt(f, e, k).inputs
    <3>1. CASE d = b
      BY <3>1, <1>1
    <3>2. CASE d # b
      BY <3>2, <1>1 DEF InstrAt
    <3> QED BY <3>1, <3>2
  <2> QED BY <2>1, UsedShrinks
<1>3. KeepsConstants(f, g) /\ Justified(s, g) /\ \A v : Constant(g, v) = Constant(f, v)
  <2>1. Justified(s, f)
    BY DEF Derived
  <2> QED BY <1>1, <2>1, SameConstants
<1>4. ASSUME NEW xs \in Seq(Instr), NEW p, Embeds(f, xs, f.blocks[b].instrs, p)
      PROVE  \E q : Embeds(g, xs, g.blocks[b].instrs, q)
  <2> DEFINE ys == f.blocks[b].instrs
             zs == g.blocks[b].instrs
             q  == [j \in DOMAIN zs |-> p[Shift(i, j)]]
  <2>1. /\ DOMAIN ys = 1 .. Len(ys) /\ Len(ys) \in Nat /\ i \in DOMAIN ys
        /\ DOMAIN zs = 1 .. (Len(ys) - 1)
        /\ \A j \in DOMAIN zs : Shift(i, j) \in DOMAIN ys /\ zs[j] = ys[Shift(i, j)]
    BY <1>1, FuncParts DEF InstrAt
  <2>2. Embeds(g, xs, ys, p)
    BY <1>2, <1>3, <1>4, EmbedsKept
  <2>y. IsDead(ys[i], ids)
    BY DEF InstrAt
  <2> HIDE DEF ys, zs
  <2>3. q \in [DOMAIN zs -> DOMAIN xs]
    BY <2>1, <2>2 DEF Embeds
  <2>4. \A j, k \in DOMAIN zs : j < k => q[j] < q[k]
    <3>1. \A j, k \in DOMAIN zs : j < k => Shift(i, j) < Shift(i, k)
      BY <2>1 DEF Shift
    <3> QED BY <2>1, <2>2, <3>1 DEF Embeds
  <2>5. \A j \in DOMAIN zs : Stands(g, xs[q[j]], zs[j])
    BY <2>1, <2>2 DEF Embeds
  <2>6. ASSUME NEW m \in DOMAIN xs
        PROVE  (\E j \in DOMAIN zs : q[j] = m) \/ Elided(g, xs[m])
    <3>1. CASE Elided(g, xs[m])
      BY <3>1
    <3>2. ASSUME NEW k \in DOMAIN ys, p[k] = m, k # i
          PROVE  \E j \in DOMAIN zs : q[j] = m
      <4>1. \E j \in DOMAIN zs : Shift(i, j) = k
        <5>1. CASE k < i
          BY <5>1, <2>1 DEF Shift
        <5>2. CASE k > i
          <6>1. k - 1 \in DOMAIN zs /\ Shift(i, k - 1) = k
            BY <5>2, <2>1 DEF Shift
          <6> QED BY <6>1
        <5> QED BY <5>1, <5>2, <3>2, <2>1
      <4> QED BY <4>1, <3>2
    <3>3. ASSUME p[i] = m PROVE Elided(g, xs[m])
      <4>1. Stands(f, xs[m], ys[i])
        BY <3>3, <1>4, <2>1 DEF Embeds, ys
      <4>2. ys[i].output # None /\ ys[i].op \notin NonElidableOp /\ ys[i].output \notin UsedValueIds(g)
        BY <2>y, <1>2 DEF IsDead
      <4>3. ~(IsDecided(f, xs[m]) /\ ys[i] = Decide(f, xs[m]))
        <5>1. "Jmp" \in NonElidableOp
          BY DEF NonElidableOp
        <5>2. xs[m] \in Instr
          OBVIOUS
        <5> QED BY <5>1, <5>2, <4>2, DecidedInstr
      <4>4. xs[m].op \notin NonElidableOp /\ xs[m].output = ys[i].output
        <5>1. \A op \in FoldableOp : op \notin NonElidableOp
          BY DEF FoldableOp, NonElidableOp
        <5> QED BY <4>1, <4>2, <4>3, <5>1 DEF Stands
      <4> QED BY <4>2, <4>4 DEF Elided
    <3> QED BY <3>1, <3>2, <3>3, <2>2 DEF Embeds
  <2>7. Embeds(g, xs, zs, q)
    <3> HIDE DEF q
    <3> QED BY <2>3, <2>4, <2>5, <2>6 DEF Embeds
  <2> HIDE DEF q
  <2> QED BY <2>7 DEF zs
<1>5. \A d \in DOMAIN g.blocks : \E e \in DOMAIN f.blocks :
         /\ g.blocks[d].id = f.blocks[e].id
         /\ \/ g.blocks[d].instrs = f.blocks[e].instrs
            \/ \A xs \in Seq(Instr) : \A p :
                 Embeds(f, xs, f.blocks[e].instrs, p) => \E q : Embeds(g, xs, g.blocks[d].instrs, q)
  BY <1>1, <1>4
<1>6. Len(g.values) = Len(f.values)
  BY <1>1
<1> QED BY <1>1, <1>2, <1>3, <1>5, <1>6, DerivedFrom

\* JumpSimplification: a branch on a constant may have become the jump.
LEMMA DecideDerived ==
  ASSUME NEW s \in Func, NEW f \in Func, Derived(s, f),
         NEW b \in DOMAIN f.blocks, NEW i \in DOMAIN f.blocks[b].instrs,
         IsDecided(f, InstrAt(f, b, i)),
         NEW g, g = SetInstr(f, b, i, Decide(f, InstrAt(f, b, i)))
  PROVE  Derived(s, g)
<1> DEFINE y == InstrAt(f, b, i)
           z == Decide(f, y)
<1>1. y \in Instr /\ z \in Instr /\ z.inputs = <<>>
  <2>1. y \in Instr
    BY FuncParts
  <2>2. z.inputs = <<>>
    <3> HIDE DEF y
    <3> QED BY <2>1 DEF Decide, Instr, IRInstr
  <2> HIDE DEF y
  <2> QED BY <2>1, <2>2, DecidedInstr
<1> HIDE DEF z
<1>2. /\ g \in Func
      /\ g.values = f.values /\ g.name = f.name
      /\ DOMAIN g.blocks = DOMAIN f.blocks
      /\ \A c \in DOMAIN f.blocks :
           /\ g.blocks[c].id = f.blocks[c].id
           /\ DOMAIN g.blocks[c].instrs = DOMAIN f.blocks[c].instrs
           /\ \A j \in DOMAIN f.blocks[c].instrs :
                InstrAt(g, c, j) = IF c = b /\ j = i THEN z ELSE InstrAt(f, c, j)
  <2>1. g = SetInstr(f, b, i, z)
    BY DEF z
  <2> QED BY <1>1, <2>1, UpdateInstr
<1>3. UsedValueIds(g) \subseteq UsedValueIds(f)
  <2>1. ASSUME NEW d \in DOMAIN g.blocks, NEW j \in DOMAIN g.blocks[d].instrs
        PROVE  \/ InstrAt(g, d, j).inputs = <<>>
               \/ \E e \in DOMAIN f.blocks : \E k \in DOMAIN f.blocks[e].instrs :
                    InstrAt(g, d, j).inputs = InstrAt(f, e, k).inputs
    BY <1>1, <1>2
  <2> QED BY <2>1, UsedShrinks
<1>4. KeepsConstants(f, g) /\ Justified(s, g) /\ \A v : Constant(g, v) = Constant(f, v)
  <2>1. Justified(s, f)
    BY DEF Derived
  <2>2. g.values = f.values
    BY <1>2
  <2> QED BY <2>1, <2>2, SameConstants
<1>5. ASSUME NEW d \in DOMAIN g.blocks, d # b PROVE g.blocks[d].instrs = f.blocks[d].instrs
  <2>1. g.blocks[d].instrs \in Seq(Instr) /\ f.blocks[d].instrs \in Seq(Instr)
    BY <1>2, FuncParts
  <2>2. \A j \in DOMAIN f.blocks[d].instrs : g.blocks[d].instrs[j] = f.blocks[d].instrs[j]
    BY <1>2, <1>5 DEF InstrAt
  <2>3. DOMAIN g.blocks[d].instrs = DOMAIN f.blocks[d].instrs
    BY <1>2
  <2> QED BY <2>1, <2>2, <2>3
<1>6. ASSUME NEW xs \in Seq(Instr), NEW q, Embeds(f, xs, f.blocks[b].instrs, q)
      PROVE  Embeds(g, xs, g.blocks[b].instrs, q)
  <2>1. Embeds(g, xs, f.blocks[b].instrs, q)
    BY <1>3, <1>4, <1>6, EmbedsKept
  <2>2. xs[q[i]] = y
    <3>1. q[i] \in DOMAIN xs /\ Stands(f, xs[q[i]], y)
      BY <1>6 DEF Embeds, InstrAt
    <3>2. y.op = "BrTrue"
      BY DEF IsDecided
    <3> HIDE DEF y
    <3> QED BY <3>1, <3>2, StandsSame
  <2>3. Stands(g, y, InstrAt(g, b, i))
    <3>1. IsDecided(g, y) /\ Decide(g, y) = z
      BY <1>4 DEF IsDecided, Decide, z
    <3> QED BY <3>1, <1>2 DEF Stands
  <2>4. ASSUME NEW j \in DOMAIN g.blocks[b].instrs
        PROVE  Stands(g, xs[q[j]], g.blocks[b].instrs[j])
    <3>1. CASE j = i
      BY <3>1, <2>2, <2>3 DEF InstrAt
    <3>2. CASE j # i
      <4>1. g.blocks[b].instrs[j] = f.blocks[b].instrs[j]
        BY <3>2, <1>2 DEF InstrAt
      <4> QED BY <4>1, <2>1, <1>2 DEF Embeds
    <3> QED BY <3>1, <3>2
  <2>5. DOMAIN g.blocks[b].instrs = DOMAIN f.blocks[b].instrs
    BY <1>2
  <2> QED BY <2>1, <2>4, <2>5 DEF Embeds
<1>7. \A d \in DOMAIN g.blocks : \E e \in DOMAIN f.blocks :
         /\ g.blocks[d].id = f.blocks[e].id
         /\ \/ g.blocks[d].instrs = f.blocks[e].instrs
            \/ \A xs \in Seq(Instr) : \A q :
                 Embeds(f, xs, f.blocks[e].instrs, q) => \E r : Embeds(g, xs, g.blocks[d].instrs, r)
  BY <1>2, <1>5, <1>6
<1>8. Len(g.values) = Len(f.values)
  BY <1>2
<1> QED BY <1>2, <1>3, <1>4, <1>7, <1>8, DerivedFrom

\* UnreachableBlockElim: fewer blocks, or another index.
LEMMA FewerBlocksDerived ==
  ASSUME NEW s \in Func, NEW f \in Func, Derived(s, f), NEW g,
         g.name = f.name, g.values = f.values,
         \A b \in DOMAIN g.blocks : \E c \in DOMAIN f.blocks : g.blocks[b] = f.blocks[c]
  PROVE  Derived(s, g)
<1>1. UsedValueIds(g) \subseteq UsedValueIds(f)
  <2>1. ASSUME NEW d \in DOMAIN g.blocks, NEW j \in DOMAIN g.blocks[d].instrs
        PROVE  \E e \in DOMAIN f.blocks : \E k \in DOMAIN f.blocks[e].instrs :
                 InstrAt(g, d, j).inputs = InstrAt(f, e, k).inputs
    BY DEF InstrAt
  <2> QED BY <2>1, UsedShrinks
<1>2. KeepsConstants(f, g) /\ Justified(s, g)
  <2>1. Justified(s, f)
    BY DEF Derived
  <2> QED BY <2>1, SameConstants
<1>3. \A d \in DOMAIN g.blocks : \E e \in DOMAIN f.blocks :
         /\ g.blocks[d].id = f.blocks[e].id
         /\ \/ g.blocks[d].instrs = f.blocks[e].instrs
            \/ \A xs \in Seq(Instr) : \A q :
                 Embeds(f, xs, f.blocks[e].instrs, q) => \E r : Embeds(g, xs, g.blocks[d].instrs, r)
  OBVIOUS
<1>4. Len(g.values) = Len(f.values)
  OBVIOUS
<1> QED BY <1>1, <1>2, <1>3, <1>4, DerivedFrom

(***************************************************************************)
(* The invariant: every function is one the optimizer may have made of the *)
(* original, and dead-code elimination knows every id that is read.        *)
(***************************************************************************)
DerivedInv == \A k \in DOMAIN functions : Derived(source[k], functions[k])

UsedInv == Running("dead-code-elim") => UsedValueIds(Fn) \subseteq used

LEMMA SourceFunction ==
  ASSUME StateInv, NEW k \in DOMAIN functions
  PROVE  k \in DOMAIN source /\ source[k] \in Func /\ Sound(source[k])
<1>1. source \in Programs /\ functions \in Seq(Func) /\ Len(functions) = Len(source)
  BY DEF StateInv
<1>2. source \in Seq({source[j] : j \in DOMAIN source}) /\ \A j \in DOMAIN source : Optimizable(source[j])
  BY <1>1, OptimizerAssumption
<1>3. k \in DOMAIN source
  BY <1>1, <1>2
<1> DEFINE f == source[k]
<1>4. Optimizable(f)
  BY <1>2, <1>3
<1> HIDE DEF f
<1>5. f \in [name : STRING, blocks : Seq(Block), values : Seq(Optional(RegValue)),
             blockIndex : {<<>>, RebuildBlockIndex(f.blocks)}]
  BY <1>4 DEF Optimizable, Block
<1>6. f \in Func
  BY <1>5 DEF Func, Indexes
<1>7. Sound(f)
  BY <1>4 DEF Optimizable, Sound, WellTyped, OutputsBounded
<1> QED BY <1>3, <1>6, <1>7 DEF f

\* What a function starts as is what is left of it.
LEMMA DerivedReflexive ==
  ASSUME NEW s \in Func, Sound(s)
  PROVE  Derived(s, s)
<1>1. KeepsConstants(s, s)
  BY DEF KeepsConstants
<1>2. Justified(s, s)
  BY DEF Sound, ConstantIsDefinition, Justified
<1>3. ASSUME NEW b \in DOMAIN s.blocks PROVE HasOrigin(s, s, s.blocks[b])
  <2> DEFINE xs == s.blocks[b].instrs
             p  == [j \in DOMAIN xs |-> j]
  <2>1. Embeds(s, xs, xs, p)
    BY DEF Embeds, Stands
  <2>2. \E q : Embeds(s, xs, xs, q)
    <3> HIDE DEF p
    <3> QED BY <2>1
  <2> QED BY <2>2 DEF HasOrigin
<1> QED BY <1>1, <1>2, <1>3 DEF Derived

LEMMA InitDerived == Init => DerivedInv /\ UsedInv
<1> SUFFICES ASSUME Init PROVE DerivedInv /\ UsedInv
  OBVIOUS
<1>1. StateInv /\ functions = source
  BY InitSound DEF SoundInv, Init
<1>2. DerivedInv
  <2> SUFFICES ASSUME NEW k \in DOMAIN functions PROVE Derived(source[k], functions[k])
    BY DEF DerivedInv
  <2>1. source[k] \in Func /\ Sound(source[k])
    BY <1>1, SourceFunction
  <2> QED BY <1>1, <2>1, DerivedReflexive
<1>3. phase # "visit"
  BY DEF Init
<1> QED BY <1>2, <1>3 DEF UsedInv, Running

\* A step that rewrites nothing.
LEMMA UnchangedDerived ==
  ASSUME DerivedInv, UsedInv, UNCHANGED <<source, functions>>,
         \/ phase' # "visit"
         \/ passes'[pass'] # "dead-code-elim"
         \/ phase = "visit" /\ UNCHANGED <<passes, pass, current, used>>
  PROVE  DerivedInv' /\ UsedInv'
<1>1. DerivedInv'
  BY DEF DerivedInv
<1>2. UsedInv'
  BY DEF UsedInv, Running, Fn
<1> QED BY <1>1, <1>2

\* A step that rewrites the function that is being optimized.
LEMMA RewriteDerived ==
  ASSUME StateInv, phase = "visit", DerivedInv, NEW g, NEW pos, Rewrite(g, pos),
         Derived(source[current], g),
         passes[pass] = "dead-code-elim" => UsedValueIds(g) \subseteq used
  PROVE  DerivedInv' /\ UsedInv'
<1>1. /\ functions' = [functions EXCEPT ![current] = g] /\ current \in DOMAIN functions
      /\ UNCHANGED <<source, current, passes, pass, used, phase>>
  BY DEF Rewrite, StateInv
<1>2. DerivedInv'
  BY <1>1 DEF DerivedInv
<1>3. Fn' = g
  BY <1>1 DEF Fn
<1>4. UsedInv'
  BY <1>1, <1>3 DEF UsedInv, Running
<1> QED BY <1>2, <1>4

LEMMA FoldConstantDerived == SoundInv /\ DerivedInv /\ UsedInv /\ FoldConstant => DerivedInv' /\ UsedInv'
<1> SUFFICES ASSUME SoundInv, DerivedInv, UsedInv, FoldConstant PROVE DerivedInv' /\ UsedInv'
  OBVIOUS
<1>1. /\ phase = "visit" /\ passes[pass] = "constant-folding"
      /\ B \in DOMAIN Fn.blocks /\ I \in DOMAIN Fn.blocks[B].instrs
  BY DEF FoldConstant, Running, HasInstr
<1>2. current \in DOMAIN functions /\ Fn \in Func /\ Sound(Fn) /\ Fn = functions[current]
  BY <1>1, VisitedFunction DEF SoundInv, Fn
<1>3. source[current] \in Func /\ Sound(source[current])
  BY <1>2, SourceFunction DEF SoundInv
<1>4. PICK c \in Folded(Fn, InstrAt(Fn, B, I)) :
        CASE c = None -> SkipTo(<<B, I + 1>>)
         [] c = Trap -> /\ phase' = "killed"
                        /\ UNCHANGED <<source, functions, passes, fired, runs, current, pass,
                                       changed, touched, cursor, used, reached, worklist>>
         [] OTHER    -> Rewrite(FoldInstr(Fn, B, I, c), <<B, I + 1>>)
  BY DEF FoldConstant
<1>5. InstrAt(Fn, B, I) \in Instr
  BY <1>1, <1>2, FuncParts
<1>6. c \in RegValue \cup {None, Trap}
  <2> HIDE DEF Fn, B, I
  <2> QED BY <1>2, <1>4, <1>5, FoldedConstant
<1>7. CASE c = None
  <2>1. SkipTo(<<B, I + 1>>)
    BY <1>4, <1>7, OptimizerAssumption
  <2>2. UNCHANGED <<source, functions, phase, passes, pass, current, used>>
    BY <2>1 DEF SkipTo
  <2> QED BY <1>1, <2>2, UnchangedDerived
<1>8. CASE c = Trap
  <2>1. phase' = "killed" /\ UNCHANGED <<source, functions>>
    BY <1>4, <1>8, OptimizerAssumption
  <2> QED BY <2>1, UnchangedDerived
<1>9. CASE c \in RegValue
  <2> DEFINE g == FoldInstr(Fn, B, I, c)
  <2>1. Rewrite(g, <<B, I + 1>>)
    BY <1>4, <1>9, OptimizerAssumption
  <2>2. Derived(source[current], Fn)
    BY <1>2 DEF DerivedInv
  <2>3. SingleWriter(source[current])
    BY <1>3 DEF Sound
  <2>4. Derived(source[current], g)
    <3> HIDE DEF Fn, B, I
    <3> QED BY <1>1, <1>2, <1>3, <1>4, <1>9, <2>2, <2>3, FoldDerived
  <2> HIDE DEF g
  <2> QED BY <1>1, <2>1, <2>4, RewriteDerived DEF SoundInv
<1> QED BY <1>6, <1>7, <1>8, <1>9

LEMMA EraseDeadInstrDerived == SoundInv /\ DerivedInv /\ UsedInv /\ EraseDeadInstr => DerivedInv' /\ UsedInv'
<1> SUFFICES ASSUME SoundInv, DerivedInv, UsedInv, EraseDeadInstr PROVE DerivedInv' /\ UsedInv'
  OBVIOUS
<1>1. /\ phase = "visit" /\ passes[pass] = "dead-code-elim" /\ Running("dead-code-elim")
      /\ B \in DOMAIN Fn.blocks /\ I \in DOMAIN Fn.blocks[B].instrs
  BY DEF EraseDeadInstr, Running, HasInstr
<1>2. current \in DOMAIN functions /\ Fn \in Func /\ Fn = functions[current]
  BY <1>1, VisitedFunction DEF SoundInv, Fn
<1>3. source[current] \in Func
  BY <1>2, SourceFunction DEF SoundInv
<1> DEFINE g == DropInstr(Fn, B, I)
<1>4. CASE IsDead(InstrAt(Fn, B, I), used)
  <2>1. Rewrite(g, cursor)
    BY <1>4 DEF EraseDeadInstr, DropInstr
  <2>2. Derived(source[current], Fn)
    BY <1>2 DEF DerivedInv
  <2>3. UsedValueIds(Fn) \subseteq used
    BY <1>1 DEF UsedInv
  <2>4. Derived(source[current], g) /\ UsedValueIds(g) \subseteq UsedValueIds(Fn)
    <3> HIDE DEF Fn, B, I
    <3> QED BY <1>1, <1>2, <1>3, <1>4, <2>2, <2>3, EraseDerived
  <2> HIDE DEF g
  <2> QED BY <1>1, <2>1, <2>3, <2>4, RewriteDerived DEF SoundInv
<1>5. CASE ~IsDead(InstrAt(Fn, B, I), used)
  <2>1. UNCHANGED <<source, functions, phase, passes, pass, current, used>>
    BY <1>5 DEF EraseDeadInstr, SkipTo
  <2> QED BY <1>1, <2>1, UnchangedDerived
<1> QED BY <1>4, <1>5

LEMMA SimplifyJumpDerived == SoundInv /\ DerivedInv /\ UsedInv /\ SimplifyJump => DerivedInv' /\ UsedInv'
<1> SUFFICES ASSUME SoundInv, DerivedInv, UsedInv, SimplifyJump PROVE DerivedInv' /\ UsedInv'
  OBVIOUS
<1>1. /\ phase = "visit" /\ passes[pass] = "jump-simplification"
      /\ B \in DOMAIN Fn.blocks /\ I \in DOMAIN Fn.blocks[B].instrs
  BY DEF SimplifyJump, Running, HasInstr
<1>2. current \in DOMAIN functions /\ Fn \in Func /\ Fn = functions[current]
  BY <1>1, VisitedFunction DEF SoundInv, Fn
<1>3. source[current] \in Func
  BY <1>2, SourceFunction DEF SoundInv
<1> DEFINE g == SetInstr(Fn, B, I, Decide(Fn, InstrAt(Fn, B, I)))
<1>4. CASE IsDecided(Fn, InstrAt(Fn, B, I))
  <2>1. Rewrite(g, <<B, I + 1>>)
    BY <1>1, <1>2, <1>4 DEF SimplifyJump, SetInstr, InstrAt, Func
  <2>2. Derived(source[current], Fn)
    BY <1>2 DEF DerivedInv
  <2>3. Derived(source[current], g)
    <3> HIDE DEF Fn, B, I
    <3> QED BY <1>1, <1>2, <1>3, <1>4, <2>2, DecideDerived
  <2> HIDE DEF g
  <2> QED BY <1>1, <2>1, <2>3, RewriteDerived DEF SoundInv
<1>5. CASE ~IsDecided(Fn, InstrAt(Fn, B, I))
  <2>1. UNCHANGED <<source, functions, phase, passes, pass, current, used>>
    BY <1>5 DEF SimplifyJump, SkipTo
  <2> QED BY <1>1, <2>1, UnchangedDerived
<1> QED BY <1>4, <1>5

LEMMA EraseUnreachableBlockDerived ==
  SoundInv /\ DerivedInv /\ UsedInv /\ EraseUnreachableBlock => DerivedInv' /\ UsedInv'
<1> SUFFICES ASSUME SoundInv, DerivedInv, UsedInv, EraseUnreachableBlock PROVE DerivedInv' /\ UsedInv'
  OBVIOUS
<1>1. phase = "visit" /\ passes[pass] = "unreachable-block-elim" /\ B \in DOMAIN Fn.blocks
  BY DEF EraseUnreachableBlock, Running
<1>2. current \in DOMAIN functions /\ Fn \in Func /\ Fn = functions[current]
  BY <1>1, VisitedFunction DEF SoundInv, Fn
<1>3. source[current] \in Func
  BY <1>2, SourceFunction DEF SoundInv
<1> DEFINE g == DropBlock(Fn, B)
<1>4. CASE Fn.blocks[B].id \notin reached
  <2>1. Rewrite(g, cursor)
    BY <1>4 DEF EraseUnreachableBlock, DropBlock
  <2>2. Derived(source[current], Fn)
    BY <1>2 DEF DerivedInv
  <2>3. Derived(source[current], g)
    <3> HIDE DEF Fn, B
    <3>1. /\ g.name = Fn.name /\ g.values = Fn.values
          /\ \A c \in DOMAIN g.blocks :
               Shift(B, c) \in DOMAIN Fn.blocks /\ g.blocks[c] = Fn.blocks[Shift(B, c)]
      BY <1>1, <1>2, EraseBlock
    <3>2. \A c \in DOMAIN g.blocks : \E d \in DOMAIN Fn.blocks : g.blocks[c] = Fn.blocks[d]
      BY <3>1
    <3> HIDE DEF g
    <3> QED BY <1>2, <1>3, <2>2, <3>1, <3>2, FewerBlocksDerived
  <2> HIDE DEF g
  <2> QED BY <1>1, <2>1, <2>3, RewriteDerived DEF SoundInv
<1>5. CASE Fn.blocks[B].id \in reached
  <2>1. UNCHANGED <<source, functions, phase, passes, pass, current, used>>
    BY <1>5 DEF EraseUnreachableBlock, SkipTo
  <2> QED BY <1>1, <2>1, UnchangedDerived
<1> QED BY <1>4, <1>5

LEMMA FinishPassDerived == SoundInv /\ DerivedInv /\ UsedInv /\ FinishPass => DerivedInv' /\ UsedInv'
<1> SUFFICES ASSUME SoundInv, DerivedInv, UsedInv, FinishPass PROVE DerivedInv' /\ UsedInv'
  OBVIOUS
<1> DEFINE g == Finished(Fn)
<1>1. /\ phase = "visit" /\ phase' = "start" /\ source' = source
      /\ functions' = [functions EXCEPT ![current] = g]
  BY DEF FinishPass, Fn
<1>2. current \in DOMAIN functions /\ Fn \in Func /\ Fn = functions[current]
  BY <1>1, VisitedFunction DEF SoundInv, Fn
<1>3. source[current] \in Func
  BY <1>2, SourceFunction DEF SoundInv
<1>4. g.name = Fn.name /\ g.values = Fn.values /\ g.blocks = Fn.blocks
  <2> HIDE DEF Fn
  <2> QED BY <1>2 DEF Finished, Func
<1>5. Derived(source[current], Fn)
  BY <1>2 DEF DerivedInv
<1>6. Derived(source[current], g)
  <2> HIDE DEF Fn, g
  <2> QED BY <1>2, <1>3, <1>4, <1>5, FewerBlocksDerived
<1>7. DerivedInv'
  <2> HIDE DEF g
  <2> QED BY <1>1, <1>2, <1>6 DEF DerivedInv
<1>8. UsedInv'
  BY <1>1 DEF UsedInv, Running
<1> QED BY <1>7, <1>8

LEMMA NextDerived == SoundInv /\ DerivedInv /\ UsedInv /\ [Next]_vars => DerivedInv' /\ UsedInv'
<1> SUFFICES ASSUME SoundInv, DerivedInv, UsedInv, [Next]_vars PROVE DerivedInv' /\ UsedInv'
  OBVIOUS
<1>1. CASE StartPass
  <2>1. DerivedInv'
    BY <1>1 DEF StartPass, DerivedInv
  <2>2. Fn' = Fn /\ used' = UsedValueIds(Fn)
    BY <1>1 DEF StartPass, Fn
  <2> QED BY <2>1, <2>2 DEF UsedInv
<1>2. CASE FoldConstant
  BY <1>2, FoldConstantDerived
<1>3. CASE EraseDeadInstr
  BY <1>3, EraseDeadInstrDerived
<1>4. CASE SimplifyJump
  BY <1>4, SimplifyJumpDerived
<1>5. CASE NextBlock
  <2>1. phase = "visit" /\ UNCHANGED <<source, functions, phase, passes, pass, current, used>>
    BY <1>5 DEF NextBlock, SkipTo
  <2> QED BY <2>1, UnchangedDerived
<1>6. ASSUME NEW id \in worklist, VisitReachable(id) PROVE DerivedInv' /\ UsedInv'
  <2>1. phase' = "worklist" /\ UNCHANGED <<source, functions>>
    BY <1>6 DEF VisitReachable
  <2> QED BY <2>1, UnchangedDerived
<1>7. CASE WorklistEmpty
  <2>1. UNCHANGED <<source, functions, passes, pass>> /\ passes[pass] = "unreachable-block-elim"
    BY <1>7 DEF WorklistEmpty, SoundInv, StateInv
  <2> QED BY <2>1, UnchangedDerived
<1>8. CASE EraseUnreachableBlock
  BY <1>8, EraseUnreachableBlockDerived
<1>9. CASE FinishPass
  BY <1>9, FinishPassDerived
<1>10. CASE EndRound
  <2>1. phase' # "visit" /\ UNCHANGED <<source, functions>>
    BY <1>10 DEF EndRound
  <2> QED BY <2>1, UnchangedDerived
<1>11. CASE RunAgain
  <2>1. phase' # "visit" /\ UNCHANGED <<source, functions>>
    BY <1>11 DEF RunAgain
  <2> QED BY <2>1, UnchangedDerived
<1>12. CASE UNCHANGED vars
  <2>1. UNCHANGED <<source, functions, phase, passes, pass, current, used>>
    BY <1>12 DEF vars
  <2>2. DerivedInv'
    BY <2>1 DEF DerivedInv
  <2>3. UsedInv'
    BY <2>1 DEF UsedInv, Running, Fn
  <2> QED BY <2>2, <2>3
<1> QED BY <1>1, <1>2, <1>3, <1>4, <1>5, <1>6, <1>7, <1>8, <1>9, <1>10, <1>11, <1>12
        DEF Next, OptimizerStep

(***************************************************************************)
(* What one instruction does to a call stack, on whatever module.          *)
(***************************************************************************)
SimFrame == [fn : STRING, values : Seq(Optional(AllValues)), block : Nat, pc : Nat]
Stacks   == Seq(SimFrame) \ {<<>>}

TopOf(stack)          == stack[Len(stack)]
WithTop(stack, frame) == [stack EXCEPT ![Len(stack)] = frame]
Callers(stack)        == SubSeq(stack, 1, Len(stack) - 1)

\* What a frame holds under an id, and what is read under it in function f.
ValueOf(frame, id)   == IF id < Len(frame.values) THEN frame.values[id + 1] ELSE None
ReadIn(f, frame, id) == IF ValueOf(frame, id) # None THEN ValueOf(frame, id) ELSE Constant(f, id)

\* The frame past an instruction, at the beginning of a block, with a value written.
Past(frame)           == [frame EXCEPT !.pc = @ + 1]
Gone(frame, id)       == [frame EXCEPT !.block = id, !.pc = 0]
Holding(frame, id, z) == [frame EXCEPT !.values = Sim(<<>>)!Written(@, id, z)]

DistinctIn(module) == \A j, k \in DOMAIN module : module[j].name = module[k].name => j = k

LEMMA ValueFacts ==
  /\ RegValue = AllValues
  /\ None \notin AllValues /\ Trap \notin AllValues /\ Trap # None
<1>1. RegValue = AllValues
  BY TranslationAssumption
<1> QED BY <1>1, OptimizerAssumption

\* The sets of operations are the same seen through an instance.
LEMMA SameSets ==
  ASSUME NEW m
  PROVE  Sim(m)!BinaryOp = BinaryOp /\ Sim(m)!UnaryOp = UnaryOp /\ Sim(m)!CmpKind = CmpKind
  BY DEF Sim!BinaryOp, BinaryOp, Sim!UnaryOp, UnaryOp, Sim!CmpKind, CmpKind

LEMMA ResultFacts ==
  /\ \A l, r \in AllValues : \A op \in BinaryOp :
       ~DividesByZero(op, r) => ApplyBinaryOp(op, l, r) \subseteq AllValues \cup {Trap}
  /\ \A l, r \in AllValues : \A kind \in CmpKind : ApplyComparison(kind, l, r) \in AllValues
  /\ \A x \in AllValues : \A op \in UnaryOp : ApplyUnaryOp(op, x) \in AllValues
  BY TranslationAssumption, SameSets DEF Sim!ArithmeticAssumption

LEMMA StackParts ==
  ASSUME NEW s \in Stacks
  PROVE  /\ Len(s) \in Nat \ {0} /\ Len(s) \in DOMAIN s /\ DOMAIN s = 1 .. Len(s)
         /\ TopOf(s) \in SimFrame /\ s \in Seq(SimFrame) /\ s # <<>>
         /\ \A k \in 1 .. Len(s) : s[k] \in SimFrame
<1>1. s \in Seq(SimFrame) /\ s # <<>>
  BY DEF Stacks
<1>2. Len(s) \in Nat \ {0} /\ Len(s) \in DOMAIN s /\ DOMAIN s = 1 .. Len(s)
  BY <1>1
<1> QED BY <1>1, <1>2 DEF TopOf

LEMMA WithTopStack ==
  ASSUME NEW s \in Stacks, NEW frame \in SimFrame, NEW t, t = WithTop(s, frame)
  PROVE  /\ t \in Stacks /\ Len(t) = Len(s) /\ TopOf(t) = frame
         /\ \A k \in 1 .. Len(s) : k # Len(s) => t[k] = s[k]
<1>1. /\ s \in Seq(SimFrame) /\ s # <<>> /\ Len(s) \in Nat \ {0} /\ Len(s) \in DOMAIN s
      /\ DOMAIN s = 1 .. Len(s)
  BY StackParts
<1>2. t \in Seq(SimFrame) /\ Len(t) = Len(s) /\ DOMAIN t = DOMAIN s
  BY <1>1 DEF WithTop
<1>3. t # <<>>
  BY <1>1, <1>2
<1> QED BY <1>1, <1>2, <1>3 DEF WithTop, TopOf, Stacks

LEMMA CallersStack ==
  ASSUME NEW s \in Stacks
  PROVE  /\ Callers(s) \in Seq(SimFrame) /\ Len(Callers(s)) = Len(s) - 1
         /\ \A k \in 1 .. Len(s) - 1 : Callers(s)[k] = s[k]
<1> DEFINE n == Len(s) - 1
<1>1. s \in Seq(SimFrame) /\ Len(s) \in Nat \ {0} /\ n \in Nat /\ n < Len(s)
  BY StackParts
<1>2. \A k \in 1 .. n : s[k] \in SimFrame
  BY <1>1
<1>3. /\ SubSeq(s, 1, n) \in Seq(SimFrame)
      /\ Len(SubSeq(s, 1, n)) = IF 1 <= n THEN n - 1 + 1 ELSE 0
      /\ \A k \in 1 .. n - 1 + 1 : SubSeq(s, 1, n)[k] = s[1 + k - 1]
  <2>1. n \in Int /\ 1 \in Int
    BY <1>1
  <2> HIDE DEF n
  <2> QED BY <1>2, <2>1, SubSeqProperties
<1>4. Callers(s) = SubSeq(s, 1, n)
  BY DEF Callers
<1> HIDE DEF n
<1>5. Len(Callers(s)) = n /\ \A k \in 1 .. n : Callers(s)[k] = s[k]
  BY <1>1, <1>3, <1>4
<1> QED BY <1>3, <1>4, <1>5 DEF n

LEMMA FrameForms ==
  ASSUME NEW frame \in SimFrame
  PROVE  /\ frame.values \in Seq(Optional(AllValues)) /\ Len(frame.values) \in Nat /\ frame.pc \in Nat
         /\ frame.block \in Nat /\ frame.fn \in STRING
         /\ Past(frame) \in SimFrame /\ Past(frame).fn = frame.fn /\ Past(frame).block = frame.block
         /\ Past(frame).values = frame.values /\ Past(frame).pc = frame.pc + 1
<1>1. /\ frame.values \in Seq(Optional(AllValues)) /\ frame.pc \in Nat
      /\ frame.block \in Nat /\ frame.fn \in STRING
  BY DEF SimFrame
<1>2. Past(frame) = [frame EXCEPT !.pc = frame.pc + 1]
  BY DEF Past
<1>3. frame.pc + 1 \in Nat /\ Len(frame.values) \in Nat
  BY <1>1
<1>4. /\ Past(frame) \in SimFrame /\ Past(frame).fn = frame.fn /\ Past(frame).block = frame.block
      /\ Past(frame).values = frame.values /\ Past(frame).pc = frame.pc + 1
  BY <1>2, <1>3 DEF SimFrame
<1> QED BY <1>1, <1>3, <1>4

LEMMA GoneFrame ==
  ASSUME NEW frame \in SimFrame, NEW id \in Nat
  PROVE  /\ Gone(frame, id) \in SimFrame /\ Gone(frame, id).fn = frame.fn
         /\ Gone(frame, id).block = id /\ Gone(frame, id).values = frame.values
         /\ Gone(frame, id).pc = 0
  BY DEF SimFrame, Gone

LEMMA HoldingFrame ==
  ASSUME NEW frame \in SimFrame, NEW id \in Nat, NEW z \in AllValues,
         NEW g, g = Holding(frame, id, z)
  PROVE  /\ g \in SimFrame /\ g.fn = frame.fn /\ g.block = frame.block /\ g.pc = frame.pc
         /\ \A v \in Nat : ValueOf(g, v) = IF v = id THEN z ELSE ValueOf(frame, v)
<1> DEFINE old == frame.values
           n   == IF id < Len(old) THEN Len(old) ELSE id + 1
           new == [v \in 1 .. n |-> IF v = id + 1 THEN z ELSE IF v <= Len(old) THEN old[v] ELSE None]
<1>1. old \in Seq(Optional(AllValues)) /\ Len(old) \in Nat /\ DOMAIN old = 1 .. Len(old)
  BY DEF SimFrame
<1>2. Sim(<<>>)!Written(old, id, z) = new
  BY DEF Sim!Written
<1> HIDE DEF old
<1>3. n \in Nat /\ id + 1 \in 1 .. n /\ Len(old) <= n
  BY <1>1
<1> HIDE DEF n
<1>4. \A v \in 1 .. n : new[v] \in Optional(AllValues)
  BY <1>1 DEF Optional
<1>5. new \in Seq(Optional(AllValues)) /\ Len(new) = n
  BY <1>3, <1>4
<1>6. ASSUME NEW v \in Nat
      PROVE  (IF v < n THEN new[v + 1] ELSE None) = IF v = id THEN z ELSE ValueOf(frame, v)
  <2>1. CASE v = id
    BY <2>1, <1>3
  <2>2. CASE v # id /\ v < n
    <3>1. new[v + 1] = IF v + 1 <= Len(old) THEN old[v + 1] ELSE None
      BY <2>2, <1>3
    <3> QED BY <3>1, <2>2, <1>1 DEF ValueOf, old
  <2>3. CASE v # id /\ ~(v < n)
    <3>1. ~(v < Len(old))
      BY <2>3, <1>1, <1>3
    <3> QED BY <3>1, <2>3 DEF ValueOf, old
  <2> QED BY <2>1, <2>2, <2>3
<1> HIDE DEF new
<1>7. g = [frame EXCEPT !.values = new]
  BY <1>2 DEF Holding, old
<1>8. g \in SimFrame /\ g.fn = frame.fn /\ g.block = frame.block /\ g.pc = frame.pc /\ g.values = new
  BY <1>5, <1>7 DEF SimFrame
<1> QED BY <1>5, <1>6, <1>8 DEF ValueOf

\* The simulator's operations on a stack, as operations on its top frame.
LEMMA StackForms ==
  ASSUME NEW m, NEW s \in Stacks, NEW frame, frame = TopOf(s)
  PROVE  /\ Sim(m)!Top(s) = frame
         /\ Sim(m)!Advance(s) = WithTop(s, Past(frame))
         /\ \A id : Sim(m)!GoTo(Sim(m)!Advance(s), id) = WithTop(s, Gone(Past(frame), id))
         /\ \A id, z : Sim(m)!WriteValue(Sim(m)!Advance(s), id, z) = WithTop(s, Holding(Past(frame), id, z))
         /\ Sim(m)!Pop(Sim(m)!Advance(s)) = Callers(s) /\ Sim(m)!Pop(s) = Callers(s)
         /\ Len(Sim(m)!Advance(s)) = Len(s) /\ Sim(m)!Top(Sim(m)!Advance(s)) = Past(frame)
<1>1. /\ frame \in SimFrame /\ s \in Seq(SimFrame) /\ Len(s) \in Nat \ {0} /\ Len(s) \in DOMAIN s
      /\ DOMAIN s = 1 .. Len(s)
  BY StackParts
<1> DEFINE n == Len(s)
           t == WithTop(s, Past(frame))
<1>2. Sim(m)!Top(s) = frame
  BY DEF Sim!Top, TopOf
<1>3. Sim(m)!Advance(s) = t
  BY <1>1 DEF Sim!Advance, WithTop, Past, TopOf
<1>4. t \in Stacks /\ Len(t) = n /\ t[n] = Past(frame) /\ \A k \in 1 .. n : k # n => t[k] = s[k]
  <2>1. Past(frame) \in SimFrame
    BY <1>1, FrameForms
  <2>2. t \in Stacks /\ Len(t) = Len(s) /\ TopOf(t) = Past(frame)
    BY <2>1, WithTopStack
  <2>3. \A k \in 1 .. Len(s) : k # Len(s) => t[k] = s[k]
    BY <2>1, WithTopStack
  <2> QED BY <2>2, <2>3 DEF TopOf
<1>5. t \in Seq(SimFrame) /\ DOMAIN t = 1 .. n
  BY <1>4, StackParts
<1> HIDE DEF t
<1>6. ASSUME NEW id PROVE Sim(m)!GoTo(t, id) = WithTop(s, Gone(Past(frame), id))
  <2> DEFINE u == [t EXCEPT ![n].block = id]
  <2>1. Sim(m)!GoTo(t, id) = [t EXCEPT ![n].block = id, ![n].pc = 0]
    BY <1>4 DEF Sim!GoTo
  <2>2. [t EXCEPT ![n].block = id, ![n].pc = 0] = [t EXCEPT ![n] = [t[n] EXCEPT !.block = id, !.pc = 0]]
    BY <1>1, <1>5
  <2>3. [t EXCEPT ![n] = Gone(Past(frame), id)] = [s EXCEPT ![n] = Gone(Past(frame), id)]
    BY <1>1, <1>4, <1>5
  <2> QED BY <2>1, <2>2, <2>3, <1>4 DEF Gone, WithTop
<1>7. ASSUME NEW id, NEW z PROVE Sim(m)!WriteValue(t, id, z) = WithTop(s, Holding(Past(frame), id, z))
  <2>1. Sim(m)!WriteValue(t, id, z) = [t EXCEPT ![n].values = Sim(m)!Written(@, id, z)]
    BY <1>4 DEF Sim!WriteValue
  <2>2. \A vs : Sim(m)!Written(vs, id, z) = Sim(<<>>)!Written(vs, id, z)
    BY DEF Sim!Written
  <2>3. Sim(m)!WriteValue(t, id, z) = [t EXCEPT ![n] = Holding(Past(frame), id, z)]
    BY <2>1, <2>2, <1>4, <1>5 DEF Holding
  <2>4. [t EXCEPT ![n] = Holding(Past(frame), id, z)] = [s EXCEPT ![n] = Holding(Past(frame), id, z)]
    BY <1>1, <1>4, <1>5
  <2> QED BY <2>3, <2>4 DEF WithTop
<1>8. Sim(m)!Pop(s) = Callers(s)
  BY DEF Sim!Pop, Callers
<1>9. Sim(m)!Pop(t) = Callers(s)
  <2>1. /\ Callers(t) \in Seq(SimFrame) /\ Len(Callers(t)) = n - 1
        /\ \A k \in 1 .. n - 1 : Callers(t)[k] = s[k]
    <3>1. /\ Callers(t) \in Seq(SimFrame) /\ Len(Callers(t)) = Len(t) - 1
          /\ \A k \in 1 .. Len(t) - 1 : Callers(t)[k] = t[k]
      BY <1>4, CallersStack
    <3>2. ASSUME NEW k \in 1 .. n - 1 PROVE t[k] = s[k]
      <4>1. k \in 1 .. n /\ k # n
        <5>1. n \in Nat
          BY StackParts
        <5> HIDE DEF n
        <5> QED BY <5>1
      <4> QED BY <4>1, <1>4
    <3>3. Len(t) = n
      BY <1>4
    <3> QED BY <3>1, <3>2, <3>3
  <2>2. /\ Callers(s) \in Seq(SimFrame) /\ Len(Callers(s)) = n - 1
        /\ \A k \in 1 .. n - 1 : Callers(s)[k] = s[k]
    BY CallersStack
  <2>3. Callers(t) = Callers(s)
    BY <2>1, <2>2
  <2> QED BY <2>3 DEF Sim!Pop, Callers
<1>10. Sim(m)!Top(t) = Past(frame)
  BY <1>4 DEF Sim!Top
<1>11. Len(Sim(m)!Advance(s)) = Len(s)
  BY <1>3, <1>4
<1>12. \A id : Sim(m)!GoTo(Sim(m)!Advance(s), id) = WithTop(s, Gone(Past(frame), id))
  BY <1>3, <1>6
<1>13. \A id, z : Sim(m)!WriteValue(Sim(m)!Advance(s), id, z) = WithTop(s, Holding(Past(frame), id, z))
  BY <1>3, <1>7
<1>14. Sim(m)!Advance(s) = WithTop(s, Past(frame))
  BY <1>3 DEF t
<1> QED BY <1>2, <1>3, <1>8, <1>9, <1>10, <1>11, <1>12, <1>13, <1>14

LEMMA CachedParts ==
  ASSUME NEW m \in Seq(Func), DistinctIn(m), NEW k \in DOMAIN m, UniqueIds(m[k])
  PROVE  /\ m[k].name \in Sim(m)!FunctionNames /\ Sim(m)!CachedFunction(m[k].name) = m[k]
         /\ \A b \in DOMAIN m[k].blocks :
              Sim(m)!CachedBlock(m[k].name, m[k].blocks[b].id) = m[k].blocks[b]
         /\ \A id : ~IsBlockId(m[k], id) => Sim(m)!CachedBlock(m[k].name, id) = None
<1> DEFINE name == m[k].name
           f    == m[k]
<1>1. Sim(m)!Named(name) = {k}
  BY DEF Sim!Named, DistinctIn
<1>2. name \in Sim(m)!FunctionNames
  BY DEF Sim!FunctionNames
<1>3. k \in Int
  OBVIOUS
<1>4. Sim(m)!Max({k}) = k /\ Sim(m)!Min({k}) = k
  <2>1. \E x \in {k} : \A y \in {k} : x >= y
    BY <1>3
  <2>2. Sim(m)!Max({k}) \in {k}
    BY <2>1, Zenon DEF Sim!Max
  <2>3. \E x \in {k} : \A y \in {k} : x <= y
    BY <1>3
  <2>4. Sim(m)!Min({k}) \in {k}
    BY <2>3, Zenon DEF Sim!Min
  <2> QED BY <2>2, <2>4
<1>5. Sim(m)!CachedFunction(name) = f
  BY <1>1, <1>4 DEF Sim!CachedFunction
<1>6. f \in Func /\ DOMAIN f.blocks = 1 .. Len(f.blocks) /\ Len(f.blocks) \in Nat
  <2>1. f \in Func
    OBVIOUS
  <2> HIDE DEF f
  <2> QED BY <2>1, FuncParts
<1>7. ASSUME NEW b \in DOMAIN f.blocks
      PROVE  Sim(m)!CachedBlock(name, f.blocks[b].id) = f.blocks[b]
  <2> DEFINE id == f.blocks[b].id
  <2>1. Sim(m)!BlockAt(f, id) = {b}
    BY DEF Sim!BlockAt, UniqueIds
  <2>2. b \in Int
    BY <1>6
  <2>3. Sim(m)!Min({b}) = b
    <3>1. \E x \in {b} : \A y \in {b} : x <= y
      BY <2>2
    <3>2. Sim(m)!Min({b}) \in {b}
      BY <3>1, Zenon DEF Sim!Min
    <3> QED BY <3>2
  <2>4. {j \in Sim(m)!Named(name) : Sim(m)!BlockAt(m[j], id) # {}} = {k}
    BY <1>1, <2>1
  <2> HIDE DEF f, id, name
  <2>5. {k} # {}
    OBVIOUS
  <2>6. Sim(m)!CachedIndex(name, id) = b
    BY <1>4, <2>1, <2>3, <2>4, <2>5 DEF Sim!CachedIndex, f
  <2> QED BY <1>5, <2>6 DEF Sim!CachedBlock, id
<1>8. ASSUME NEW id, ~IsBlockId(f, id) PROVE Sim(m)!CachedBlock(name, id) = None
  <2>1. Sim(m)!BlockAt(f, id) = {}
    BY <1>8 DEF Sim!BlockAt, IsBlockId
  <2>2. {j \in Sim(m)!Named(name) : Sim(m)!BlockAt(m[j], id) # {}} = {}
    BY <1>1, <2>1
  <2> HIDE DEF f, name
  <2>3. Sim(m)!CachedIndex(name, id) = 0
    BY <2>2 DEF Sim!CachedIndex
  <2>4. 0 \notin DOMAIN f.blocks
    BY <1>6
  <2> QED BY <1>5, <2>3, <2>4 DEF Sim!CachedBlock
<1> QED BY <1>2, <1>5, <1>7, <1>8

LEMMA ReadForm ==
  ASSUME NEW m, NEW s \in Stacks, NEW f, f = Sim(m)!CachedFunction(TopOf(s).fn), NEW id \in Nat
  PROVE  /\ Sim(m)!ReadValue(s, id) = ReadIn(f, TopOf(s), id)
         /\ Sim(m)!ReadValue(Sim(m)!Advance(s), id) = ReadIn(f, TopOf(s), id)
<1> DEFINE frame == TopOf(s)
<1>1. frame \in SimFrame /\ frame.values \in Seq(Optional(AllValues)) /\ Len(frame.values) \in Nat
  BY StackParts, FrameForms
<1>2. /\ Sim(m)!Top(s) = frame /\ Sim(m)!Top(Sim(m)!Advance(s)) = Past(frame)
      /\ Past(frame).values = frame.values /\ Past(frame).fn = frame.fn
  BY <1>1, StackForms, FrameForms
<1>3. ASSUME NEW t, Sim(m)!Top(t).values = frame.values, Sim(m)!Top(t).fn = frame.fn
      PROVE  Sim(m)!ReadValue(t, id) = ReadIn(f, frame, id)
  <2> HIDE DEF frame
  <2>1. CASE id < Len(frame.values) /\ frame.values[id + 1] # None
    BY <2>1, <1>1, <1>3 DEF Sim!ReadValue, ReadIn, ValueOf
  <2>2. CASE id >= Len(frame.values) \/ frame.values[id + 1] = None
    <3>1. Sim(m)!ReadValue(t, id) = Constant(f, id)
      BY <2>2, <1>1, <1>3 DEF Sim!ReadValue, Constant, frame
    <3>2. ValueOf(frame, id) = None
      BY <2>2, <1>1 DEF ValueOf
    <3> QED BY <3>1, <3>2 DEF ReadIn
  <2> QED BY <2>1, <2>2, <1>1
<1> QED BY <1>2, <1>3

\* What an instruction does, given its operands: it moves on, fails, writes a
\* value, goes to a block, calls a function or returns.
Move(kind, id, x) == [kind |-> kind, id |-> id, x |-> x]

DataOp      == BinaryOp \cup UnaryOp \cup {"Const", "Copy", "Cmp"}
Arity(op)   == IF op = "Const" THEN 0 ELSE IF op \in BinaryOp \cup {"Cmp"} THEN 2 ELSE 1
Computes(x) == /\ x.output # None /\ Len(x.inputs) >= Arity(x.op)
               /\ x.op = "Const" => x.constVal # None
               /\ x.op = "Cmp" => x.cmpKind # None

Results(x, r) ==
  CASE x.op = "Const" -> {x.constVal}
    [] x.op = "Copy" -> {r[1]}
    [] x.op \in BinaryOp -> ApplyBinaryOp(x.op, r[1], r[2])
    [] x.op \in UnaryOp -> {ApplyUnaryOp(x.op, r[1])}
    [] x.op = "Cmp" -> {ApplyComparison(x.cmpKind, r[1], r[2])}

Failure(x, r) ==
  IF \E k \in 1 .. Arity(x.op) : r[k] = None THEN "TypeMismatch"
  ELSE IF x.op \in BinaryOp /\ DividesByZero(x.op, r[2]) THEN "DivisionByZero" ELSE "none"

Written(x, z) == IF z = Trap THEN Move("fail", 0, "killed") ELSE Move("write", x.output, z)

DataMoves(x, r) ==
  IF ~Computes(x) THEN {Move("next", 0, None)}
  ELSE IF Failure(x, r) # "none" THEN {Move("fail", 0, Failure(x, r))}
  ELSE {Written(x, z) : z \in Results(x, r)}

JumpMove(target) == IF target = None THEN Move("next", 0, None) ELSE Move("goto", target, None)

Moves(names, x, r) ==
  CASE x.op \in DataOp -> DataMoves(x, r)
    [] x.op = "Jmp" -> {JumpMove(x.trueTarget)}
    [] x.op = "BrTrue" ->
         IF x.inputs = <<>> THEN {Move("next", 0, None)}
         ELSE IF r[1] = None THEN {Move("fail", 0, "TypeMismatch")}
         ELSE {JumpMove(IF Truth(r[1]) THEN x.trueTarget ELSE x.falseTarget)}
    [] x.op = "Call" ->
         IF x.callee = None THEN {Move("next", 0, None)}
         ELSE IF x.callee \notin names THEN {Move("fail", 0, "UnknownFunction")}
         ELSE {Move("call", 0, x.callee)}
    [] x.op = "Ret" ->
         {Move("return", 0, IF x.inputs = <<>> THEN <<>> ELSE IF r[1] = None THEN <<>> ELSE <<r[1]>>)}
    [] x.op \in {"Load", "Store"} -> {Move("next", 0, None)}

\* The effect of a move of module m.
Going(stack) == [stack |-> stack, returned |-> <<>>, done |-> FALSE, error |-> "none"]

Moved(m, s, move) ==
  LET frame == TopOf(s)
  IN  CASE move.kind = "next"  -> Going(WithTop(s, Past(frame)))
        [] move.kind = "fail"  -> [Going(WithTop(s, Past(frame))) EXCEPT !.error = move.x]
        [] move.kind = "write" -> Going(WithTop(s, Holding(Past(frame), move.id, move.x)))
        [] move.kind = "goto"  -> Going(WithTop(s, Gone(Past(frame), move.id)))
        [] move.kind = "call"  -> Going(Append(WithTop(s, Past(frame)), Sim(m)!EntryFrame(move.x)))
        [] move.kind = "return" -> [stack |-> Callers(s), returned |-> move.x,
                                    done |-> Len(s) = 1, error |-> "none"]

LEMMA MovedForms ==
  ASSUME NEW m, NEW s, NEW frame, frame = TopOf(s), NEW id, NEW x
  PROVE  /\ Moved(m, s, Move("next", id, x)) = Going(WithTop(s, Past(frame)))
         /\ Moved(m, s, Move("fail", id, x)) =
              [stack |-> WithTop(s, Past(frame)), returned |-> <<>>, done |-> FALSE, error |-> x]
         /\ Moved(m, s, Move("write", id, x)) = Going(WithTop(s, Holding(Past(frame), id, x)))
         /\ Moved(m, s, Move("goto", id, x)) = Going(WithTop(s, Gone(Past(frame), id)))
         /\ Moved(m, s, Move("call", id, x)) = Going(Append(WithTop(s, Past(frame)), Sim(m)!EntryFrame(x)))
         /\ Moved(m, s, Move("return", id, x)) =
              [stack |-> Callers(s), returned |-> x, done |-> Len(s) = 1, error |-> "none"]
  BY DEF Moved, Move, Going

LEMMA SimEffects ==
  ASSUME NEW m, NEW s, NEW error
  PROVE  /\ Sim(m)!Continue(s) = Going(s)
         /\ Sim(m)!Fail(s, error) = [stack |-> s, returned |-> <<>>, done |-> FALSE, error |-> error]
  BY DEF Sim!Continue, Sim!Fail, Sim!Effect, Going

\* Instructions that compute.
LEMMA ProducedMove ==
  ASSUME NEW m, NEW s \in Stacks, NEW x, NEW z
  PROVE  Sim(m)!Produce(Sim(m)!Advance(s), x, z) = Moved(m, s, Written(x, z))
<1> DEFINE frame == TopOf(s)
<1>1. /\ Sim(m)!Advance(s) = WithTop(s, Past(frame))
      /\ Sim(m)!WriteValue(Sim(m)!Advance(s), x.output, z) = WithTop(s, Holding(Past(frame), x.output, z))
  BY StackForms
<1>2. CASE z = Trap
  <2>1. Sim(m)!Produce(Sim(m)!Advance(s), x, z) = Sim(m)!Fail(Sim(m)!Advance(s), "killed")
    BY <1>2 DEF Sim!Produce
  <2>2. Written(x, z) = Move("fail", 0, "killed")
    BY <1>2 DEF Written
  <2>3. Moved(m, s, Move("fail", 0, "killed")) =
          [stack |-> WithTop(s, Past(frame)), returned |-> <<>>, done |-> FALSE, error |-> "killed"]
    BY MovedForms
  <2>4. Sim(m)!Fail(Sim(m)!Advance(s), "killed") =
          [stack |-> Sim(m)!Advance(s), returned |-> <<>>, done |-> FALSE, error |-> "killed"]
    BY SimEffects
  <2> QED BY <1>1, <2>1, <2>2, <2>3, <2>4
<1>3. CASE z # Trap
  <2>1. Sim(m)!Produce(Sim(m)!Advance(s), x, z) = Sim(m)!Continue(Sim(m)!WriteValue(Sim(m)!Advance(s), x.output, z))
    BY <1>3 DEF Sim!Produce
  <2>2. Written(x, z) = Move("write", x.output, z)
    BY <1>3 DEF Written
  <2> QED BY <1>1, <2>1, <2>2, SimEffects, MovedForms
<1> QED BY <1>2, <1>3

\* The operands of an instruction.
Operands(f, frame, x) == [k \in DOMAIN x.inputs |-> ReadIn(f, frame, x.inputs[k])]

LEMMA OperandForm ==
  ASSUME NEW m, NEW s \in Stacks, NEW f, f = Sim(m)!CachedFunction(TopOf(s).fn), NEW x \in Instr,
         NEW n \in Nat, ~(Len(x.inputs) < n)
  PROVE  \A k \in 1 .. n : /\ k \in DOMAIN x.inputs
                          /\ Sim(m)!ReadValue(Sim(m)!Advance(s), x.inputs[k]) = Operands(f, TopOf(s), x)[k]
<1> SUFFICES ASSUME NEW k \in 1 .. n
             PROVE  /\ k \in DOMAIN x.inputs
                    /\ Sim(m)!ReadValue(Sim(m)!Advance(s), x.inputs[k]) = Operands(f, TopOf(s), x)[k]
  OBVIOUS
<1>1. k \in DOMAIN x.inputs /\ x.inputs[k] \in Nat
  BY InstrParts
<1> QED BY <1>1, ReadForm DEF Operands

\* A handler that computes the results of an instruction from its operands.
Handled(m, s, x, r) ==
  IF ~Computes(x) THEN {Sim(m)!Continue(Sim(m)!Advance(s))}
  ELSE IF \E k \in 1 .. Arity(x.op) : r[k] = None
       THEN {Sim(m)!Fail(Sim(m)!Advance(s), "TypeMismatch")}
  ELSE IF x.op \in BinaryOp /\ DividesByZero(x.op, r[2])
       THEN {Sim(m)!Fail(Sim(m)!Advance(s), "DivisionByZero")}
  ELSE {Sim(m)!Produce(Sim(m)!Advance(s), x, z) : z \in Results(x, r)}

LEMMA ComputedMoves ==
  ASSUME NEW m, NEW s \in Stacks, NEW x, NEW r, NEW H, H = Handled(m, s, x, r)
  PROVE  H = {Moved(m, s, move) : move \in DataMoves(x, r)}
<1> DEFINE a == Sim(m)!Advance(s)
<1>1. a = WithTop(s, Past(TopOf(s)))
  BY StackForms
<1>2. Sim(m)!Continue(a) = Moved(m, s, Move("next", 0, None))
  BY <1>1, SimEffects, MovedForms
<1>3. ASSUME NEW e PROVE Sim(m)!Fail(a, e) = Moved(m, s, Move("fail", 0, e))
  <2>1. Moved(m, s, Move("fail", 0, e)) = [stack |-> a, returned |-> <<>>, done |-> FALSE, error |-> e]
    BY <1>1, MovedForms
  <2>2. Sim(m)!Fail(a, e) = [stack |-> a, returned |-> <<>>, done |-> FALSE, error |-> e]
    BY SimEffects
  <2> QED BY <2>1, <2>2
<1>4. \A z : Sim(m)!Produce(a, x, z) = Moved(m, s, Written(x, z))
  BY ProducedMove
<1> DEFINE missing  == \E k \in 1 .. Arity(x.op) : r[k] = None
           division == x.op \in BinaryOp /\ DividesByZero(x.op, r[2])
<1>0. H = IF ~Computes(x) THEN {Sim(m)!Continue(a)}
          ELSE IF missing THEN {Sim(m)!Fail(a, "TypeMismatch")}
          ELSE IF division THEN {Sim(m)!Fail(a, "DivisionByZero")}
          ELSE {Sim(m)!Produce(a, x, z) : z \in Results(x, r)}
  BY DEF Handled
<1>f. Failure(x, r) = IF missing THEN "TypeMismatch" ELSE IF division THEN "DivisionByZero" ELSE "none"
  BY DEF Failure
<1> HIDE DEF a, missing, division
<1>5. CASE ~Computes(x)
  <2>1. H = {Sim(m)!Continue(a)} /\ DataMoves(x, r) = {Move("next", 0, None)}
    BY <1>0, <1>5 DEF DataMoves
  <2> QED BY <2>1, <1>2
<1>6. CASE Computes(x) /\ missing
  <2>1. H = {Sim(m)!Fail(a, "TypeMismatch")} /\ DataMoves(x, r) = {Move("fail", 0, "TypeMismatch")}
    BY <1>0, <1>f, <1>6 DEF DataMoves
  <2> QED BY <2>1, <1>3
<1>7. CASE Computes(x) /\ ~missing /\ division
  <2>1. H = {Sim(m)!Fail(a, "DivisionByZero")} /\ DataMoves(x, r) = {Move("fail", 0, "DivisionByZero")}
    BY <1>0, <1>f, <1>7 DEF DataMoves
  <2> QED BY <2>1, <1>3
<1>8. CASE Computes(x) /\ ~missing /\ ~division
  <2>1. /\ H = {Sim(m)!Produce(a, x, z) : z \in Results(x, r)}
        /\ DataMoves(x, r) = {Written(x, z) : z \in Results(x, r)}
    BY <1>0, <1>f, <1>8 DEF DataMoves
  <2> QED BY <2>1, <1>4
<1> QED BY <1>5, <1>6, <1>7, <1>8

\* The handler of an instruction.
LEMMA HandlerOf ==
  ASSUME NEW m, NEW s, NEW x
  PROVE  /\ x.op = "Const" => Sim(m)!Handle(s, x) = Sim(m)!HandleConst(s, x)
         /\ x.op = "Copy" => Sim(m)!Handle(s, x) = Sim(m)!HandleCopy(s, x)
         /\ x.op \in BinaryOp => Sim(m)!Handle(s, x) = Sim(m)!HandleBinary(s, x)
         /\ x.op \in UnaryOp => Sim(m)!Handle(s, x) = Sim(m)!HandleUnary(s, x)
         /\ x.op = "Cmp" => Sim(m)!Handle(s, x) = Sim(m)!HandleCmp(s, x)
         /\ x.op = "Jmp" => Sim(m)!Handle(s, x) = Sim(m)!HandleJump(s, x)
         /\ x.op = "BrTrue" => Sim(m)!Handle(s, x) = Sim(m)!HandleBranch(s, x)
         /\ x.op = "Call" => Sim(m)!Handle(s, x) = Sim(m)!HandleCall(s, x)
         /\ x.op = "Ret" => Sim(m)!Handle(s, x) = Sim(m)!HandleRet(s, x)
         /\ x.op \in {"Load", "Store"} => Sim(m)!Handle(s, x) = {Sim(m)!Continue(s)}
  BY SameSets DEF Sim!Handle, BinaryOp, UnaryOp

LEMMA DataStep ==
  ASSUME NEW m, NEW s \in Stacks, NEW f, f = Sim(m)!CachedFunction(TopOf(s).fn), NEW x \in Instr,
         x.op \in DataOp
  PROVE  Sim(m)!Handle(Sim(m)!Advance(s), x) =
           {Moved(m, s, move) : move \in DataMoves(x, Operands(f, TopOf(s), x))}
<1> DEFINE a  == Sim(m)!Advance(s)
           r  == Operands(f, TopOf(s), x)
           r1 == Sim(m)!ReadValue(a, x.inputs[1])
           r2 == Sim(m)!ReadValue(a, x.inputs[2])
           o1 == [k \in 1 .. 1 |-> Sim(m)!ReadValue(a, x.inputs[k])]
           o2 == [k \in 1 .. 2 |-> Sim(m)!ReadValue(a, x.inputs[k])]
           H  == Sim(m)!Handle(a, x)
<1> SUFFICES H = Handled(m, s, x, r)
  BY ComputedMoves
<1>1. Len(x.inputs) \in Nat /\ x.constVal \in Optional(RegValue)
  BY InstrParts
<1>2. ASSUME ~(Len(x.inputs) < 1) PROVE r[1] = r1
  <2>1. 1 \in Nat /\ 1 \in 1 .. 1
    OBVIOUS
  <2> QED BY <1>2, <2>1, OperandForm
<1>3. ASSUME ~(Len(x.inputs) < 2) PROVE r[1] = r1 /\ r[2] = r2
  <2>1. 2 \in Nat /\ 1 \in 1 .. 2 /\ 2 \in 1 .. 2
    OBVIOUS
  <2> QED BY <1>3, <2>1, OperandForm
<1>4. /\ o1[1] = r1 /\ o2[1] = r1 /\ o2[2] = r2
      /\ (\E k \in 1 .. 1 : o1[k] = None) <=> r1 = None
      /\ (\E k \in 1 .. 2 : o2[k] = None) <=> r1 = None \/ r2 = None
      /\ (\E k \in 1 .. 1 : r[k] = None) <=> r[1] = None
      /\ (\E k \in 1 .. 2 : r[k] = None) <=> r[1] = None \/ r[2] = None
  <2>1. 1 .. 1 = {1} /\ 1 .. 2 = {1, 2}
    OBVIOUS
  <2> HIDE DEF r
  <2> QED BY <2>1
<1>5. CASE x.op = "Const"
  <2>1. H = Sim(m)!HandleConst(a, x)
    BY <1>5, HandlerOf
  <2>2. Results(x, r) = {x.constVal} /\ Arity(x.op) = 0 /\ x.op \notin BinaryOp
    BY <1>5 DEF Results, Arity, BinaryOp, UnaryOp
  <2>3. Computes(x) <=> None \notin {x.output, x.constVal}
    BY <1>1, <1>5, <2>2 DEF Computes
  <2>4. ~ \E k \in 1 .. 0 : r[k] = None
    OBVIOUS
  <2>5. Computes(x) => Sim(m)!Produce(a, x, x.constVal) = Sim(m)!Continue(Sim(m)!WriteValue(a, x.output, x.constVal))
    <3>1. Computes(x) => x.constVal # Trap
      BY <1>1, <1>5, ValueFacts DEF Computes, Optional
    <3> QED BY <3>1 DEF Sim!Produce
  <2>0. Handled(m, s, x, r) = IF Computes(x) THEN {Sim(m)!Produce(a, x, z) : z \in Results(x, r)}
                              ELSE {Sim(m)!Continue(a)}
    BY <2>2, <2>4 DEF Handled
  <2> HIDE DEF H, r, a
  <2>6. CASE Computes(x)
    <3>1. H = {Sim(m)!Produce(a, x, x.constVal)}
      BY <2>6, <2>1, <2>3, <2>5 DEF Sim!HandleConst
    <3> QED BY <3>1, <2>6, <2>2, <2>0
  <2>7. CASE ~Computes(x)
    <3>1. H = {Sim(m)!Continue(a)}
      BY <2>7, <2>1, <2>3 DEF Sim!HandleConst
    <3> QED BY <3>1, <2>7, <2>0
  <2> QED BY <2>6, <2>7
<1>6. CASE x.op = "Copy"
  <2>1. H = IF Len(x.inputs) < 1 \/ x.output = None THEN {Sim(m)!Continue(a)}
            ELSE IF \E k \in 1 .. 1 : o1[k] = None THEN {Sim(m)!Fail(a, "TypeMismatch")}
            ELSE {Sim(m)!Produce(a, x, o1[1])}
    BY <1>6, HandlerOf DEF Sim!HandleCopy, Sim!Compute
  <2>2. Arity(x.op) = 1 /\ x.op \notin BinaryOp /\ Results(x, r) = {r[1]}
    BY <1>6 DEF Arity, BinaryOp, UnaryOp, Results
  <2>3. ~Computes(x) <=> Len(x.inputs) < 1 \/ x.output = None
    BY <1>1, <1>6, <2>2 DEF Computes
  <2>4. Handled(m, s, x, r) = IF ~Computes(x) THEN {Sim(m)!Continue(a)}
                              ELSE IF \E k \in 1 .. 1 : r[k] = None THEN {Sim(m)!Fail(a, "TypeMismatch")}
                              ELSE {Sim(m)!Produce(a, x, z) : z \in Results(x, r)}
    BY <2>2 DEF Handled
  <2> HIDE DEF H, r, a, o1, o2, r1, r2
  <2> QED BY <1>2, <1>4, <2>1, <2>2, <2>3, <2>4
<1>7. CASE x.op \in UnaryOp
  <2>1. H = IF Len(x.inputs) < 1 \/ x.output = None THEN {Sim(m)!Continue(a)}
            ELSE IF \E k \in 1 .. 1 : o1[k] = None THEN {Sim(m)!Fail(a, "TypeMismatch")}
            ELSE {Sim(m)!Produce(a, x, ApplyUnaryOp(x.op, o1[1]))}
    BY <1>7, HandlerOf DEF Sim!HandleUnary, Sim!Compute
  <2>2. Arity(x.op) = 1 /\ x.op \notin BinaryOp /\ Results(x, r) = {ApplyUnaryOp(x.op, r[1])}
    BY <1>7 DEF Arity, BinaryOp, UnaryOp, Results
  <2>3. ~Computes(x) <=> Len(x.inputs) < 1 \/ x.output = None
    BY <1>1, <1>7, <2>2 DEF Computes, UnaryOp
  <2>4. Handled(m, s, x, r) = IF ~Computes(x) THEN {Sim(m)!Continue(a)}
                              ELSE IF \E k \in 1 .. 1 : r[k] = None THEN {Sim(m)!Fail(a, "TypeMismatch")}
                              ELSE {Sim(m)!Produce(a, x, z) : z \in Results(x, r)}
    BY <2>2 DEF Handled
  <2> HIDE DEF H, r, a, o1, o2, r1, r2
  <2> QED BY <1>2, <1>4, <2>1, <2>2, <2>3, <2>4
<1>8. CASE x.op \in BinaryOp
  <2>1. H = IF Len(x.inputs) < 2 \/ x.output = None THEN {Sim(m)!Continue(a)}
            ELSE IF \E k \in 1 .. 2 : o2[k] = None THEN {Sim(m)!Fail(a, "TypeMismatch")}
            ELSE IF DividesByZero(x.op, o2[2]) THEN {Sim(m)!Fail(a, "DivisionByZero")}
            ELSE {Sim(m)!Produce(a, x, z) : z \in ApplyBinaryOp(x.op, o2[1], o2[2])}
    BY <1>8, HandlerOf DEF Sim!HandleBinary, Sim!Compute
  <2>2. Arity(x.op) = 2 /\ Results(x, r) = ApplyBinaryOp(x.op, r[1], r[2])
    BY <1>8 DEF Arity, BinaryOp, UnaryOp, Results
  <2>3. ~Computes(x) <=> Len(x.inputs) < 2 \/ x.output = None
    BY <1>1, <1>8, <2>2 DEF Computes, BinaryOp
  <2>4. Handled(m, s, x, r) = IF ~Computes(x) THEN {Sim(m)!Continue(a)}
                              ELSE IF \E k \in 1 .. 2 : r[k] = None THEN {Sim(m)!Fail(a, "TypeMismatch")}
                              ELSE IF DividesByZero(x.op, r[2]) THEN {Sim(m)!Fail(a, "DivisionByZero")}
                              ELSE {Sim(m)!Produce(a, x, z) : z \in Results(x, r)}
    BY <1>8, <2>2 DEF Handled
  <2> HIDE DEF H, r, a, o1, o2, r1, r2
  <2>5. CASE Len(x.inputs) < 2 \/ x.output = None
    BY <2>1, <2>3, <2>4, <2>5
  <2>6. CASE ~(Len(x.inputs) < 2 \/ x.output = None)
    <3>1. r[1] = r1 /\ r[2] = r2 /\ r[1] = o2[1] /\ r[2] = o2[2]
      BY <2>6, <1>3, <1>4
    <3> QED BY <1>4, <2>1, <2>2, <2>3, <2>4, <2>6, <3>1
  <2> QED BY <2>5, <2>6
<1>9. CASE x.op = "Cmp"
  <2>1. H = IF x.cmpKind = None THEN {Sim(m)!Continue(a)}
            ELSE IF Len(x.inputs) < 2 \/ x.output = None THEN {Sim(m)!Continue(a)}
            ELSE IF \E k \in 1 .. 2 : o2[k] = None THEN {Sim(m)!Fail(a, "TypeMismatch")}
            ELSE {Sim(m)!Produce(a, x, ApplyComparison(x.cmpKind, o2[1], o2[2]))}
    BY <1>9, HandlerOf DEF Sim!HandleCmp, Sim!Compute
  <2>2. /\ Arity(x.op) = 2 /\ x.op \notin BinaryOp
        /\ Results(x, r) = {ApplyComparison(x.cmpKind, r[1], r[2])}
    BY <1>9 DEF Arity, BinaryOp, UnaryOp, Results
  <2>3. ~Computes(x) <=> x.cmpKind = None \/ Len(x.inputs) < 2 \/ x.output = None
    BY <1>1, <1>9, <2>2 DEF Computes
  <2>4. Handled(m, s, x, r) = IF ~Computes(x) THEN {Sim(m)!Continue(a)}
                              ELSE IF \E k \in 1 .. 2 : r[k] = None THEN {Sim(m)!Fail(a, "TypeMismatch")}
                              ELSE {Sim(m)!Produce(a, x, z) : z \in Results(x, r)}
    BY <2>2 DEF Handled
  <2> HIDE DEF H, r, a, o1, o2, r1, r2
  <2>5. CASE x.cmpKind = None \/ Len(x.inputs) < 2 \/ x.output = None
    BY <2>1, <2>3, <2>4, <2>5
  <2>6. CASE ~(x.cmpKind = None \/ Len(x.inputs) < 2 \/ x.output = None)
    <3>1. r[1] = r1 /\ r[2] = r2 /\ r[1] = o2[1] /\ r[2] = o2[2]
      BY <2>6, <1>3, <1>4
    <3> QED BY <1>4, <2>1, <2>2, <2>3, <2>4, <2>6, <3>1
  <2> QED BY <2>5, <2>6
<1> QED BY <1>5, <1>6, <1>7, <1>8, <1>9 DEF DataOp

LEMMA JumpStep ==
  ASSUME NEW m, NEW s \in Stacks, NEW target
  PROVE  Sim(m)!Continue(IF target = None THEN Sim(m)!Advance(s) ELSE Sim(m)!GoTo(Sim(m)!Advance(s), target))
           = Moved(m, s, JumpMove(target))
<1> DEFINE frame == TopOf(s)
<1>1. /\ Sim(m)!Advance(s) = WithTop(s, Past(frame))
      /\ Sim(m)!GoTo(Sim(m)!Advance(s), target) = WithTop(s, Gone(Past(frame), target))
  BY StackForms
<1>2. CASE target = None
  <2>1. JumpMove(target) = Move("next", 0, None)
    BY <1>2 DEF JumpMove
  <2> QED BY <1>1, <1>2, <2>1, SimEffects, MovedForms
<1>3. CASE target # None
  <2>1. JumpMove(target) = Move("goto", target, None)
    BY <1>3 DEF JumpMove
  <2> QED BY <1>1, <1>3, <2>1, SimEffects, MovedForms
<1> QED BY <1>2, <1>3

\* Instructions that do not compute.
LEMMA ControlStep ==
  ASSUME NEW m, NEW s \in Stacks, NEW f, f = Sim(m)!CachedFunction(TopOf(s).fn), NEW x \in Instr,
         x.op \notin DataOp, NEW r, r = Operands(f, TopOf(s), x)
  PROVE  Sim(m)!Handle(Sim(m)!Advance(s), x) =
           {Moved(m, s, move) : move \in Moves(Sim(m)!FunctionNames, x, r)}
<1> DEFINE a     == Sim(m)!Advance(s)
           H     == Sim(m)!Handle(a, x)
           names == Sim(m)!FunctionNames
<1> SUFFICES H = {Moved(m, s, move) : move \in Moves(names, x, r)}
  OBVIOUS
<1>1. /\ a = WithTop(s, Past(TopOf(s))) /\ Len(a) = Len(s) /\ Sim(m)!Pop(a) = Callers(s)
  BY StackForms
<1>2. Sim(m)!Continue(a) = Moved(m, s, Move("next", 0, None))
  <2>1. Moved(m, s, Move("next", 0, None)) = Going(WithTop(s, Past(TopOf(s))))
    BY MovedForms
  <2>2. Sim(m)!Continue(a) = Going(a)
    BY SimEffects
  <2> QED BY <1>1, <2>1, <2>2
<1>3. ASSUME NEW e PROVE Sim(m)!Fail(a, e) = Moved(m, s, Move("fail", 0, e))
  <2>1. Moved(m, s, Move("fail", 0, e)) = [stack |-> a, returned |-> <<>>, done |-> FALSE, error |-> e]
    BY <1>1, MovedForms
  <2>2. Sim(m)!Fail(a, e) = [stack |-> a, returned |-> <<>>, done |-> FALSE, error |-> e]
    BY SimEffects
  <2> QED BY <2>1, <2>2
<1>4. x.inputs # <<>> => Sim(m)!ReadValue(a, x.inputs[1]) = r[1]
  <2>1. x.inputs # <<>> => ~(Len(x.inputs) < 1)
    BY InstrParts
  <2>2. 1 \in Nat /\ 1 \in 1 .. 1
    OBVIOUS
  <2> QED BY <2>1, <2>2, OperandForm
<1>5. CASE x.op = "Jmp"
  <2>1. Moves(names, x, r) = {JumpMove(x.trueTarget)}
    BY <1>5 DEF Moves, DataOp, BinaryOp, UnaryOp
  <2>2. H = {Sim(m)!Continue(IF x.trueTarget = None THEN a ELSE Sim(m)!GoTo(a, x.trueTarget))}
    BY <1>5, HandlerOf DEF Sim!HandleJump
  <2>3. H = {Moved(m, s, JumpMove(x.trueTarget))}
    BY <2>2, JumpStep
  <2> HIDE DEF H, names
  <2> QED BY <2>1, <2>3
<1>6. CASE x.op = "BrTrue"
  <2> DEFINE target == IF Truth(r[1]) THEN x.trueTarget ELSE x.falseTarget
  <2>1. Moves(names, x, r) = IF x.inputs = <<>> THEN {Move("next", 0, None)}
                             ELSE IF r[1] = None THEN {Move("fail", 0, "TypeMismatch")}
                             ELSE {JumpMove(target)}
    BY <1>6 DEF Moves, DataOp, BinaryOp, UnaryOp
  <2>2. H = IF x.inputs = <<>> THEN {Sim(m)!Continue(a)}
            ELSE IF r[1] = None THEN {Sim(m)!Fail(a, "TypeMismatch")}
            ELSE {Sim(m)!Continue(IF target = None THEN a ELSE Sim(m)!GoTo(a, target))}
    BY <1>4, <1>6, HandlerOf DEF Sim!HandleBranch
  <2>3. Sim(m)!Continue(IF target = None THEN a ELSE Sim(m)!GoTo(a, target)) = Moved(m, s, JumpMove(target))
    <3> HIDE DEF target
    <3> QED BY JumpStep
  <2> HIDE DEF H, names, a, target
  <2>4. CASE x.inputs = <<>>
    BY <2>1, <2>2, <2>4, <1>2
  <2>5. CASE x.inputs # <<>> /\ r[1] = None
    <3>1. H = {Sim(m)!Fail(a, "TypeMismatch")} /\ Moves(names, x, r) = {Move("fail", 0, "TypeMismatch")}
      BY <2>1, <2>2, <2>5
    <3> QED BY <3>1, <1>3
  <2>6. CASE x.inputs # <<>> /\ r[1] # None
    <3>1. H = {Moved(m, s, JumpMove(target))} /\ Moves(names, x, r) = {JumpMove(target)}
      BY <2>1, <2>2, <2>3, <2>6
    <3> QED BY <3>1
  <2> QED BY <2>4, <2>5, <2>6
<1>7. CASE x.op = "Call"
  <2>1. Moves(names, x, r) = IF x.callee = None THEN {Move("next", 0, None)}
                             ELSE IF x.callee \notin names THEN {Move("fail", 0, "UnknownFunction")}
                             ELSE {Move("call", 0, x.callee)}
    BY <1>7 DEF Moves, DataOp, BinaryOp, UnaryOp
  <2>2. H = IF x.callee = None THEN {Sim(m)!Continue(a)}
            ELSE IF x.callee \notin names THEN {Sim(m)!Fail(a, "UnknownFunction")}
            ELSE {Sim(m)!Continue(Append(a, Sim(m)!EntryFrame(x.callee)))}
    BY <1>7, HandlerOf DEF Sim!HandleCall
  <2>3. Sim(m)!Continue(Append(a, Sim(m)!EntryFrame(x.callee))) = Moved(m, s, Move("call", 0, x.callee))
    <3>1. Moved(m, s, Move("call", 0, x.callee)) = Going(Append(WithTop(s, Past(TopOf(s))), Sim(m)!EntryFrame(x.callee)))
      BY MovedForms
    <3> QED BY <1>1, <3>1, SimEffects
  <2> HIDE DEF H, names, a
  <2>4. CASE x.callee = None
    BY <2>1, <2>2, <2>4, <1>2
  <2>5. CASE x.callee # None /\ x.callee \notin names
    <3>1. /\ H = {Sim(m)!Fail(a, "UnknownFunction")}
          /\ Moves(names, x, r) = {Move("fail", 0, "UnknownFunction")}
      BY <2>1, <2>2, <2>5
    <3> QED BY <3>1, <1>3
  <2>6. CASE x.callee # None /\ x.callee \in names
    <3>1. H = {Moved(m, s, Move("call", 0, x.callee))} /\ Moves(names, x, r) = {Move("call", 0, x.callee)}
      BY <2>1, <2>2, <2>3, <2>6
    <3> QED BY <3>1
  <2> QED BY <2>4, <2>5, <2>6
<1>8. CASE x.op = "Ret"
  <2> DEFINE out == IF x.inputs = <<>> THEN <<>> ELSE IF r[1] = None THEN <<>> ELSE <<r[1]>>
  <2>1. Moves(names, x, r) = {Move("return", 0, out)}
    BY <1>8 DEF Moves, DataOp, BinaryOp, UnaryOp
  <2>2. H = {[stack |-> Callers(s), returned |-> out, done |-> Len(s) = 1, error |-> "none"]}
    <3>1. H = Sim(m)!HandleRet(a, x)
      BY <1>8, HandlerOf
    <3>2. out = IF x.inputs = <<>> THEN <<>>
                ELSE IF Sim(m)!ReadValue(a, x.inputs[1]) = None THEN <<>> ELSE <<Sim(m)!ReadValue(a, x.inputs[1])>>
      BY <1>4
    <3> HIDE DEF H, out, a
    <3> QED BY <1>1, <3>1, <3>2 DEF Sim!HandleRet, Sim!Effect
  <2> HIDE DEF H, names, out
  <2>3. H = {Moved(m, s, Move("return", 0, out))}
    BY <2>2, MovedForms
  <2> QED BY <2>1, <2>3
<1>9. CASE x.op \in {"Load", "Store"}
  <2>1. Moves(names, x, r) = {Move("next", 0, None)}
    BY <1>9 DEF Moves, DataOp, BinaryOp, UnaryOp
  <2>2. H = {Sim(m)!Continue(a)}
    BY <1>9, HandlerOf
  <2> HIDE DEF H, names, a
  <2> QED BY <2>1, <2>2, <1>2
<1>10. x.op \in IROp
  BY InstrParts
<1> QED BY <1>5, <1>6, <1>7, <1>8, <1>9, <1>10 DEF IROp, DataOp

LEMMA HandleStep ==
  ASSUME NEW m, NEW s \in Stacks, NEW f, f = Sim(m)!CachedFunction(TopOf(s).fn), NEW x \in Instr
  PROVE  Sim(m)!Handle(Sim(m)!Advance(s), x) =
           {Moved(m, s, move) : move \in Moves(Sim(m)!FunctionNames, x, Operands(f, TopOf(s), x))}
<1> DEFINE r == Operands(f, TopOf(s), x)
<1>1. CASE x.op \in DataOp
  <2>1. Moves(Sim(m)!FunctionNames, x, r) = DataMoves(x, r)
    <3> HIDE DEF r
    <3> QED BY <1>1, Zenon DEF Moves, DataOp, BinaryOp, UnaryOp
  <2> QED BY <1>1, <2>1, DataStep
<1>2. CASE x.op \notin DataOp
  BY <1>2, ControlStep
<1> QED BY <1>1, <1>2

(***************************************************************************)
(* One step of an execution.                                               *)
(***************************************************************************)
StepErrors == {"TypeMismatch", "DivisionByZero", "UnknownFunction", "StackOverflow",
               "UnreachableInstruction", "killed"}

ValidModule(m) == /\ m \in Seq(Func) /\ DistinctIn(m)
                  /\ \A k \in DOMAIN m : UniqueIds(m[k])

Names(m) == {m[k].name : k \in DOMAIN m}

\* A block that ends without a terminator.
Ended(s) == IF Len(s) = 1 THEN [stack |-> s, returned |-> <<>>, done |-> TRUE, error |-> "none"]
            ELSE Going(Callers(s))

LEMMA BlockIsSome ==
  ASSUME NEW f \in Func, NEW b \in DOMAIN f.blocks
  PROVE  f.blocks[b] # None
<1>1. f.blocks[b] \in IRBlock(AllValues)
  BY FuncParts, ValueFacts DEF Block
<1> QED BY <1>1, TranslationAssumption

LEMMA StepAt ==
  ASSUME NEW m, ValidModule(m), NEW s \in Stacks, NEW k \in DOMAIN m, NEW f, f = m[k],
         NEW frame, frame = TopOf(s), f.name = frame.fn
  PROVE  /\ Len(s) > MaxCallDepth \/ ~IsBlockId(f, frame.block) =>
              \A e \in Sim(m)!StepOne(s) : e.error \in StepErrors
         /\ \A b \in DOMAIN f.blocks :
              (f.blocks[b].id = frame.block /\ ~(Len(s) > MaxCallDepth)) =>
                /\ frame.pc >= Len(f.blocks[b].instrs) => Sim(m)!StepOne(s) = {Ended(s)}
                /\ ~(frame.pc >= Len(f.blocks[b].instrs)) =>
                     /\ frame.pc + 1 \in DOMAIN f.blocks[b].instrs
                     /\ Sim(m)!StepOne(s) =
                          {Moved(m, s, move) :
                             move \in Moves(Names(m), InstrAt(f, b, frame.pc + 1),
                                            Operands(f, frame, InstrAt(f, b, frame.pc + 1)))}
<1> DEFINE block == Sim(m)!CachedBlock(frame.fn, frame.block)
<1>1. /\ frame \in SimFrame /\ frame.pc \in Nat /\ s # <<>> /\ Len(s) \in Nat
  BY StackParts, FrameForms
<1>2. /\ Sim(m)!Top(s) = frame /\ Sim(m)!Pop(s) = Callers(s)
  BY StackForms
<1>3. m \in Seq(Func) /\ DistinctIn(m) /\ UniqueIds(m[k]) /\ f \in Func
  BY DEF ValidModule
<1>4. /\ frame.fn \in Sim(m)!FunctionNames /\ Sim(m)!CachedFunction(frame.fn) = f
      /\ \A b \in DOMAIN f.blocks : f.blocks[b].id = frame.block => block = f.blocks[b]
      /\ ~IsBlockId(f, frame.block) => block = None
  BY <1>3, CachedParts
<1>5. Sim(m)!FunctionNames = Names(m)
  BY DEF Sim!FunctionNames, Names
<1>6. ASSUME NEW error, error \in StepErrors, NEW e, e \in {Sim(m)!Fail(s, error)}
      PROVE  e.error \in StepErrors
  BY <1>6, SimEffects
<1>7. CASE Len(s) > MaxCallDepth
  <2>1. Sim(m)!StepOne(s) = {Sim(m)!Fail(s, "StackOverflow")}
    BY <1>1, <1>7 DEF Sim!StepOne, Sim!TooDeep
  <2>2. "StackOverflow" \in StepErrors
    BY DEF StepErrors
  <2> QED BY <1>6, <1>7, <2>1, <2>2
<1>8. CASE ~(Len(s) > MaxCallDepth) /\ ~IsBlockId(f, frame.block)
  <2>1. Sim(m)!StepOne(s) = {Sim(m)!Fail(s, "UnreachableInstruction")}
    BY <1>1, <1>2, <1>4, <1>8 DEF Sim!StepOne, Sim!TooDeep
  <2>2. "UnreachableInstruction" \in StepErrors
    BY DEF StepErrors
  <2>3. \A b \in DOMAIN f.blocks : f.blocks[b].id # frame.block
    BY <1>8 DEF IsBlockId
  <2> QED BY <1>6, <1>8, <2>1, <2>2, <2>3
<1>9. CASE ~(Len(s) > MaxCallDepth) /\ IsBlockId(f, frame.block)
  <2> SUFFICES ASSUME NEW b \in DOMAIN f.blocks, f.blocks[b].id = frame.block
               PROVE  /\ frame.pc >= Len(f.blocks[b].instrs) => Sim(m)!StepOne(s) = {Ended(s)}
                      /\ ~(frame.pc >= Len(f.blocks[b].instrs)) =>
                           /\ frame.pc + 1 \in DOMAIN f.blocks[b].instrs
                           /\ Sim(m)!StepOne(s) =
                                {Moved(m, s, move) :
                                   move \in Moves(Names(m), InstrAt(f, b, frame.pc + 1),
                                                  Operands(f, frame, InstrAt(f, b, frame.pc + 1)))}
    BY <1>9
  <2> DEFINE x == InstrAt(f, b, frame.pc + 1)
  <2>1. block = f.blocks[b] /\ block # None
    BY <1>3, <1>4, BlockIsSome
  <2>2. Sim(m)!StepOne(s) = IF frame.pc >= Len(f.blocks[b].instrs) THEN Sim(m)!ImplicitReturn(s)
                            ELSE Sim(m)!Handle(Sim(m)!Advance(s), x)
    BY <1>1, <1>2, <1>4, <1>9, <2>1 DEF Sim!StepOne, Sim!TooDeep, InstrAt
  <2>3. Sim(m)!ImplicitReturn(s) = {Ended(s)}
    BY <1>2, SimEffects DEF Sim!ImplicitReturn, Sim!Effect, Ended
  <2>4. ASSUME ~(frame.pc >= Len(f.blocks[b].instrs))
        PROVE  /\ frame.pc + 1 \in DOMAIN f.blocks[b].instrs
               /\ Sim(m)!Handle(Sim(m)!Advance(s), x) =
                    {Moved(m, s, move) : move \in Moves(Names(m), x, Operands(f, frame, x))}
    <3>1. f.blocks[b].instrs \in Seq(Instr)
      BY <1>3, FuncParts DEF Block, Instr, IRBlock
    <3>2. frame.pc + 1 \in DOMAIN f.blocks[b].instrs
      BY <1>1, <2>4, <3>1
    <3>3. x \in Instr
      BY <3>1, <3>2 DEF InstrAt
    <3> HIDE DEF x
    <3>4. Sim(m)!Handle(Sim(m)!Advance(s), x) =
            {Moved(m, s, move) : move \in Moves(Sim(m)!FunctionNames, x, Operands(f, TopOf(s), x))}
      BY <1>4, <3>3, HandleStep
    <3> QED BY <1>5, <3>2, <3>4
  <2> QED BY <2>2, <2>3, <2>4
<1> QED BY <1>7, <1>8, <1>9

LEMMA OperandTypes ==
  ASSUME NEW f \in Func, NEW frame \in SimFrame
  PROVE  /\ \A v \in Nat : ValueOf(frame, v) \in Optional(AllValues)
         /\ \A v \in Nat : ReadIn(f, frame, v) \in Optional(AllValues)
         /\ \A x \in Instr : \A k \in DOMAIN x.inputs : Operands(f, frame, x)[k] \in Optional(AllValues)
<1>1. ASSUME NEW v \in Nat PROVE ValueOf(frame, v) \in Optional(AllValues)
  <2>1. frame.values \in Seq(Optional(AllValues))
    BY FrameForms
  <2>2. CASE v < Len(frame.values)
    <3>1. v + 1 \in DOMAIN frame.values
      BY <2>1, <2>2
    <3>2. frame.values[v + 1] \in Optional(AllValues)
      BY <2>1, <3>1
    <3> QED BY <2>2, <3>2 DEF ValueOf
  <2>3. CASE ~(v < Len(frame.values))
    BY <2>3 DEF ValueOf, Optional
  <2> QED BY <2>2, <2>3
<1>2. ASSUME NEW v \in Nat PROVE ReadIn(f, frame, v) \in Optional(AllValues)
  BY <1>1, ConstantType, ValueFacts DEF ReadIn
<1>3. ASSUME NEW x \in Instr, NEW k \in DOMAIN x.inputs
      PROVE  Operands(f, frame, x)[k] \in Optional(AllValues)
  <2>1. x.inputs[k] \in Nat
    BY InstrParts
  <2> QED BY <1>2, <2>1 DEF Operands
<1> QED BY <1>1, <1>2, <1>3

\* What an instruction that computes may write.
LEMMA ResultTypes ==
  ASSUME NEW x \in Instr, NEW r, \A k \in DOMAIN x.inputs : r[k] \in Optional(AllValues),
         x.op \in DataOp, Computes(x), Failure(x, r) = "none", NEW z \in Results(x, r)
  PROVE  z \in AllValues \cup {Trap}
<1>1. /\ Len(x.inputs) \in Nat /\ DOMAIN x.inputs = 1 .. Len(x.inputs) /\ ~(Len(x.inputs) < Arity(x.op))
      /\ x.constVal \in Optional(RegValue) /\ x.cmpKind \in Optional(CmpKind)
  BY InstrParts DEF Computes, Arity
<1>2. \A k \in 1 .. Arity(x.op) : r[k] # None
  BY DEF Failure
<1>3. CASE x.op = "Const"
  <2>1. z = x.constVal
    BY <1>3 DEF Results, BinaryOp, UnaryOp
  <2> QED BY <1>1, <1>3, <2>1, ValueFacts DEF Computes, Optional
<1>4. CASE x.op = "Copy"
  <2>1. Arity(x.op) = 1 /\ z = r[1]
    BY <1>4 DEF Results, BinaryOp, UnaryOp, Arity
  <2>2. 1 \in DOMAIN x.inputs /\ r[1] # None
    BY <1>1, <1>2, <2>1
  <2> QED BY <2>1, <2>2 DEF Optional
<1>5. CASE x.op \in UnaryOp
  <2>1. Arity(x.op) = 1 /\ z = ApplyUnaryOp(x.op, r[1])
    BY <1>5 DEF Results, BinaryOp, UnaryOp, Arity
  <2>2. 1 \in DOMAIN x.inputs /\ r[1] # None
    BY <1>1, <1>2, <2>1
  <2>3. r[1] \in AllValues
    BY <2>2 DEF Optional
  <2> QED BY <1>5, <2>1, <2>3, ResultFacts
<1>6. ASSUME x.op \in BinaryOp \cup {"Cmp"} PROVE r[1] \in AllValues /\ r[2] \in AllValues
  <2>1. Arity(x.op) = 2
    BY <1>6 DEF BinaryOp, Arity
  <2>2. 1 \in DOMAIN x.inputs /\ r[1] # None /\ 2 \in DOMAIN x.inputs /\ r[2] # None
    BY <1>1, <1>2, <2>1
  <2> QED BY <2>2 DEF Optional
<1>7. CASE x.op \in BinaryOp
  <2>1. z \in ApplyBinaryOp(x.op, r[1], r[2])
    BY <1>7 DEF Results, BinaryOp, UnaryOp
  <2>2. ~DividesByZero(x.op, r[2])
    BY <1>2, <1>7 DEF Failure
  <2> QED BY <1>6, <1>7, <2>1, <2>2, ResultFacts
<1>8. CASE x.op = "Cmp"
  <2>1. z = ApplyComparison(x.cmpKind, r[1], r[2]) /\ x.cmpKind \in CmpKind
    BY <1>1, <1>8 DEF Results, BinaryOp, UnaryOp, Computes, Optional
  <2> QED BY <1>6, <1>8, <2>1, ResultFacts
<1> QED BY <1>3, <1>4, <1>5, <1>7, <1>8 DEF DataOp

\* The kinds of moves, and the instructions that make them.
LEMMA MoveKinds ==
  ASSUME NEW names, NEW x \in Instr, NEW r, \A k \in DOMAIN x.inputs : r[k] \in Optional(AllValues),
         NEW move \in Moves(names, x, r)
  PROVE  \/ move = Move("next", 0, None)
         \/ \E error \in StepErrors : move = Move("fail", 0, error)
         \/ x.op \in DataOp /\ \E z \in AllValues : move = Move("write", x.output, z)
         \/ x.op \in {"Jmp", "BrTrue"} /\ \E t \in Targets(x) : move = Move("goto", t, None)
         \/ x.op = "Call" /\ \E name \in names : move = Move("call", 0, name)
         \/ x.op = "Ret" /\ \E out \in Seq(AllValues) : move = Move("return", 0, out)
<1>1. CASE x.op \in DataOp
  <2>1. move \in DataMoves(x, r)
    BY <1>1, Zenon DEF Moves, DataOp, BinaryOp, UnaryOp
  <2>2. CASE ~Computes(x)
    BY <2>1, <2>2 DEF DataMoves
  <2>3. CASE Computes(x) /\ Failure(x, r) # "none"
    <3>1. move = Move("fail", 0, Failure(x, r)) /\ Failure(x, r) \in StepErrors
      BY <2>1, <2>3 DEF DataMoves, Failure, StepErrors
    <3> QED BY <3>1
  <2>4. CASE Computes(x) /\ Failure(x, r) = "none"
    <3>1. PICK z \in Results(x, r) : move = Written(x, z)
      BY <2>1, <2>4 DEF DataMoves
    <3>2. z \in AllValues \cup {Trap}
      BY <1>1, <2>4, ResultTypes
    <3>3. "killed" \in StepErrors
      BY DEF StepErrors
    <3> QED BY <1>1, <3>1, <3>2, <3>3 DEF Written
  <2> QED BY <2>2, <2>3, <2>4
<1>2. ASSUME NEW target \in {x.trueTarget, x.falseTarget}, move = JumpMove(target), x.op \in {"Jmp", "BrTrue"}
      PROVE  move = Move("next", 0, None) \/ \E t \in Targets(x) : move = Move("goto", t, None)
  BY <1>2 DEF JumpMove, Targets
<1>3. x.inputs # <<>> => r[1] \in Optional(AllValues)
  BY InstrParts
<1>4. CASE x.op = "Jmp"
  <2>1. move = JumpMove(x.trueTarget)
    BY <1>4 DEF Moves, DataOp, BinaryOp, UnaryOp
  <2> QED BY <1>2, <1>4, <2>1
<1>5. CASE x.op = "BrTrue"
  <2>1. \/ move = Move("next", 0, None)
        \/ move = Move("fail", 0, "TypeMismatch")
        \/ move = JumpMove(x.trueTarget) \/ move = JumpMove(x.falseTarget)
    BY <1>5 DEF Moves, DataOp, BinaryOp, UnaryOp
  <2>2. "TypeMismatch" \in StepErrors
    BY DEF StepErrors
  <2> QED BY <1>2, <1>5, <2>1, <2>2
<1>6. CASE x.op = "Call"
  <2>1. \/ move = Move("next", 0, None)
        \/ move = Move("fail", 0, "UnknownFunction")
        \/ move = Move("call", 0, x.callee) /\ x.callee \in names
    BY <1>6 DEF Moves, DataOp, BinaryOp, UnaryOp
  <2>2. "UnknownFunction" \in StepErrors
    BY DEF StepErrors
  <2> QED BY <1>6, <2>1, <2>2
<1>7. CASE x.op = "Ret"
  <2>1. move = Move("return", 0, IF x.inputs = <<>> THEN <<>> ELSE IF r[1] = None THEN <<>> ELSE <<r[1]>>)
    BY <1>7 DEF Moves, DataOp, BinaryOp, UnaryOp
  <2>2. <<>> \in Seq(AllValues) /\ (x.inputs # <<>> /\ r[1] # None => <<r[1]>> \in Seq(AllValues))
    BY <1>3 DEF Optional
  <2> QED BY <1>7, <2>1, <2>2
<1>8. CASE x.op \in {"Load", "Store"}
  <2>1. move = Move("next", 0, None)
    BY <1>8 DEF Moves, DataOp, BinaryOp, UnaryOp
  <2> QED BY <2>1
<1>9. x.op \in IROp
  BY InstrParts
<1> QED BY <1>1, <1>4, <1>5, <1>6, <1>7, <1>8, <1>9 DEF IROp, DataOp

LEMMA FailingMove ==
  ASSUME NEW m, NEW s, NEW error
  PROVE  Moved(m, s, Move("fail", 0, error)).error = error
  BY MovedForms

\* A step fails with an error of its own, or does not fail.
LEMMA StepFails ==
  ASSUME NEW m, ValidModule(m), NEW s \in Stacks, NEW k \in DOMAIN m, m[k].name = TopOf(s).fn,
         NEW e \in Sim(m)!StepOne(s)
  PROVE  e.error \in StepErrors \cup {"none"}
<1> DEFINE f     == m[k]
           frame == TopOf(s)
<1>1. f \in Func /\ frame \in SimFrame
  BY StackParts DEF ValidModule
<1> HIDE DEF f, frame
<1>2. CASE Len(s) > MaxCallDepth \/ ~IsBlockId(f, frame.block)
  BY <1>2, StepAt DEF f, frame
<1>3. CASE ~(Len(s) > MaxCallDepth) /\ IsBlockId(f, frame.block)
  <2>1. PICK b \in DOMAIN f.blocks : f.blocks[b].id = frame.block
    BY <1>3 DEF IsBlockId
  <2>2. CASE frame.pc >= Len(f.blocks[b].instrs)
    <3>1. e = Ended(s)
      BY <1>3, <2>1, <2>2, StepAt DEF f, frame
    <3> QED BY <3>1 DEF Ended, Going
  <2>3. CASE ~(frame.pc >= Len(f.blocks[b].instrs))
    <3> DEFINE x == InstrAt(f, b, frame.pc + 1)
               r == Operands(f, frame, x)
    <3>1. /\ frame.pc + 1 \in DOMAIN f.blocks[b].instrs
          /\ Sim(m)!StepOne(s) = {Moved(m, s, move) : move \in Moves(Names(m), x, r)}
      BY <1>3, <2>1, <2>3, StepAt DEF f, frame
    <3>2. x \in Instr
      BY <1>1, <3>1, FuncParts
    <3>3. \A j \in DOMAIN x.inputs : r[j] \in Optional(AllValues)
      BY <1>1, <3>2, OperandTypes
    <3>4. PICK move \in Moves(Names(m), x, r) : e = Moved(m, s, move)
      BY <3>1
    <3> HIDE DEF x, r
    <3>5. \/ \E error \in StepErrors : move = Move("fail", 0, error)
          \/ move.kind \in {"next", "write", "goto", "call", "return"}
      BY <3>2, <3>3, MoveKinds DEF Move
    <3>6. CASE \E error \in StepErrors : move = Move("fail", 0, error)
      BY <3>4, <3>6, FailingMove
    <3>7. CASE move.kind \in {"next", "write", "goto", "call", "return"}
      BY <3>4, <3>7 DEF Moved, Going
    <3> QED BY <3>5, <3>6, <3>7
  <2> QED BY <2>2, <2>3
<1> QED BY <1>2, <1>3

(***************************************************************************)
(* Two frames, and two stacks, of the same function before and after.      *)
(***************************************************************************)
\* b and a hold the same values but for those that nothing reads in f, and
\* those that are constants of f, which either may not have written yet.
SameValues(f, b, a) ==
  \A v \in Nat :
    IF Constant(f, v) # None
    THEN ValueOf(b, v) \in {None, Constant(f, v)} /\ ValueOf(a, v) \in {None, Constant(f, v)}
    ELSE v \in UsedValueIds(f) => ValueOf(b, v) = ValueOf(a, v)

\* After n of the instructions ys, as after m of the instructions xs.
SamePoint(ys, p, m, n) == \A j \in DOMAIN ys : j <= n <=> p[j] <= m

SamePlace(s, f, b, a) ==
  /\ b.block = a.block
  /\ \A c \in DOMAIN s.blocks : s.blocks[c].id = b.block =>
       \E d \in DOMAIN f.blocks :
         /\ f.blocks[d].id = b.block
         /\ \E p : /\ Embeds(f, s.blocks[c].instrs, f.blocks[d].instrs, p)
                   /\ SamePoint(f.blocks[d].instrs, p, b.pc, a.pc)

SameFrame(S, F, b, a) ==
  /\ b.fn = a.fn
  /\ \E k \in DOMAIN S : S[k].name = b.fn /\ SameValues(F[k], b, a) /\ SamePlace(S[k], F[k], b, a)

SameStack(S, F, before_, after_) ==
  /\ before_ \in Stacks /\ after_ \in Stacks /\ Len(before_) = Len(after_)
  /\ \A i \in 1 .. Len(before_) : SameFrame(S, F, before_[i], after_[i])

\* F is what the optimizer has made of S.
Optimized(S, F) ==
  /\ ValidModule(S) /\ ValidModule(F) /\ Len(F) = Len(S)
  /\ \A k \in DOMAIN S :
       /\ Derived(S[k], F[k])
       /\ \A d \in DOMAIN F[k].blocks : BranchesLand(F[k], d)
       /\ S[k].blocks # <<>> => F[k].blocks # <<>> /\ F[k].blocks[1].id = S[k].blocks[1].id

\* The instruction that comes next before comes next after, or is missing.
LEMMA Meet ==
  ASSUME NEW f, NEW xs \in Seq(Instr), NEW ys \in Seq(Instr), NEW p, Embeds(f, xs, ys, p),
         NEW m \in Nat, NEW n \in Nat, SamePoint(ys, p, m, n)
  PROVE  /\ m >= Len(xs) => n >= Len(ys)
         /\ ~(m >= Len(xs)) =>
              \/ /\ n + 1 \in DOMAIN ys /\ ~(n >= Len(ys)) /\ Stands(f, xs[m + 1], ys[n + 1])
                 /\ SamePoint(ys, p, m + 1, n + 1)
              \/ Elided(f, xs[m + 1]) /\ SamePoint(ys, p, m + 1, n)
<1>1. /\ Len(xs) \in Nat /\ Len(ys) \in Nat /\ DOMAIN xs = 1 .. Len(xs) /\ DOMAIN ys = 1 .. Len(ys)
  OBVIOUS
<1>2. \A j \in DOMAIN ys : p[j] \in DOMAIN xs /\ Stands(f, xs[p[j]], ys[j])
  BY DEF Embeds
<1>3. \A i, j \in DOMAIN ys : i < j => p[i] < p[j]
  BY DEF Embeds
<1>4. \A j \in DOMAIN ys : j <= n <=> p[j] <= m
  BY DEF SamePoint
<1>5. ASSUME m >= Len(xs) PROVE n >= Len(ys)
  <2> SUFFICES ASSUME ~(n >= Len(ys)) PROVE FALSE
    OBVIOUS
  <2>1. n + 1 \in DOMAIN ys
    BY <1>1
  <2>2. p[n + 1] <= m
    BY <1>1, <1>2, <1>5, <2>1
  <2>3. n + 1 <= n
    BY <1>4, <2>1, <2>2
  <2> QED BY <2>3
<1>6. ASSUME ~(m >= Len(xs)), NEW j \in DOMAIN ys, p[j] = m + 1
      PROVE  /\ n + 1 \in DOMAIN ys /\ ~(n >= Len(ys)) /\ Stands(f, xs[m + 1], ys[n + 1])
             /\ SamePoint(ys, p, m + 1, n + 1)
  <2>1. j \in Nat /\ j > n
    BY <1>1, <1>4, <1>6
  <2>2. j = n + 1
    <3> SUFFICES ASSUME n + 1 < j PROVE FALSE
      BY <2>1
    <3>1. n + 1 \in DOMAIN ys
      BY <1>1, <2>1
    <3>2. p[n + 1] < p[j] /\ p[n + 1] \in Nat
      BY <1>1, <1>2, <1>3, <3>1
    <3>3. p[n + 1] <= m
      BY <1>6, <3>2
    <3>4. n + 1 <= n
      BY <1>4, <3>1, <3>3
    <3> QED BY <3>4
  <2>3. ASSUME NEW i \in DOMAIN ys PROVE i <= n + 1 <=> p[i] <= m + 1
    <3>1. i \in Nat /\ p[i] \in Nat
      BY <1>1, <1>2
    <3>2. CASE i < j
      BY <1>3, <1>6, <2>2, <3>1, <3>2
    <3>3. CASE i = j
      BY <1>6, <2>2, <3>1, <3>3
    <3>4. CASE i > j
      <4>1. p[j] < p[i]
        BY <1>3, <3>4
      <4> QED BY <4>1, <1>6, <2>2, <3>1, <3>4
    <3> QED BY <2>1, <3>1, <3>2, <3>3, <3>4
  <2>4. Stands(f, xs[m + 1], ys[n + 1])
    BY <1>2, <1>6, <2>2
  <2>5. ~(n >= Len(ys))
    BY <1>1, <1>6, <2>2
  <2> QED BY <1>6, <2>2, <2>3, <2>4, <2>5 DEF SamePoint
<1>7. ASSUME ~(m >= Len(xs)), ~ \E j \in DOMAIN ys : p[j] = m + 1
      PROVE  Elided(f, xs[m + 1]) /\ SamePoint(ys, p, m + 1, n)
  <2>1. m + 1 \in DOMAIN xs
    BY <1>1, <1>7
  <2>2. Elided(f, xs[m + 1])
    BY <1>7, <2>1 DEF Embeds
  <2>3. ASSUME NEW j \in DOMAIN ys PROVE j <= n <=> p[j] <= m + 1
    <3>1. p[j] \in Nat /\ p[j] # m + 1
      BY <1>1, <1>2, <1>7
    <3>2. p[j] <= m <=> p[j] <= m + 1
      BY <3>1
    <3> QED BY <1>4, <3>2
  <2> QED BY <2>2, <2>3 DEF SamePoint
<1> QED BY <1>5, <1>6, <1>7

\* What is read before is what is read after, or nothing.
LEMMA Reads ==
  ASSUME NEW s, NEW f, KeepsConstants(s, f), NEW b, NEW a, SameValues(f, b, a), NEW v \in Nat
  PROVE  /\ Constant(f, v) # None =>
              ReadIn(f, a, v) = Constant(f, v) /\ ReadIn(s, b, v) \in {None, Constant(f, v)}
         /\ v \in UsedValueIds(f) =>
              /\ ReadIn(s, b, v) \in {None, ReadIn(f, a, v)}
              /\ Constant(f, v) = None => ReadIn(s, b, v) = ReadIn(f, a, v)
<1>1. Constant(s, v) \in {None, Constant(f, v)}
  BY DEF KeepsConstants
<1>2. CASE Constant(f, v) # None
  BY <1>1, <1>2 DEF SameValues, ReadIn
<1>3. CASE Constant(f, v) = None
  BY <1>1, <1>3 DEF SameValues, ReadIn
<1> QED BY <1>2, <1>3

\* At the beginning of a block.
LEMMA Arrive ==
  ASSUME NEW s \in Func, UniqueIds(s), NEW f \in Func, Derived(s, f), NEW b, NEW a,
         b.block = a.block, b.pc = 0, a.pc = 0, IsBlockId(f, b.block)
  PROVE  SamePlace(s, f, b, a)
<1> SUFFICES ASSUME NEW c \in DOMAIN s.blocks, s.blocks[c].id = b.block
             PROVE  \E d \in DOMAIN f.blocks :
                      /\ f.blocks[d].id = b.block
                      /\ \E p : /\ Embeds(f, s.blocks[c].instrs, f.blocks[d].instrs, p)
                                /\ SamePoint(f.blocks[d].instrs, p, b.pc, a.pc)
  BY DEF SamePlace
<1>1. PICK d \in DOMAIN f.blocks : f.blocks[d].id = b.block
  BY DEF IsBlockId
<1>2. HasOrigin(s, f, f.blocks[d])
  BY DEF Derived
<1>3. PICK e \in DOMAIN s.blocks :
        /\ s.blocks[e].id = f.blocks[d].id
        /\ \E p : Embeds(f, s.blocks[e].instrs, f.blocks[d].instrs, p)
  BY <1>2 DEF HasOrigin
<1>4. e = c
  BY <1>1, <1>3 DEF UniqueIds
<1>5. PICK p : Embeds(f, s.blocks[c].instrs, f.blocks[d].instrs, p)
  BY <1>3, <1>4
<1> DEFINE xs == s.blocks[c].instrs
           ys == f.blocks[d].instrs
<1>6. DOMAIN xs \subseteq Nat \ {0} /\ DOMAIN ys \subseteq Nat \ {0}
  <2>1. xs \in Seq(Instr) /\ ys \in Seq(Instr)
    BY FuncParts DEF Block, Instr, IRBlock
  <2> HIDE DEF xs, ys
  <2> QED BY <2>1
<1>7. SamePoint(ys, p, b.pc, a.pc)
  <2>1. \A j \in DOMAIN ys : p[j] \in DOMAIN xs
    BY <1>5 DEF Embeds
  <2> HIDE DEF xs, ys
  <2> QED BY <1>6, <2>1 DEF SamePoint
<1> QED BY <1>1, <1>5, <1>7

LEMMA Enter ==
  ASSUME NEW S, NEW F, Optimized(S, F), NEW name \in Names(S),
         NEW b, b = Sim(S)!EntryFrame(name), NEW a, a = Sim(F)!EntryFrame(name)
  PROVE  b \in SimFrame /\ a \in SimFrame /\ SameFrame(S, F, b, a)
<1>1. PICK k \in DOMAIN S : S[k].name = name
  BY DEF Names
<1>2. /\ S \in Seq(Func) /\ F \in Seq(Func) /\ k \in DOMAIN F /\ Len(F) = Len(S)
      /\ DistinctIn(S) /\ DistinctIn(F) /\ UniqueIds(S[k]) /\ UniqueIds(F[k])
  BY DEF Optimized, ValidModule
<1> DEFINE s == S[k]
           f == F[k]
<1>3. /\ s \in Func /\ f \in Func /\ Derived(s, f) /\ f.name = name /\ s.name = name
      /\ s.blocks # <<>> => f.blocks # <<>> /\ f.blocks[1].id = s.blocks[1].id
  BY <1>1, <1>2 DEF Optimized, Derived
<1>4. Sim(S)!CachedFunction(name) = s /\ Sim(F)!CachedFunction(name) = f
  BY <1>2, <1>3, CachedParts
<1> HIDE DEF s, f
<1> DEFINE nothing(g) == [v \in 1 .. Len(g.values) |-> None]
           entry(g)   == IF g.blocks = <<>> THEN 0 ELSE g.blocks[1].id
<1>5. ASSUME NEW g \in Func
      PROVE  [fn |-> name, values |-> nothing(g), block |-> entry(g), pc |-> 0] \in SimFrame
  <2>1. g.values \in Seq(Optional(RegValue)) /\ g.blocks \in Seq(Block)
    BY FuncParts
  <2>2. nothing(g) \in Seq(Optional(AllValues))
    BY <2>1 DEF Optional
  <2>3. entry(g) \in Nat
    <3>1. CASE g.blocks # <<>>
      <4>1. g.blocks[1] \in Block
        BY <2>1, <3>1
      <4> QED BY <3>1, <4>1 DEF Block, IRBlock
    <3> QED BY <3>1
  <2>4. name \in STRING
    BY <1>3 DEF Func
  <2> HIDE DEF nothing, entry
  <2> QED BY <2>2, <2>3, <2>4 DEF SimFrame
<1>6. /\ b = [fn |-> name, values |-> nothing(s), block |-> entry(s), pc |-> 0]
      /\ a = [fn |-> name, values |-> nothing(f), block |-> entry(f), pc |-> 0]
  BY <1>4 DEF Sim!EntryFrame
<1>7. ASSUME NEW g \in Func, NEW v \in Nat, NEW frame, frame.values = nothing(g)
      PROVE  ValueOf(frame, v) = None
  <2>1. Len(g.values) \in Nat
    BY FuncParts
  <2>2. Len(nothing(g)) = Len(g.values)
    BY <2>1
  <2> QED BY <1>7, <2>1, <2>2 DEF ValueOf
<1>8. SameValues(f, b, a)
  <2>1. \A v \in Nat : ValueOf(b, v) = None /\ ValueOf(a, v) = None
    <3>1. b.values = nothing(s) /\ a.values = nothing(f)
      BY <1>6
    <3> HIDE DEF nothing
    <3> QED BY <1>3, <1>7, <3>1
  <2> QED BY <2>1 DEF SameValues
<1>9. SamePlace(s, f, b, a)
  <2>1. CASE s.blocks = <<>>
    <3>1. DOMAIN s.blocks = {}
      BY <2>1
    <3>2. f.blocks = <<>>
      <4> SUFFICES ASSUME f.blocks # <<>> PROVE FALSE
        OBVIOUS
      <4>1. 1 \in DOMAIN f.blocks
        BY <1>3, FuncParts
      <4>2. HasOrigin(s, f, f.blocks[1])
        BY <1>3, <4>1 DEF Derived
      <4> QED BY <3>1, <4>2 DEF HasOrigin
    <3> QED BY <1>6, <2>1, <3>1, <3>2 DEF SamePlace
  <2>2. CASE s.blocks # <<>>
    <3>1. 1 \in DOMAIN f.blocks /\ entry(f) = f.blocks[1].id /\ entry(s) = entry(f)
      BY <1>3, <2>2, FuncParts
    <3>2. b.block = a.block /\ b.pc = 0 /\ a.pc = 0 /\ b.block = f.blocks[1].id
      BY <1>6, <3>1
    <3>3. IsBlockId(f, b.block)
      BY <3>1, <3>2 DEF IsBlockId
    <3>4. UniqueIds(s)
      BY <1>2 DEF s
    <3> QED BY <1>3, <3>2, <3>3, <3>4, Arrive
  <2> QED BY <2>1, <2>2
<1>10. b \in SimFrame /\ a \in SimFrame
  BY <1>3, <1>5, <1>6
<1>11. b.fn = name /\ a.fn = name
  BY <1>6
<1>12. SameFrame(S, F, b, a)
  <2>1. SameValues(F[k], b, a) /\ SamePlace(S[k], F[k], b, a)
    BY <1>8, <1>9 DEF s, f
  <2> QED BY <1>1, <1>11, <2>1 DEF SameFrame
<1> QED BY <1>10, <1>12

\* A value with a constant in f is written in s with that constant, if at all.
LEMMA JustifiedResult ==
  ASSUME NEW s \in Func, NEW f \in Func, KeepsConstants(s, f), Justified(s, f),
         NEW b \in SimFrame, NEW a \in SimFrame, SameValues(f, b, a),
         NEW d \in DOMAIN s.blocks, NEW i \in DOMAIN s.blocks[d].instrs, NEW x, x = InstrAt(s, d, i),
         x.output # None, NEW c, c = Constant(f, x.output), c # None, NEW r, r = Operands(s, b, x)
  PROVE  /\ x.op \in DataOp /\ Computes(x) /\ c \in AllValues
         /\ Failure(x, r) = "none" => c \in Results(x, r)
<1>1. x \in Instr
  BY FuncParts
<1>2. /\ Len(x.inputs) \in Nat /\ DOMAIN x.inputs = 1 .. Len(x.inputs) /\ x.op \in IROp
      /\ x.cmpKind \in Optional(CmpKind) /\ x.output \in Nat
      /\ \A k \in DOMAIN x.inputs : x.inputs[k] \in Nat
  BY <1>1, InstrParts DEF Optional
<1>3. c \in AllValues
  BY <1>2, ConstantType, ValueFacts DEF Optional
<1>4. \/ x.op = "Const" /\ x.constVal = c
      \/ c \in Folded(f, x)
  BY DEF Justified
<1>5. CASE x.op = "Const" /\ x.constVal = c
  <2>1. Arity(x.op) = 0 /\ x.op \in DataOp /\ Results(x, r) = {c}
    BY <1>5 DEF Arity, DataOp, Results, BinaryOp, UnaryOp
  <2>2. Computes(x)
    BY <1>2, <1>5, <2>1 DEF Computes
  <2> QED BY <1>3, <2>1, <2>2
<1>6. CASE c \in Folded(f, x)
  <2> DEFINE o(k) == Constant(f, x.inputs[k])
  <2>1. /\ x.inputs # <<>> /\ x.op \in FoldableOp /\ \A k \in DOMAIN x.inputs : o(k) # None
        /\ \/ Len(x.inputs) = 1 /\ c = FoldUnary1(x.op, o(1))
           \/ Len(x.inputs) = 2 /\ IsInt(o(1)) /\ IsInt(o(2)) /\ c \in FoldBinary(x.op, x.cmpKind, o(1), o(2))
    BY <1>6 DEF Folded
  <2>2. ASSUME NEW k \in DOMAIN x.inputs PROVE o(k) \in AllValues /\ r[k] \in {None, o(k)}
    <3>1. o(k) # None /\ x.inputs[k] \in Nat
      BY <1>2, <2>1
    <3>2. o(k) \in AllValues
      BY <3>1, ConstantType, ValueFacts DEF Optional
    <3>3. ReadIn(s, b, x.inputs[k]) \in {None, o(k)}
      BY <3>1, Reads
    <3> QED BY <3>2, <3>3 DEF Operands
  <2>3. FoldsAsExecuted
    BY TranslationAssumption
  <2> HIDE DEF o
  <2>4. CASE Len(x.inputs) = 1 /\ c = FoldUnary1(x.op, o(1))
    <3>1. 1 \in DOMAIN x.inputs
      BY <1>2, <2>4
    <3>2. o(1) \in AllValues /\ r[1] \in {None, o(1)}
      BY <2>2, <3>1
    <3>3. x.op \in UnaryOp /\ c = ApplyUnaryOp(x.op, o(1))
      BY <2>1, <2>3, <2>4, <3>2 DEF FoldsAsExecuted
    <3>4. Arity(x.op) = 1 /\ x.op \in DataOp /\ Results(x, r) = {ApplyUnaryOp(x.op, r[1])}
      BY <3>3 DEF Arity, DataOp, Results, BinaryOp, UnaryOp
    <3>5. Computes(x)
      BY <1>2, <2>4, <3>3, <3>4 DEF Computes, UnaryOp
    <3>6. Failure(x, r) = "none" => r[1] # None
      BY <3>4 DEF Failure
    <3> QED BY <1>3, <3>2, <3>3, <3>4, <3>5, <3>6
  <2>5. CASE /\ Len(x.inputs) = 2 /\ IsInt(o(1)) /\ IsInt(o(2))
             /\ c \in FoldBinary(x.op, x.cmpKind, o(1), o(2))
    <3>1. 1 \in DOMAIN x.inputs /\ 2 \in DOMAIN x.inputs
      BY <1>2, <2>5
    <3>2. o(1) \in AllValues /\ r[1] \in {None, o(1)} /\ o(2) \in AllValues /\ r[2] \in {None, o(2)}
      BY <2>2, <3>1
    <3>3. ASSUME x.op \in BinaryOp \cup {"Cmp"}
          PROVE  /\ x.op \in DataOp /\ Arity(x.op) = 2
                 /\ Failure(x, r) = "none" => r[1] = o(1) /\ r[2] = o(2)
      <4>1. x.op \in DataOp /\ Arity(x.op) = 2
        BY <3>3 DEF Arity, DataOp, BinaryOp
      <4>2. 1 \in 1 .. 2 /\ 2 \in 1 .. 2
        OBVIOUS
      <4>3. Failure(x, r) = "none" => r[1] # None /\ r[2] # None
        BY <4>1, <4>2 DEF Failure
      <4> QED BY <3>2, <4>1, <4>3
    <3>4. CASE DividesByZero(x.op, o(2))
      <4>1. x.op \in {"Div", "Mod"}
        BY <3>4 DEF DividesByZero
      <4>2. x.op \in BinaryOp
        BY <4>1 DEF BinaryOp
      <4>3. Failure(x, r) # "none"
        <5> SUFFICES ASSUME Failure(x, r) = "none" PROVE FALSE
          OBVIOUS
        <5>1. r[2] = o(2)
          BY <3>3, <4>2
        <5>2. ~DividesByZero(x.op, r[2])
          BY <4>2 DEF Failure
        <5> QED BY <3>4, <5>1, <5>2
      <4>4. Computes(x)
        BY <1>2, <2>5, <3>3, <4>1, <4>2 DEF Computes
      <4> QED BY <1>3, <3>3, <4>2, <4>3, <4>4
    <3>5. CASE ~DividesByZero(x.op, o(2))
      <4>1. c \in FoldBinary(x.op, x.cmpKind, o(1), o(2)) \ {None, Trap}
        BY <1>3, <2>5, ValueFacts
      <4>2. \/ x.op \in BinaryOp /\ c \in ApplyBinaryOp(x.op, o(1), o(2))
            \/ x.op = "Cmp" /\ x.cmpKind # None /\ c = ApplyComparison(x.cmpKind, o(1), o(2))
        BY <1>2, <2>1, <2>3, <2>5, <3>2, <3>5, <4>1 DEF FoldsAsExecuted
      <4>3. CASE x.op \in BinaryOp /\ c \in ApplyBinaryOp(x.op, o(1), o(2))
        <5>1. Results(x, r) = ApplyBinaryOp(x.op, r[1], r[2]) /\ x.op # "Const" /\ x.op # "Cmp"
          BY <4>3 DEF Results, BinaryOp, UnaryOp
        <5>2. Computes(x)
          BY <1>2, <2>5, <3>3, <4>3, <5>1 DEF Computes
        <5> QED BY <1>3, <3>3, <4>3, <5>1, <5>2
      <4>4. CASE x.op = "Cmp" /\ x.cmpKind # None /\ c = ApplyComparison(x.cmpKind, o(1), o(2))
        <5>1. Results(x, r) = {ApplyComparison(x.cmpKind, r[1], r[2])}
          BY <4>4 DEF Results, BinaryOp, UnaryOp
        <5>2. Computes(x)
          BY <1>2, <2>5, <3>3, <4>4 DEF Computes
        <5> QED BY <1>3, <3>3, <4>4, <5>1, <5>2
      <4> QED BY <4>2, <4>3, <4>4
    <3> QED BY <3>4, <3>5
  <2> QED BY <2>1, <2>4, <2>5
<1> QED BY <1>4, <1>5, <1>6

\* The same, as a move that does not fail.
LEMMA JustifiedMove ==
  ASSUME NEW s \in Func, NEW f \in Func, KeepsConstants(s, f), Justified(s, f),
         NEW b \in SimFrame, NEW a \in SimFrame, SameValues(f, b, a),
         NEW d \in DOMAIN s.blocks, NEW i \in DOMAIN s.blocks[d].instrs, NEW x, x = InstrAt(s, d, i),
         x.output # None, NEW c, c = Constant(f, x.output), c # None, NEW r, r = Operands(s, b, x),
         NEW names, \A move \in Moves(names, x, r) : move.kind # "fail"
  PROVE  Move("write", x.output, c) \in Moves(names, x, r) /\ c \in AllValues
<1>1. /\ x.op \in DataOp /\ Computes(x) /\ c \in AllValues
      /\ Failure(x, r) = "none" => c \in Results(x, r)
  BY JustifiedResult
<1>2. Moves(names, x, r) = DataMoves(x, r)
  BY <1>1, Zenon DEF Moves, DataOp, BinaryOp, UnaryOp
<1>3. Failure(x, r) = "none"
  <2> SUFFICES ASSUME Failure(x, r) # "none" PROVE FALSE
    OBVIOUS
  <2>1. Move("fail", 0, Failure(x, r)) \in Moves(names, x, r)
    BY <1>1, <1>2 DEF DataMoves
  <2>2. Move("fail", 0, Failure(x, r)).kind = "fail"
    BY DEF Move
  <2> QED BY <2>1, <2>2
<1>4. Written(x, c) \in Moves(names, x, r)
  BY <1>1, <1>2, <1>3 DEF DataMoves
<1>5. Written(x, c) = Move("write", x.output, c)
  BY <1>1, ValueFacts DEF Written
<1> QED BY <1>1, <1>4, <1>5

LEMMA SameResults ==
  ASSUME NEW x, x.op \in DataOp, NEW q, NEW r, \A k \in 1 .. Arity(x.op) : q[k] = r[k]
  PROVE  Results(x, q) = Results(x, r) /\ Failure(x, q) = Failure(x, r)
<1>1. /\ x.op \in BinaryOp \cup {"Cmp"} => Arity(x.op) = 2
      /\ x.op \in UnaryOp \cup {"Copy"} => Arity(x.op) = 1
  BY DEF Arity, BinaryOp, UnaryOp
<1>2. 1 \in 1 .. 1 /\ 1 \in 1 .. 2 /\ 2 \in 1 .. 2
  OBVIOUS
<1>3. /\ x.op \in BinaryOp \cup {"Cmp"} => q[1] = r[1] /\ q[2] = r[2]
      /\ x.op \in UnaryOp \cup {"Copy"} => q[1] = r[1]
  BY <1>1, <1>2
<1>4. Results(x, q) = Results(x, r)
  BY <1>3 DEF Results, DataOp, BinaryOp, UnaryOp
<1>5. (\E k \in 1 .. Arity(x.op) : q[k] = None) <=> \E k \in 1 .. Arity(x.op) : r[k] = None
  OBVIOUS
<1>6. (x.op \in BinaryOp /\ DividesByZero(x.op, q[2])) <=> (x.op \in BinaryOp /\ DividesByZero(x.op, r[2]))
  BY <1>3
<1>7. Failure(x, q) = Failure(x, r)
  <2> DEFINE missing(t) == \E k \in 1 .. Arity(x.op) : t[k] = None
             division(t) == x.op \in BinaryOp /\ DividesByZero(x.op, t[2])
  <2>1. \A t : Failure(x, t) = IF missing(t) THEN "TypeMismatch" ELSE IF division(t) THEN "DivisionByZero" ELSE "none"
    BY DEF Failure
  <2>2. missing(q) <=> missing(r)
    BY <1>5
  <2>3. division(q) <=> division(r)
    BY <1>6
  <2> HIDE DEF missing, division
  <2> QED BY <2>1, <2>2, <2>3
<1> QED BY <1>4, <1>7

LEMMA NoFailure ==
  ASSUME NEW names, NEW x, x.op \in DataOp, Computes(x), NEW r,
         \A move \in Moves(names, x, r) : move.kind # "fail"
  PROVE  Failure(x, r) = "none" /\ \A k \in 1 .. Arity(x.op) : r[k] # None
<1>1. Moves(names, x, r) = DataMoves(x, r)
  BY Zenon DEF Moves, DataOp, BinaryOp, UnaryOp
<1>2. Failure(x, r) = "none"
  <2> SUFFICES ASSUME Failure(x, r) # "none" PROVE FALSE
    OBVIOUS
  <2>1. Move("fail", 0, Failure(x, r)) \in Moves(names, x, r)
    BY <1>1 DEF DataMoves
  <2>2. Move("fail", 0, Failure(x, r)).kind = "fail"
    BY DEF Move
  <2> QED BY <2>1, <2>2
<1> QED BY <1>2 DEF Failure

\* An instruction that was left alone.
LEMMA KeptMoves ==
  ASSUME NEW names, NEW x \in Instr, NEW q, NEW r,
         \A k \in DOMAIN x.inputs : r[k] \in {None, q[k]},
         \A move \in Moves(names, x, r) : move.kind # "fail",
         x.op = "Ret" /\ x.inputs # <<>> => r[1] = q[1]
  PROVE  Moves(names, x, q) = Moves(names, x, r)
<1>0. Len(x.inputs) \in Nat /\ DOMAIN x.inputs = 1 .. Len(x.inputs) /\ x.op \in IROp
  BY InstrParts
<1>1. CASE x.op \in DataOp
  <2>1. Moves(names, x, r) = DataMoves(x, r) /\ Moves(names, x, q) = DataMoves(x, q)
    BY <1>1, Zenon DEF Moves, DataOp, BinaryOp, UnaryOp
  <2>2. CASE ~Computes(x)
    BY <2>1, <2>2 DEF DataMoves
  <2>3. CASE Computes(x)
    <3>1. Arity(x.op) \in Nat /\ ~(Len(x.inputs) < Arity(x.op))
      BY <1>0, <2>3 DEF Computes, Arity
    <3>2. \A k \in 1 .. Arity(x.op) : k \in DOMAIN x.inputs
      BY <1>0, <3>1
    <3>5. \A k \in 1 .. Arity(x.op) : r[k] # None
      BY <1>1, <2>3, NoFailure
    <3>3. \A k \in 1 .. Arity(x.op) : q[k] = r[k]
      BY <3>2, <3>5
    <3>4. Results(x, q) = Results(x, r) /\ Failure(x, q) = Failure(x, r)
      BY <1>1, <3>3, SameResults
    <3> QED BY <2>1, <3>4 DEF DataMoves
  <2> QED BY <2>2, <2>3
<1>2. CASE x.op = "BrTrue" /\ x.inputs # <<>>
  <2>1. \A t : Moves(names, x, t) = IF t[1] = None THEN {Move("fail", 0, "TypeMismatch")}
                                    ELSE {JumpMove(IF Truth(t[1]) THEN x.trueTarget ELSE x.falseTarget)}
    BY <1>2 DEF Moves, DataOp, BinaryOp, UnaryOp
  <2>2. r[1] # None
    <3> SUFFICES ASSUME r[1] = None PROVE FALSE
      OBVIOUS
    <3>1. Move("fail", 0, "TypeMismatch") \in Moves(names, x, r)
      BY <2>1
    <3>2. Move("fail", 0, "TypeMismatch").kind = "fail"
      BY DEF Move
    <3> QED BY <3>1, <3>2
  <2>3. 1 \in DOMAIN x.inputs
    BY <1>0, <1>2
  <2> QED BY <2>1, <2>2, <2>3
<1>3. CASE x.op = "Ret" /\ x.inputs # <<>>
  <2>1. \A t : Moves(names, x, t) = {Move("return", 0, IF t[1] = None THEN <<>> ELSE <<t[1]>>)}
    BY <1>3 DEF Moves, DataOp, BinaryOp, UnaryOp
  <2> QED BY <1>3, <2>1
<1>4. CASE x.op \in {"BrTrue", "Ret"} /\ x.inputs = <<>>
  BY <1>4 DEF Moves, DataOp, BinaryOp, UnaryOp
<1>5. CASE x.op \in {"Jmp", "Call", "Load", "Store"}
  BY <1>5 DEF Moves, DataOp, BinaryOp, UnaryOp
<1> QED BY <1>0, <1>1, <1>2, <1>3, <1>4, <1>5 DEF IROp, DataOp

\* What an instruction of f may do, the one it stands for did.
LEMMA AgreeingMoves ==
  ASSUME NEW s \in Func, NEW f \in Func, KeepsConstants(s, f), Justified(s, f),
         NEW b \in SimFrame, NEW a \in SimFrame, SameValues(f, b, a),
         NEW d \in DOMAIN s.blocks, NEW i \in DOMAIN s.blocks[d].instrs, NEW x, x = InstrAt(s, d, i),
         NEW e \in DOMAIN f.blocks, NEW j \in DOMAIN f.blocks[e].instrs, NEW y, y = InstrAt(f, e, j),
         Stands(f, x, y), NEW r, r = Operands(s, b, x), NEW q, q = Operands(f, a, y),
         NEW names, \A move \in Moves(names, x, r) : move.kind # "fail",
         x.op = "Ret" /\ x.inputs # <<>> /\ r[1] = None => Constant(f, x.inputs[1]) = None
  PROVE  Moves(names, y, q) \subseteq Moves(names, x, r)
<1>1. x \in Instr /\ y \in Instr
  BY FuncParts
<1>2. Len(x.inputs) \in Nat /\ DOMAIN x.inputs = 1 .. Len(x.inputs) /\ \A k \in DOMAIN x.inputs : x.inputs[k] \in Nat
  BY <1>1, InstrParts
<1>3. CASE y = x
  <2>1. ASSUME NEW k \in DOMAIN x.inputs
        PROVE  /\ r[k] \in {None, q[k]}
               /\ Constant(f, x.inputs[k]) = None => r[k] = q[k]
    <3>1. x.inputs[k] \in UsedValueIds(f)
      BY <1>3, UsedId
    <3> QED BY <1>2, <1>3, <3>1, Reads DEF Operands
  <2>2. x.op = "Ret" /\ x.inputs # <<>> => r[1] = q[1]
    <3> SUFFICES ASSUME x.op = "Ret", x.inputs # <<>> PROVE r[1] = q[1]
      OBVIOUS
    <3>1. 1 \in DOMAIN x.inputs
      BY <1>2
    <3> QED BY <2>1, <3>1
  <2>3. Moves(names, x, q) = Moves(names, x, r)
    BY <1>1, <2>1, <2>2, KeptMoves
  <2> QED BY <1>3, <2>3
<1>4. CASE /\ x.op \in FoldableOp /\ x.output # None /\ Constant(f, x.output) # None
           /\ y.op = "Const" /\ y.output = x.output /\ y.constVal = Constant(f, x.output)
  <2>1. Move("write", x.output, Constant(f, x.output)) \in Moves(names, x, r) /\ Constant(f, x.output) \in AllValues
    BY <1>4, JustifiedMove
  <2>2. Arity(y.op) = 0 /\ Results(y, q) = {y.constVal} /\ y.op \in DataOp /\ y.op \notin BinaryOp
    BY <1>4 DEF Arity, Results, DataOp, BinaryOp, UnaryOp
  <2>3. Computes(y) /\ Failure(y, q) = "none"
    BY <1>1, <1>4, <2>2, InstrParts DEF Computes, Failure
  <2>4. Moves(names, y, q) = DataMoves(y, q)
    BY <2>2, Zenon DEF Moves, DataOp, BinaryOp, UnaryOp
  <2>5. Moves(names, y, q) = {Written(y, y.constVal)}
    BY <2>2, <2>3, <2>4 DEF DataMoves
  <2>6. Written(y, y.constVal) = Move("write", x.output, Constant(f, x.output))
    BY <1>4, <2>1, ValueFacts DEF Written
  <2> QED BY <2>1, <2>5, <2>6
<1>5. CASE IsDecided(f, x) /\ y = Decide(f, x)
  <2> DEFINE c == Constant(f, x.inputs[1])
             t == IF Truth(c) THEN x.trueTarget ELSE x.falseTarget
  <2>1. x.op = "BrTrue" /\ x.inputs # <<>> /\ c # None /\ 1 \in DOMAIN x.inputs
    BY <1>2, <1>5 DEF IsDecided
  <2>2. c \in AllValues /\ r[1] \in {None, c}
    <3>1. x.inputs[1] \in Nat
      BY <1>2, <2>1
    <3> QED BY <2>1, <3>1, ConstantType, ValueFacts, Reads DEF Optional, Operands
  <2>3. IsTrue(c) = Truth(c)
    BY <2>2, TranslationAssumption
  <2>4. y.op = "Jmp" /\ y.trueTarget = t
    BY <1>1, <1>5, <2>3 DEF Decide, Instr, IRInstr
  <2>5. Moves(names, y, q) = {JumpMove(t)}
    <3> HIDE DEF t
    <3> QED BY <2>4 DEF Moves, DataOp, BinaryOp, UnaryOp
  <2>6. Moves(names, x, r) = IF r[1] = None THEN {Move("fail", 0, "TypeMismatch")}
                             ELSE {JumpMove(IF Truth(r[1]) THEN x.trueTarget ELSE x.falseTarget)}
    BY <2>1 DEF Moves, DataOp, BinaryOp, UnaryOp
  <2>7. r[1] # None
    <3> SUFFICES ASSUME r[1] = None PROVE FALSE
      OBVIOUS
    <3>1. Move("fail", 0, "TypeMismatch") \in Moves(names, x, r)
      BY <2>6
    <3>2. Move("fail", 0, "TypeMismatch").kind = "fail"
      BY DEF Move
    <3> QED BY <3>1, <3>2
  <2> QED BY <2>2, <2>5, <2>6, <2>7
<1> QED BY <1>3, <1>4, <1>5 DEF Stands

LEMMA PlaceAt ==
  ASSUME NEW s, UniqueIds(s), NEW f, NEW b, NEW a, b.block = a.block,
         NEW c \in DOMAIN s.blocks, s.blocks[c].id = b.block,
         NEW d \in DOMAIN f.blocks, f.blocks[d].id = b.block,
         NEW p, Embeds(f, s.blocks[c].instrs, f.blocks[d].instrs, p),
         SamePoint(f.blocks[d].instrs, p, b.pc, a.pc)
  PROVE  SamePlace(s, f, b, a)
<1> SUFFICES ASSUME NEW e \in DOMAIN s.blocks, s.blocks[e].id = b.block
             PROVE  \E g \in DOMAIN f.blocks :
                      /\ f.blocks[g].id = b.block
                      /\ \E q : /\ Embeds(f, s.blocks[e].instrs, f.blocks[g].instrs, q)
                                /\ SamePoint(f.blocks[g].instrs, q, b.pc, a.pc)
  BY DEF SamePlace
<1>1. e = c
  BY DEF UniqueIds
<1> QED BY <1>1

LEMMA ValuesMoved ==
  ASSUME NEW f, NEW b, NEW a, SameValues(f, b, a), NEW g, NEW h, g.values = b.values, h.values = a.values
  PROVE  SameValues(f, g, h)
<1>1. \A v \in Nat : ValueOf(g, v) = ValueOf(b, v) /\ ValueOf(h, v) = ValueOf(a, v)
  BY DEF ValueOf
<1> QED BY <1>1 DEF SameValues

\* Both write a value; or the original alone writes one that nothing reads.
LEMMA ValuesWritten ==
  ASSUME NEW f, NEW b \in SimFrame, NEW a \in SimFrame, SameValues(f, b, a), NEW id \in Nat, NEW z \in AllValues,
         Constant(f, id) \in {None, z}
  PROVE  /\ SameValues(f, Holding(b, id, z), Holding(a, id, z))
         /\ Constant(f, id) # None \/ id \notin UsedValueIds(f) => SameValues(f, Holding(b, id, z), a)
<1>1. /\ \A v \in Nat : ValueOf(Holding(b, id, z), v) = IF v = id THEN z ELSE ValueOf(b, v)
      /\ \A v \in Nat : ValueOf(Holding(a, id, z), v) = IF v = id THEN z ELSE ValueOf(a, v)
  BY HoldingFrame
<1>2. SameValues(f, Holding(b, id, z), Holding(a, id, z))
  BY <1>1 DEF SameValues
<1>3. ASSUME Constant(f, id) # None \/ id \notin UsedValueIds(f)
      PROVE  SameValues(f, Holding(b, id, z), a)
  BY <1>1, <1>3 DEF SameValues
<1> QED BY <1>2, <1>3

LEMMA SameTop ==
  ASSUME NEW S, NEW F, NEW old, NEW now, SameStack(S, F, old, now),
         NEW b \in SimFrame, NEW a \in SimFrame, SameFrame(S, F, b, a)
  PROVE  SameStack(S, F, WithTop(old, b), WithTop(now, a))
<1> DEFINE t == WithTop(old, b)
           u == WithTop(now, a)
<1>1. /\ old \in Stacks /\ now \in Stacks /\ Len(old) = Len(now)
      /\ \A i \in 1 .. Len(old) : SameFrame(S, F, old[i], now[i])
  BY DEF SameStack
<1>2. /\ t \in Stacks /\ Len(t) = Len(old) /\ TopOf(t) = b
      /\ \A i \in 1 .. Len(old) : i # Len(old) => t[i] = old[i]
  BY <1>1, WithTopStack
<1>3. /\ u \in Stacks /\ Len(u) = Len(now) /\ TopOf(u) = a
      /\ \A i \in 1 .. Len(now) : i # Len(now) => u[i] = now[i]
  BY <1>1, WithTopStack
<1> HIDE DEF t, u
<1>4. ASSUME NEW i \in 1 .. Len(t) PROVE SameFrame(S, F, t[i], u[i])
  <2>1. CASE i = Len(t)
    <3>1. t[i] = b /\ u[i] = a
      BY <1>1, <1>2, <1>3, <2>1 DEF TopOf
    <3> QED BY <3>1
  <2>2. CASE i # Len(t)
    BY <1>1, <1>2, <1>3, <2>2
  <2> QED BY <2>1, <2>2
<1> QED BY <1>1, <1>2, <1>3, <1>4 DEF SameStack, t, u

\* A frame past an instruction that has written a value.
LEMMA HeldFrame ==
  ASSUME NEW frame \in SimFrame, NEW id \in Nat, NEW z \in AllValues, NEW g, g = Holding(Past(frame), id, z)
  PROVE  /\ g \in SimFrame /\ g.fn = frame.fn /\ g.block = frame.block /\ g.pc = Past(frame).pc
<1> DEFINE next == Past(frame)
<1>1. next \in SimFrame /\ next.fn = frame.fn /\ next.block = frame.block
  BY FrameForms
<1> HIDE DEF next
<1>2. g \in SimFrame /\ g.fn = next.fn /\ g.block = next.block /\ g.pc = next.pc
  BY <1>1, HoldingFrame DEF next
<1>3. g.pc = Past(frame).pc
  BY <1>2 DEF next
<1> QED BY <1>1, <1>2, <1>3

LEMMA PlaceMoved ==
  ASSUME NEW s, NEW f, NEW b, NEW a, SamePlace(s, f, b, a), NEW g, NEW h,
         g.block = b.block, h.block = a.block, g.pc = b.pc, h.pc = a.pc
  PROVE  SamePlace(s, f, g, h)
  BY DEF SamePlace

LEMMA SamePush ==
  ASSUME NEW S, NEW F, NEW old, NEW now, SameStack(S, F, old, now),
         NEW b \in SimFrame, NEW a \in SimFrame, SameFrame(S, F, b, a),
         NEW t, t = Append(old, b), NEW u, u = Append(now, a)
  PROVE  SameStack(S, F, t, u)
<1> SUFFICES ASSUME NEW n, n = Len(old)
             PROVE  SameStack(S, F, t, u)
  OBVIOUS
<1>1. /\ old \in Stacks /\ now \in Stacks /\ n = Len(now)
      /\ \A i \in 1 .. n : SameFrame(S, F, old[i], now[i])
  BY DEF SameStack
<1>2. old \in Seq(SimFrame) /\ now \in Seq(SimFrame) /\ n \in Nat
  BY <1>1, StackParts
<1>3. t \in Seq(SimFrame) /\ Len(t) = n + 1 /\ t[n + 1] = b /\ \A i \in 1 .. n : t[i] = old[i]
  BY <1>2
<1>4. u \in Seq(SimFrame) /\ Len(u) = n + 1 /\ u[n + 1] = a /\ \A i \in 1 .. n : u[i] = now[i]
  BY <1>1, <1>2
<1>5. ASSUME NEW i \in 1 .. n + 1 PROVE SameFrame(S, F, t[i], u[i])
  <2>1. i = n + 1 \/ i \in 1 .. n
    BY <1>2
  <2> QED BY <1>1, <1>3, <1>4, <2>1
<1>6. t # <<>> /\ u # <<>>
  BY <1>2, <1>3, <1>4
<1> QED BY <1>3, <1>4, <1>5, <1>6 DEF SameStack, Stacks

LEMMA SamePop ==
  ASSUME NEW S, NEW F, NEW old, NEW now, SameStack(S, F, old, now), Len(old) # 1
  PROVE  SameStack(S, F, Callers(old), Callers(now))
<1> DEFINE t == Callers(old)
           u == Callers(now)
           n == Len(old)
<1>1. /\ old \in Stacks /\ now \in Stacks /\ Len(now) = n
      /\ \A i \in 1 .. n : SameFrame(S, F, old[i], now[i])
  BY DEF SameStack
<1>2. n \in Nat /\ n > 1
  <2>1. n \in Nat \ {0} /\ n # 1
    BY <1>1, StackParts
  <2> HIDE DEF n
  <2> QED BY <2>1
<1>3. /\ t \in Seq(SimFrame) /\ Len(t) = n - 1 /\ \A i \in 1 .. n - 1 : t[i] = old[i]
  BY <1>1, CallersStack
<1>4. /\ u \in Seq(SimFrame) /\ Len(u) = n - 1 /\ \A i \in 1 .. n - 1 : u[i] = now[i]
  <2>1. /\ u \in Seq(SimFrame) /\ Len(u) = Len(now) - 1 /\ \A i \in 1 .. Len(now) - 1 : u[i] = now[i]
    BY <1>1, CallersStack
  <2> HIDE DEF n, u
  <2> QED BY <1>1, <2>1
<1> HIDE DEF t, u, n
<1>5. t \in Stacks /\ u \in Stacks
  BY <1>2, <1>3, <1>4 DEF Stacks
<1>6. ASSUME NEW i \in 1 .. n - 1 PROVE SameFrame(S, F, t[i], u[i])
  <2>1. i \in 1 .. n
    BY <1>2
  <2> QED BY <1>1, <1>3, <1>4, <2>1
<1> QED BY <1>3, <1>4, <1>5, <1>6 DEF SameStack, t, u

\* The same, a kind of move at a time.
LEMMA MovedOn ==
  ASSUME NEW m, NEW s, NEW b, b = TopOf(s), NEW move, move = Move("next", 0, None)
  PROVE  Moved(m, s, move) = Going(WithTop(s, Past(b)))
  BY MovedForms

LEMMA MovedWriting ==
  ASSUME NEW m, NEW s, NEW b, b = TopOf(s), NEW move, NEW id, NEW z, move = Move("write", id, z)
  PROVE  Moved(m, s, move) = Going(WithTop(s, Holding(Past(b), id, z)))
  BY MovedForms

LEMMA MovedTo ==
  ASSUME NEW m, NEW s, NEW b, b = TopOf(s), NEW move, NEW id, move = Move("goto", id, None)
  PROVE  Moved(m, s, move) = Going(WithTop(s, Gone(Past(b), id)))
  BY MovedForms

LEMMA MovedInto ==
  ASSUME NEW m, NEW s, NEW b, b = TopOf(s), NEW move, NEW name, move = Move("call", 0, name)
  PROVE  Moved(m, s, move) = Going(Append(WithTop(s, Past(b)), Sim(m)!EntryFrame(name)))
  BY MovedForms

LEMMA MovedBack ==
  ASSUME NEW m, NEW s, NEW move, NEW out, move = Move("return", 0, out)
  PROVE  Moved(m, s, move) = [stack |-> Callers(s), returned |-> out, done |-> Len(s) = 1, error |-> "none"]
  BY MovedForms

\* Two steps end alike, return the same, or lead to the same place.
SameOutcome(S, F, e, d) ==
  /\ e.error = "none" /\ d.error = "none" /\ d.done = e.done
  /\ d.returned = e.returned /\ d.returned \in Seq(AllValues)
  /\ ~e.done => SameStack(S, F, e.stack, d.stack)

\* Both executions make the same move.
LEMMA Together ==
  ASSUME NEW S, NEW F, Optimized(S, F), NEW old, NEW now, SameStack(S, F, old, now),
         NEW b, b = TopOf(old), NEW a, a = TopOf(now), NEW k \in DOMAIN S, S[k].name = b.fn,
         NEW f, f = F[k], SameValues(f, b, a), b.fn = a.fn,
         SamePlace(S[k], f, Past(b), Past(a)),
         NEW move,
         \/ move = Move("next", 0, None)
         \/ \E id \in Nat, z \in AllValues : move = Move("write", id, z) /\ Constant(f, id) \in {None, z}
         \/ \E t \in Nat : move = Move("goto", t, None) /\ IsBlockId(f, t)
         \/ \E name \in Names(S) : move = Move("call", 0, name)
         \/ \E out \in Seq(AllValues) : move = Move("return", 0, out)
  PROVE  SameOutcome(S, F, Moved(S, old, move), Moved(F, now, move))
<1> DEFINE e == Moved(S, old, move)
           d == Moved(F, now, move)
           Goal == SameOutcome(S, F, e, d)
<1>1. /\ old \in Stacks /\ now \in Stacks /\ Len(old) = Len(now)
      /\ b \in SimFrame /\ a \in SimFrame
  BY StackParts DEF SameStack
<1>2. /\ Past(b) \in SimFrame /\ Past(b).fn = b.fn /\ Past(b).block = b.block /\ Past(b).values = b.values
      /\ Past(a) \in SimFrame /\ Past(a).fn = a.fn /\ Past(a).block = a.block /\ Past(a).values = a.values
  BY <1>1, FrameForms
<1>3. ASSUME NEW t, NEW u, e = Going(t), d = Going(u), SameStack(S, F, t, u) PROVE Goal
  <2> HIDE DEF e, d
  <2>1. <<>> \in Seq(AllValues)
    OBVIOUS
  <2> QED BY <1>3, <2>1 DEF Going, SameOutcome
<1>4. ASSUME NEW g \in SimFrame, NEW h \in SimFrame, g.fn = b.fn, h.fn = b.fn,
             SameValues(f, g, h), SamePlace(S[k], f, g, h)
      PROVE  SameStack(S, F, WithTop(old, g), WithTop(now, h))
  <2>1. SameFrame(S, F, g, h)
    BY <1>4 DEF SameFrame
  <2> QED BY <1>4, <2>1, SameTop
<1>5. SameValues(f, Past(b), Past(a))
  BY <1>2, ValuesMoved
<1>6. SameStack(S, F, WithTop(old, Past(b)), WithTop(now, Past(a)))
  BY <1>2, <1>4, <1>5
<1>7. ASSUME move = Move("next", 0, None) PROVE Goal
  <2>1. e = Going(WithTop(old, Past(b)))
    BY <1>7, MovedOn
  <2>2. d = Going(WithTop(now, Past(a)))
    BY <1>7, MovedOn
  <2> QED BY <1>3, <1>6, <2>1, <2>2
<1>8. ASSUME NEW id \in Nat, NEW z \in AllValues, move = Move("write", id, z), Constant(f, id) \in {None, z}
      PROVE  Goal
  <2> DEFINE g == Holding(Past(b), id, z)
             h == Holding(Past(a), id, z)
  <2>1. /\ g \in SimFrame /\ g.fn = b.fn /\ g.block = b.block /\ g.pc = Past(b).pc
    BY <1>1, <1>8, HeldFrame, ZenonT(40)
  <2>0. /\ h \in SimFrame /\ h.fn = a.fn /\ h.block = a.block /\ h.pc = Past(a).pc
    BY <1>1, <1>8, HeldFrame, ZenonT(40)
  <2>2. SameValues(f, g, h)
    BY <1>2, <1>5, <1>8, ValuesWritten
  <2> HIDE DEF g, h
  <2>3. SamePlace(S[k], f, g, h)
    BY <1>2, <2>0, <2>1, PlaceMoved
  <2>4. SameStack(S, F, WithTop(old, g), WithTop(now, h))
    BY <1>4, <2>0, <2>1, <2>2, <2>3
  <2>5. e = Going(WithTop(old, g))
    BY <1>8, MovedWriting DEF g
  <2>6. d = Going(WithTop(now, h))
    BY <1>8, MovedWriting DEF h
  <2> QED BY <1>3, <2>4, <2>5, <2>6
<1>9. ASSUME NEW t \in Nat, move = Move("goto", t, None), IsBlockId(f, t) PROVE Goal
  <2> DEFINE g == Gone(Past(b), t)
             h == Gone(Past(a), t)
  <2>1. /\ g \in SimFrame /\ g.fn = b.fn /\ g.block = t /\ g.values = b.values /\ g.pc = 0
        /\ h \in SimFrame /\ h.fn = a.fn /\ h.block = t /\ h.values = a.values /\ h.pc = 0
    BY <1>2, GoneFrame
  <2> HIDE DEF g, h
  <2>2. SameValues(f, g, h)
    BY <2>1, ValuesMoved
  <2>3. S[k] \in Func /\ UniqueIds(S[k]) /\ f \in Func /\ Derived(S[k], f)
    BY DEF Optimized, ValidModule
  <2>4. SamePlace(S[k], f, g, h)
    BY <1>9, <2>1, <2>3, Arrive
  <2>5. SameStack(S, F, WithTop(old, g), WithTop(now, h))
    BY <1>4, <2>1, <2>2, <2>4
  <2>6. e = Going(WithTop(old, g))
    BY <1>9, MovedTo DEF g
  <2>7. d = Going(WithTop(now, h))
    BY <1>9, MovedTo DEF h
  <2> QED BY <1>3, <2>5, <2>6, <2>7
<1>10. ASSUME NEW name \in Names(S), move = Move("call", 0, name) PROVE Goal
  <2> DEFINE g == Sim(S)!EntryFrame(name)
             h == Sim(F)!EntryFrame(name)
  <2>1. g \in SimFrame /\ h \in SimFrame /\ SameFrame(S, F, g, h)
    BY Enter
  <2> HIDE DEF g, h
  <2>2. SameStack(S, F, Append(WithTop(old, Past(b)), g), Append(WithTop(now, Past(a)), h))
    BY <1>6, <2>1, SamePush, Zenon
  <2>3. e = Going(Append(WithTop(old, Past(b)), g))
    BY <1>10, MovedInto DEF g
  <2>4. d = Going(Append(WithTop(now, Past(a)), h))
    BY <1>10, MovedInto DEF h
  <2> QED BY <1>3, <2>2, <2>3, <2>4
<1>11. ASSUME NEW out \in Seq(AllValues), move = Move("return", 0, out) PROVE Goal
  <2>1. e = [stack |-> Callers(old), returned |-> out, done |-> Len(old) = 1, error |-> "none"]
    BY <1>11, MovedBack
  <2>3. d = [stack |-> Callers(now), returned |-> out, done |-> Len(now) = 1, error |-> "none"]
    BY <1>11, MovedBack
  <2>2. Len(old) # 1 => SameStack(S, F, Callers(old), Callers(now))
    BY SamePop
  <2> HIDE DEF e, d
  <2> QED BY <1>1, <1>11, <2>1, <2>2, <2>3 DEF SameOutcome
<1> HIDE DEF Goal
<1>12. (\E id \in Nat, z \in AllValues : move = Move("write", id, z) /\ Constant(f, id) \in {None, z}) => Goal
  BY <1>8, Zenon
<1>13. (\E t \in Nat : move = Move("goto", t, None) /\ IsBlockId(f, t)) => Goal
  BY <1>9, Zenon
<1>14. (\E name \in Names(S) : move = Move("call", 0, name)) => Goal
  BY <1>10, Zenon
<1>15. (\E out \in Seq(AllValues) : move = Move("return", 0, out)) => Goal
  BY <1>11, Zenon
<1>16. Goal
  BY <1>7, <1>12, <1>13, <1>14, <1>15, Zenon
<1> QED BY <1>16 DEF Goal

LEMMA SameTopAlone ==
  ASSUME NEW S, NEW F, NEW old, NEW now, SameStack(S, F, old, now),
         NEW g \in SimFrame, SameFrame(S, F, g, TopOf(now))
  PROVE  SameStack(S, F, WithTop(old, g), now)
<1> DEFINE t == WithTop(old, g)
<1>1. /\ old \in Stacks /\ now \in Stacks /\ Len(old) = Len(now)
      /\ \A i \in 1 .. Len(old) : SameFrame(S, F, old[i], now[i])
  BY DEF SameStack
<1>2. /\ t \in Stacks /\ Len(t) = Len(old) /\ TopOf(t) = g
      /\ \A i \in 1 .. Len(old) : i # Len(old) => t[i] = old[i]
  BY <1>1, WithTopStack
<1> HIDE DEF t
<1>3. ASSUME NEW i \in 1 .. Len(t) PROVE SameFrame(S, F, t[i], now[i])
  <2>1. CASE i = Len(t)
    <3>1. t[i] = g /\ now[i] = TopOf(now)
      BY <1>1, <1>2, <2>1 DEF TopOf
    <3> QED BY <3>1
  <2>2. CASE i # Len(t)
    BY <1>1, <1>2, <2>2
  <2> QED BY <2>1, <2>2
<1> QED BY <1>1, <1>2, <1>3 DEF SameStack, t

\* The original executes an instruction that the optimizer has removed: it may
\* do so without a trace.
LEMMA Alone ==
  ASSUME NEW S, NEW F, Optimized(S, F), NEW old, NEW now, SameStack(S, F, old, now),
         NEW b, b = TopOf(old), NEW a, a = TopOf(now), NEW k \in DOMAIN S, S[k].name = b.fn,
         NEW s, s = S[k], NEW f, f = F[k], SameValues(f, b, a), b.fn = a.fn,
         NEW d \in DOMAIN s.blocks, NEW i \in DOMAIN s.blocks[d].instrs, NEW x, x = InstrAt(s, d, i),
         Elided(f, x), SamePlace(s, f, Past(b), a),
         NEW r, r = Operands(s, b, x), NEW names, \A move \in Moves(names, x, r) : move.kind # "fail",
         NEW some \in Moves(names, x, r)
  PROVE  \E move \in Moves(names, x, r) : \E t : Moved(S, old, move) = Going(t) /\ SameStack(S, F, t, now)
<1>1. /\ old \in Stacks /\ now \in Stacks /\ b \in SimFrame /\ a \in SimFrame
  BY StackParts DEF SameStack
<1>2. /\ Past(b) \in SimFrame /\ Past(b).fn = b.fn /\ Past(b).block = b.block /\ Past(b).values = b.values
  BY <1>1, FrameForms
<1>3. /\ s \in Func /\ f \in Func /\ KeepsConstants(s, f) /\ Justified(s, f)
  BY DEF Optimized, ValidModule, Derived
<1>4. /\ x \in Instr /\ x.output \in Nat
  BY <1>3, FuncParts, InstrParts DEF Elided, Optional
<1>5. \A j \in DOMAIN x.inputs : r[j] \in Optional(AllValues)
  BY <1>1, <1>3, <1>4, OperandTypes
<1>6. SameValues(f, Past(b), a)
  BY <1>2, ValuesMoved
<1>7. ASSUME NEW g \in SimFrame, g.fn = b.fn, SameValues(f, g, a), SamePlace(s, f, g, a)
      PROVE  SameStack(S, F, WithTop(old, g), now)
  <2>1. SameFrame(S, F, g, a)
    BY <1>7 DEF SameFrame
  <2> QED BY <1>7, <2>1, SameTopAlone
<1>8. CASE some = Move("next", 0, None)
  <2>1. Moved(S, old, some) = Going(WithTop(old, Past(b)))
    BY <1>8, MovedOn
  <2>2. SameStack(S, F, WithTop(old, Past(b)), now)
    BY <1>2, <1>6, <1>7
  <2> QED BY <2>1, <2>2
<1>9. ASSUME NEW move \in Moves(names, x, r), NEW z \in AllValues, move = Move("write", x.output, z),
             Constant(f, x.output) \in {None, z}
      PROVE  \E t : Moved(S, old, move) = Going(t) /\ SameStack(S, F, t, now)
  <2> DEFINE g == Holding(Past(b), x.output, z)
  <2>1. /\ g \in SimFrame /\ g.fn = b.fn /\ g.block = b.block /\ g.pc = Past(b).pc
    BY <1>1, <1>4, HeldFrame
  <2>2. x.output \notin UsedValueIds(f)
    BY DEF Elided
  <2>3. SameValues(f, g, a)
    BY <1>1, <1>2, <1>4, <1>6, <1>9, <2>2, ValuesWritten
  <2>4. Moved(S, old, move) = Going(WithTop(old, g))
    BY <1>9, MovedWriting
  <2> HIDE DEF g
  <2>5. SamePlace(s, f, g, a)
    BY <1>2, <2>1, PlaceMoved
  <2>6. SameStack(S, F, WithTop(old, g), now)
    BY <1>7, <2>1, <2>3, <2>5
  <2> QED BY <2>4, <2>6
<1>10. CASE \E z \in AllValues : some = Move("write", x.output, z)
  <2>1. PICK z \in AllValues : some = Move("write", x.output, z)
    BY <1>10
  <2>2. CASE Constant(f, x.output) = None
    BY <1>9, <2>1, <2>2
  <2>3. CASE Constant(f, x.output) # None
    <3> DEFINE c == Constant(f, x.output)
    <3>1. Move("write", x.output, c) \in Moves(names, x, r) /\ c \in AllValues
      BY <1>1, <1>3, <2>3, JustifiedMove DEF Elided
    <3> QED BY <1>9, <3>1
  <2> QED BY <2>2, <2>3
<1>11. some = Move("next", 0, None) \/ \E z \in AllValues : some = Move("write", x.output, z)
  <2>1. x.op \notin {"Jmp", "BrTrue", "Call", "Ret"}
    BY DEF Elided, NonElidableOp
  <2>2. \A error : Move("fail", 0, error).kind = "fail"
    BY DEF Move
  <2> QED BY <1>4, <1>5, <2>1, <2>2, MoveKinds
<1> QED BY <1>8, <1>10, <1>11

\* What is written can be told from the stack.
LEMMA WrittenOnce ==
  ASSUME NEW s \in Stacks, NEW frame \in SimFrame, NEW id \in Nat, NEW c \in AllValues, NEW z \in AllValues,
         Going(WithTop(s, Holding(frame, id, c))) = Going(WithTop(s, Holding(frame, id, z)))
  PROVE  c = z
<1> DEFINE g == Holding(frame, id, c)
           h == Holding(frame, id, z)
<1>1. g \in SimFrame /\ ValueOf(g, id) = c /\ h \in SimFrame /\ ValueOf(h, id) = z
  BY HoldingFrame
<1> HIDE DEF g, h
<1>2. WithTop(s, g) = WithTop(s, h)
  BY DEF Going, g, h
<1>3. TopOf(WithTop(s, g)) = g /\ TopOf(WithTop(s, h)) = h
  BY <1>1, WithTopStack
<1> QED BY <1>1, <1>2, <1>3

\* The original is about to return what it has never written and reads nothing
\* of, while the optimized function returns a constant.
Unwritten(S, F, stack) ==
  LET frame  == Sim(S)!Top(stack)
      block  == Sim(S)!CachedBlock(frame.fn, frame.block)
      instr  == block.instrs[frame.pc + 1]
      folded == Constant(Sim(F)!CachedFunction(frame.fn), instr.inputs[1])
  IN  /\ block # None /\ frame.pc < Len(block.instrs)
      /\ instr.op = "Ret" /\ instr.inputs # <<>>
      /\ Sim(S)!ReadValue(stack, instr.inputs[1]) = None /\ folded # None

LEMMA ReturnsWritten ==
  ASSUME NEW S, ValidModule(S), NEW F, ValidModule(F), NEW old \in Stacks, ~Unwritten(S, F, old),
         NEW b, b = TopOf(old), NEW k \in DOMAIN S, NEW s, s = S[k], s.name = b.fn,
         k \in DOMAIN F, NEW f, f = F[k], f.name = b.fn,
         NEW d \in DOMAIN s.blocks, s.blocks[d].id = b.block,
         ~(b.pc >= Len(s.blocks[d].instrs)), b.pc + 1 \in DOMAIN s.blocks[d].instrs,
         NEW x, x = InstrAt(s, d, b.pc + 1), NEW r, r = Operands(s, b, x),
         x.op = "Ret", x.inputs # <<>>, r[1] = None
  PROVE  Constant(f, x.inputs[1]) = None
<1>1. b \in SimFrame /\ b.pc \in Nat
  BY StackParts, FrameForms
<1>2. S \in Seq(Func) /\ DistinctIn(S) /\ UniqueIds(s) /\ s \in Func
  BY DEF ValidModule
<1>3. F \in Seq(Func) /\ DistinctIn(F) /\ UniqueIds(f) /\ f \in Func
  BY DEF ValidModule
<1>4. Sim(S)!CachedFunction(b.fn) = s /\ Sim(S)!CachedBlock(b.fn, b.block) = s.blocks[d]
  BY <1>2, CachedParts
<1>5. Sim(F)!CachedFunction(b.fn) = f
  BY <1>3, CachedParts
<1>6. Sim(S)!Top(old) = b
  BY StackForms
<1>7. x \in Instr
  BY <1>2, FuncParts
<1>8. x.inputs[1] \in Nat /\ 1 \in DOMAIN x.inputs
  <2>1. x.inputs \in Seq(Nat)
    BY <1>7, InstrParts
  <2>2. 1 \in DOMAIN x.inputs
    BY <2>1
  <2> QED BY <2>1, <2>2
<1>9. Sim(S)!ReadValue(old, x.inputs[1]) = None
  <2>1. r[1] = ReadIn(s, b, x.inputs[1])
    BY <1>8 DEF Operands
  <2>2. Sim(S)!ReadValue(old, x.inputs[1]) = ReadIn(s, b, x.inputs[1])
    BY <1>4, <1>8, ReadForm
  <2> QED BY <2>1, <2>2
<1>10. s.blocks[d] # None /\ b.pc < Len(s.blocks[d].instrs)
  <2>1. s.blocks[d].instrs \in Seq(Instr)
    BY <1>2, FuncParts DEF Block, Instr, IRBlock
  <2> QED BY <1>1, <1>2, <2>1, BlockIsSome
<1>11. s.blocks[d].instrs[b.pc + 1] = x
  BY DEF InstrAt
<1> QED BY <1>4, <1>5, <1>6, <1>9, <1>10, <1>11 DEF Unwritten

LEMMA TopSame ==
  ASSUME NEW S, NEW F, NEW old, NEW now, SameStack(S, F, old, now)
  PROVE  /\ old \in Stacks /\ now \in Stacks /\ Len(old) = Len(now)
         /\ SameFrame(S, F, TopOf(old), TopOf(now))
<1>1. /\ old \in Stacks /\ now \in Stacks /\ Len(old) = Len(now)
      /\ \A i \in 1 .. Len(old) : SameFrame(S, F, old[i], now[i])
  BY DEF SameStack
<1>2. Len(old) \in 1 .. Len(old)
  BY <1>1, StackParts
<1> QED BY <1>1, <1>2 DEF TopOf

\* A block that ends before has ended after.
LEMMA EndTogether ==
  ASSUME NEW S, NEW F, NEW old, NEW now, SameStack(S, F, old, now),
         NEW e, e = Ended(old), NEW d, d = Ended(now)
  PROVE  /\ d.error = "none" /\ d.done = e.done /\ d.returned = e.returned /\ d.returned \in Seq(AllValues)
         /\ ~e.done => SameStack(S, F, e.stack, d.stack)
<1>1. Len(old) = Len(now)
  BY DEF SameStack
<1>2. <<>> \in Seq(AllValues)
  OBVIOUS
<1>3. CASE Len(old) = 1
  BY <1>1, <1>2, <1>3 DEF Ended
<1>4. CASE Len(old) # 1
  <2>1. SameStack(S, F, Callers(old), Callers(now))
    BY <1>4, SamePop
  <2> QED BY <1>1, <1>2, <1>4, <2>1 DEF Ended, Going
<1> QED BY <1>3, <1>4

\* The two executions are at functions that correspond, with frames that do.
Facing(S, F, old, now, k, b, a, s, f) ==
  /\ Optimized(S, F) /\ SameStack(S, F, old, now) /\ b = TopOf(old) /\ a = TopOf(now)
  /\ k \in DOMAIN S /\ s = S[k] /\ f = F[k] /\ S[k].name = b.fn /\ b.fn = a.fn /\ SameValues(f, b, a)

\* They are in blocks that correspond, at the same point.
Pointed(s, f, b, a, d, g, p) ==
  /\ d \in DOMAIN s.blocks /\ s.blocks[d].id = b.block
  /\ g \in DOMAIN f.blocks /\ f.blocks[g].id = b.block /\ b.block = a.block
  /\ Embeds(f, s.blocks[d].instrs, f.blocks[g].instrs, p)
  /\ SamePoint(f.blocks[g].instrs, p, b.pc, a.pc)

NextMeets(s, f, b, a, d, g) ==
  /\ b.pc >= Len(s.blocks[d].instrs) => a.pc >= Len(f.blocks[g].instrs)
  /\ ~(b.pc >= Len(s.blocks[d].instrs)) =>
       /\ b.pc + 1 \in DOMAIN s.blocks[d].instrs
       /\ \/ /\ a.pc + 1 \in DOMAIN f.blocks[g].instrs /\ ~(a.pc >= Len(f.blocks[g].instrs))
             /\ Stands(f, InstrAt(s, d, b.pc + 1), InstrAt(f, g, a.pc + 1))
             /\ SamePlace(s, f, Past(b), Past(a))
          \/ Elided(f, InstrAt(s, d, b.pc + 1)) /\ SamePlace(s, f, Past(b), a)

\* The instruction x of the original, and y that stands for it, with operands.
Paired(s, f, b, a, d, i, x, r, g, j, y, q) ==
  /\ d \in DOMAIN s.blocks /\ i \in DOMAIN s.blocks[d].instrs /\ x = InstrAt(s, d, i)
  /\ g \in DOMAIN f.blocks /\ j \in DOMAIN f.blocks[g].instrs /\ y = InstrAt(f, g, j)
  /\ Stands(f, x, y) /\ SamePlace(s, f, Past(b), Past(a))
  /\ r = Operands(s, b, x) /\ q = Operands(f, a, y)

\* An instruction that can only have the effect e, and returns what it should.
Decided(S, f, old, names, x, r, e) ==
  /\ names = Names(S) /\ \A move \in Moves(names, x, r) : move.kind # "fail"
  /\ x.op = "Ret" /\ x.inputs # <<>> /\ r[1] = None => Constant(f, x.inputs[1]) = None
  /\ \A move \in Moves(names, x, r) : Moved(S, old, move) = e

LEMMA MovesTogether ==
  ASSUME NEW S, NEW F, NEW old, NEW now, NEW k, NEW b, NEW a, NEW s, NEW f,
         Facing(S, F, old, now, k, b, a, s, f),
         NEW d, NEW i, NEW x, NEW r, NEW g, NEW j, NEW y, NEW q,
         Paired(s, f, b, a, d, i, x, r, g, j, y, q),
         NEW names, NEW e, Decided(S, f, old, names, x, r, e), NEW mv \in Moves(names, y, q)
  PROVE  SameOutcome(S, F, e, Moved(F, now, mv))
<1> SUFFICES ASSUME
      Optimized(S, F), SameStack(S, F, old, now), b = TopOf(old), a = TopOf(now), k \in DOMAIN S,
      S[k].name = b.fn, s = S[k], f = F[k], SameValues(f, b, a), b.fn = a.fn,
      d \in DOMAIN s.blocks, i \in DOMAIN s.blocks[d].instrs, x = InstrAt(s, d, i),
      g \in DOMAIN f.blocks, j \in DOMAIN f.blocks[g].instrs, y = InstrAt(f, g, j),
      Stands(f, x, y), SamePlace(s, f, Past(b), Past(a)),
      r = Operands(s, b, x), q = Operands(f, a, y),
      names = Names(S), \A move \in Moves(names, x, r) : move.kind # "fail",
      x.op = "Ret" /\ x.inputs # <<>> /\ r[1] = None => Constant(f, x.inputs[1]) = None,
      \A move \in Moves(names, x, r) : Moved(S, old, move) = e
      PROVE SameOutcome(S, F, e, Moved(F, now, mv))
  BY DEF Facing, Paired, Decided
<1>1. /\ old \in Stacks /\ now \in Stacks /\ b \in SimFrame /\ a \in SimFrame /\ Past(b) \in SimFrame
  BY StackParts, FrameForms DEF SameStack
<1>2. /\ s \in Func /\ f \in Func /\ KeepsConstants(s, f) /\ Justified(s, f) /\ BranchesLand(f, g)
  BY DEF Optimized, ValidModule, Derived
<1>3. x \in Instr /\ y \in Instr
  BY <1>2, FuncParts
<1>4. mv \in Moves(names, x, r)
  BY <1>1, <1>2, AgreeingMoves
<1>5. Moved(S, old, mv) = e
  BY <1>4
<1>6. /\ \A l \in DOMAIN x.inputs : r[l] \in Optional(AllValues)
      /\ \A l \in DOMAIN y.inputs : q[l] \in Optional(AllValues)
  BY <1>1, <1>2, <1>3, OperandTypes
<1>7. \A error : mv # Move("fail", 0, error)
  BY <1>4 DEF Move
<1>8. \/ mv = Move("next", 0, None)
      \/ \E z \in AllValues : mv = Move("write", x.output, z) /\ x.op \in DataOp
      \/ mv.kind = "goto"
      \/ \E name \in names : mv = Move("call", 0, name)
      \/ \E out \in Seq(AllValues) : mv = Move("return", 0, out)
  <2>1. \A id, z : Move("goto", id, z).kind = "goto"
    BY DEF Move
  <2> QED BY <1>3, <1>4, <1>6, <1>7, <2>1, MoveKinds
<1>9. mv.kind = "goto" => \E t \in Nat : mv = Move("goto", t, None) /\ IsBlockId(f, t)
  <2> SUFFICES ASSUME mv.kind = "goto" PROVE \E t \in Nat : mv = Move("goto", t, None) /\ IsBlockId(f, t)
    OBVIOUS
  <2>1. \E t \in Targets(y) : mv = Move("goto", t, None)
    <3>1. \A kind, id, z : Move(kind, id, z).kind = kind
      BY DEF Move
    <3> QED BY <1>3, <1>6, <3>1, MoveKinds
  <2>2. PICK t \in Targets(y) : mv = Move("goto", t, None)
    BY <2>1
  <2>3. t \in Nat
    BY <1>3, InstrParts DEF Targets, Optional
  <2>4. IsBlockId(f, t)
    BY <1>2 DEF BranchesLand, InstrAt
  <2> QED BY <2>2, <2>3, <2>4
<1>10. ASSUME NEW z \in AllValues, mv = Move("write", x.output, z), x.op \in DataOp
       PROVE  x.output \in Nat /\ Constant(f, x.output) \in {None, z}
  <2>0. x.output # None
    <3>1. Moves(names, x, r) = DataMoves(x, r)
      BY <1>10, Zenon DEF Moves, DataOp, BinaryOp, UnaryOp
    <3>2. mv.kind = "write"
      BY <1>10 DEF Move
    <3>3. Move("next", 0, None).kind = "next"
      BY DEF Move
    <3> QED BY <1>4, <3>1, <3>2, <3>3 DEF DataMoves, Computes
  <2>1. x.output \in Nat
    BY <1>3, <2>0, InstrParts DEF Optional
  <2>2. ASSUME NEW c, c = Constant(f, x.output), c # None PROVE c = z
    <3>1. Move("write", x.output, c) \in Moves(names, x, r) /\ c \in AllValues
      BY <1>1, <1>2, <2>0, <2>2, JustifiedMove
    <3>2. Moved(S, old, Move("write", x.output, c)) = Going(WithTop(old, Holding(Past(b), x.output, c)))
      BY MovedWriting
    <3>3. Moved(S, old, mv) = Going(WithTop(old, Holding(Past(b), x.output, z)))
      BY <1>10, MovedWriting
    <3>4. Moved(S, old, Move("write", x.output, c)) = Moved(S, old, mv)
      BY <1>5, <3>1
    <3> QED BY <1>1, <2>1, <3>1, <3>2, <3>3, <3>4, WrittenOnce
  <2> QED BY <2>1, <2>2
<1>11. \/ mv = Move("next", 0, None)
       \/ \E id \in Nat, z \in AllValues : mv = Move("write", id, z) /\ Constant(f, id) \in {None, z}
       \/ \E t \in Nat : mv = Move("goto", t, None) /\ IsBlockId(f, t)
       \/ \E name \in Names(S) : mv = Move("call", 0, name)
       \/ \E out \in Seq(AllValues) : mv = Move("return", 0, out)
  BY <1>8, <1>9, <1>10, Zenon
<1>12. SamePlace(S[k], f, Past(b), Past(a))
  OBVIOUS
<1>13. SameOutcome(S, F, Moved(S, old, mv), Moved(F, now, mv))
  BY <1>11, <1>12, Together, Zenon
<1> QED BY <1>5, <1>13

\* The instruction of the original is next in the optimized function as well,
\* or is not there.
LEMMA StepsMeet ==
  ASSUME NEW S, NEW F, NEW old, NEW now, NEW k, NEW b, NEW a, NEW s, NEW f,
         Facing(S, F, old, now, k, b, a, s, f),
         NEW d, NEW g, NEW p, Pointed(s, f, b, a, d, g, p)
  PROVE  NextMeets(s, f, b, a, d, g)
<1> SUFFICES ASSUME
      Optimized(S, F), SameStack(S, F, old, now), b = TopOf(old), a = TopOf(now), k \in DOMAIN S,
      s = S[k], f = F[k], d \in DOMAIN s.blocks, s.blocks[d].id = b.block,
      g \in DOMAIN f.blocks, f.blocks[g].id = b.block, b.block = a.block,
      Embeds(f, s.blocks[d].instrs, f.blocks[g].instrs, p),
      SamePoint(f.blocks[g].instrs, p, b.pc, a.pc)
      PROVE NextMeets(s, f, b, a, d, g)
  BY DEF Facing, Pointed
<1> DEFINE xs == s.blocks[d].instrs
           ys == f.blocks[g].instrs
           m  == b.pc
           n  == a.pc
<1>1. b \in SimFrame /\ a \in SimFrame
  BY StackParts DEF SameStack
<1>2. /\ m \in Nat /\ n \in Nat
      /\ Past(b).block = b.block /\ Past(b).pc = m + 1
      /\ Past(a).block = a.block /\ Past(a).pc = n + 1
  BY <1>1, FrameForms
<1>3. s \in Func /\ f \in Func /\ UniqueIds(s)
  BY DEF Optimized, ValidModule
<1>4. xs \in Seq(Instr) /\ ys \in Seq(Instr)
  BY <1>3, FuncParts DEF Block, Instr, IRBlock
<1>5. /\ m >= Len(xs) => n >= Len(ys)
      /\ ~(m >= Len(xs)) =>
           \/ /\ n + 1 \in DOMAIN ys /\ ~(n >= Len(ys)) /\ Stands(f, xs[m + 1], ys[n + 1])
              /\ SamePoint(ys, p, m + 1, n + 1)
           \/ Elided(f, xs[m + 1]) /\ SamePoint(ys, p, m + 1, n)
  <2> HIDE DEF xs, ys, m, n
  <2>1. Embeds(f, xs, ys, p) /\ SamePoint(ys, p, m, n)
    BY DEF xs, ys, m, n
  <2> QED BY <1>2, <1>4, <2>1, Meet
<1>6. ~(m >= Len(xs)) => m + 1 \in DOMAIN xs
  <2> HIDE DEF xs, m
  <2> QED BY <1>2, <1>4
<1>7. SamePoint(ys, p, m + 1, n + 1) => SamePlace(s, f, Past(b), Past(a))
  <2> SUFFICES ASSUME SamePoint(ys, p, m + 1, n + 1) PROVE SamePlace(s, f, Past(b), Past(a))
    OBVIOUS
  <2> HIDE DEF m, n
  <2> QED BY <1>2, <1>3, PlaceAt
<1>8. SamePoint(ys, p, m + 1, n) => SamePlace(s, f, Past(b), a)
  <2> SUFFICES ASSUME SamePoint(ys, p, m + 1, n) PROVE SamePlace(s, f, Past(b), a)
    OBVIOUS
  <2>1. a.pc = n
    OBVIOUS
  <2> HIDE DEF m, n
  <2> QED BY <1>2, <1>3, <2>1, PlaceAt
<1>9. /\ InstrAt(s, d, m + 1) = xs[m + 1]
      /\ InstrAt(f, g, n + 1) = ys[n + 1]
  BY DEF InstrAt
<1> HIDE DEF xs, ys, m, n
<1>10. /\ m >= Len(xs) => n >= Len(ys)
       /\ ~(m >= Len(xs)) =>
            /\ m + 1 \in DOMAIN xs
            /\ \/ /\ n + 1 \in DOMAIN ys /\ ~(n >= Len(ys))
                  /\ Stands(f, InstrAt(s, d, m + 1), InstrAt(f, g, n + 1))
                  /\ SamePlace(s, f, Past(b), Past(a))
               \/ Elided(f, InstrAt(s, d, m + 1)) /\ SamePlace(s, f, Past(b), a)
  BY <1>5, <1>6, <1>7, <1>8, <1>9, Zenon
<1> QED BY <1>10 DEF NextMeets, xs, ys, m, n

\* If the next instruction of the original does the one thing it may do, and
\* does not fail, then either the optimized function need not move, or whatever
\* its next instruction does has the same outcome.
LEMMA StepAgrees ==
  ASSUME NEW S, NEW F, Optimized(S, F), NEW old, NEW now, SameStack(S, F, old, now),
         NEW e, Sim(S)!StepOne(old) = {e}, e.error = "none", ~Unwritten(S, F, old)
  PROVE  \/ \E t : e = Going(t) /\ SameStack(S, F, t, now)
         \/ \A d \in Sim(F)!StepOne(now) : SameOutcome(S, F, e, d)
<1> DEFINE Goal == \/ \E t : e = Going(t) /\ SameStack(S, F, t, now)
                   \/ \A u \in Sim(F)!StepOne(now) : SameOutcome(S, F, e, u)
           b == TopOf(old)
           a == TopOf(now)
<1>1. old \in Stacks /\ now \in Stacks /\ Len(old) = Len(now) /\ SameFrame(S, F, b, a)
  BY TopSame
<1>2. b \in SimFrame /\ a \in SimFrame
  BY <1>1, StackParts
<1> HIDE DEF Goal
<1>3. b.fn = a.fn
  BY <1>1 DEF SameFrame
<1>4. PICK k \in DOMAIN S : S[k].name = b.fn /\ SameValues(F[k], b, a) /\ SamePlace(S[k], F[k], b, a)
  BY <1>1 DEF SameFrame
<1> DEFINE s == S[k]
           f == F[k]
<1>5. ValidModule(S) /\ ValidModule(F) /\ k \in DOMAIN F /\ Derived(s, f) /\ f.name = s.name
  <2>1. S \in Seq(Func) /\ F \in Seq(Func) /\ Len(F) = Len(S)
    BY DEF Optimized, ValidModule
  <2>2. k \in DOMAIN F
    BY <2>1
  <2> QED BY <2>2 DEF Optimized, Derived
<1>6. s \in Func /\ f \in Func
  BY <1>5 DEF ValidModule
<1>0. b = TopOf(old) /\ a = TopOf(now) /\ s = S[k] /\ f = F[k]
  OBVIOUS
<1>7. Names(F) = Names(S)
  <2>1. S \in Seq(Func) /\ F \in Seq(Func) /\ Len(F) = Len(S) /\ \A i \in DOMAIN S : F[i].name = S[i].name
    BY DEF Optimized, ValidModule, Derived
  <2>2. DOMAIN F = DOMAIN S
    BY <2>1
  <2> QED BY <2>1, <2>2 DEF Names
<1> HIDE DEF b, a, s, f
<1>8. ~(Len(old) > MaxCallDepth) /\ IsBlockId(s, b.block)
  <2>1. "none" \notin StepErrors
    BY DEF StepErrors
  <2> QED BY <1>1, <1>4, <1>5, <2>1, StepAt DEF b, s
<1>9. PICK d \in DOMAIN s.blocks : s.blocks[d].id = b.block
  BY <1>8 DEF IsBlockId
<1>10. /\ b.block = a.block
       /\ \E g \in DOMAIN f.blocks :
            /\ f.blocks[g].id = b.block
            /\ \E p : /\ Embeds(f, s.blocks[d].instrs, f.blocks[g].instrs, p)
                      /\ SamePoint(f.blocks[g].instrs, p, b.pc, a.pc)
  BY <1>4, <1>9, Zenon DEF SamePlace, s, f
<1>11. PICK g \in DOMAIN f.blocks :
            /\ f.blocks[g].id = b.block
            /\ \E p : /\ Embeds(f, s.blocks[d].instrs, f.blocks[g].instrs, p)
                      /\ SamePoint(f.blocks[g].instrs, p, b.pc, a.pc)
  BY <1>10
<1>12. PICK p : /\ Embeds(f, s.blocks[d].instrs, f.blocks[g].instrs, p)
                /\ SamePoint(f.blocks[g].instrs, p, b.pc, a.pc)
  BY <1>11
<1> DEFINE xs == s.blocks[d].instrs
           ys == f.blocks[g].instrs
           x  == InstrAt(s, d, b.pc + 1)
           y  == InstrAt(f, g, a.pc + 1)
           r  == Operands(s, b, x)
           q  == Operands(f, a, y)
<1>13. S[k].name = b.fn /\ SameValues(f, b, a)
  BY <1>4 DEF f
<1>20. Facing(S, F, old, now, k, b, a, s, f)
  BY <1>0, <1>3, <1>13 DEF Facing
<1>21. Pointed(s, f, b, a, d, g, p)
  BY <1>9, <1>10, <1>11, <1>12 DEF Pointed
<1>22. NextMeets(s, f, b, a, d, g)
  BY <1>20, <1>21, StepsMeet
<1>14. /\ b.pc >= Len(xs) => a.pc >= Len(ys)
       /\ ~(b.pc >= Len(xs)) =>
            /\ b.pc + 1 \in DOMAIN xs
            /\ \/ /\ a.pc + 1 \in DOMAIN ys /\ ~(a.pc >= Len(ys)) /\ Stands(f, x, y)
                  /\ SamePlace(s, f, Past(b), Past(a))
               \/ Elided(f, x) /\ SamePlace(s, f, Past(b), a)
  BY <1>22 DEF NextMeets
<1>15. /\ b.pc >= Len(xs) => Sim(S)!StepOne(old) = {Ended(old)}
       /\ ~(b.pc >= Len(xs)) =>
            Sim(S)!StepOne(old) = {Moved(S, old, move) : move \in Moves(Names(S), x, r)}
  BY <1>1, <1>5, <1>8, <1>9, <1>13, StepAt DEF b, s
<1>16. /\ a.pc >= Len(ys) => Sim(F)!StepOne(now) = {Ended(now)}
       /\ ~(a.pc >= Len(ys)) =>
            Sim(F)!StepOne(now) = {Moved(F, now, move) : move \in Moves(Names(F), y, q)}
  <2>1. ~(Len(now) > MaxCallDepth)
    BY <1>1, <1>8
  <2>2. f.name = a.fn /\ f.blocks[g].id = a.block
    BY <1>3, <1>5, <1>10, <1>11, <1>13 DEF s
  <2> QED BY <1>1, <1>5, <2>1, <2>2, StepAt DEF a, f
<1>17. CASE b.pc >= Len(xs)
  <2>1. e = Ended(old) /\ \A u \in Sim(F)!StepOne(now) : u = Ended(now)
    BY <1>14, <1>15, <1>16, <1>17
  <2>2. SameOutcome(S, F, e, Ended(now))
    BY <2>1, EndTogether DEF SameOutcome
  <2> QED BY <2>1, <2>2 DEF Goal
<1>18. CASE ~(b.pc >= Len(xs))
  <2>1. x \in Instr /\ b.pc + 1 \in DOMAIN xs
    BY <1>6, <1>14, <1>18, FuncParts
  <2>2. \A l \in DOMAIN x.inputs : r[l] \in Optional(AllValues)
    BY <1>2, <1>6, <2>1, OperandTypes DEF b
  <2> DEFINE moves == Moves(Names(S), x, r)
  <2>3. {Moved(S, old, move) : move \in moves} = {e}
    BY <1>15, <1>18
  <2>0. /\ xs = s.blocks[d].instrs /\ ys = f.blocks[g].instrs /\ x = InstrAt(s, d, b.pc + 1)
        /\ y = InstrAt(f, g, a.pc + 1) /\ r = Operands(s, b, x) /\ q = Operands(f, a, y)
    OBVIOUS
  <2> HIDE DEF xs, ys, x, y, r, q
  <2>4. \A move \in moves : Moved(S, old, move) = e
    <3> HIDE DEF moves
    <3> QED BY <2>3
  <2>5. \E move : move \in moves
    <3> HIDE DEF moves
    <3> QED BY <2>3
  <2>6. \A move \in moves : move.kind # "fail"
    <3> SUFFICES ASSUME NEW move \in moves, move.kind = "fail" PROVE FALSE
      OBVIOUS
    <3>1. \A kind, id, z : Move(kind, id, z).kind = kind
      BY DEF Move
    <3>2. \E error \in StepErrors : move = Move("fail", 0, error)
      BY <2>1, <2>2, <3>1, MoveKinds
    <3>3. Moved(S, old, move).error \in StepErrors
      BY <3>2, FailingMove
    <3> QED BY <2>4, <3>3 DEF StepErrors
  <2>7. x.op = "Ret" /\ x.inputs # <<>> /\ r[1] = None => Constant(f, x.inputs[1]) = None
    <3>1. s.name = b.fn /\ f.name = b.fn
      BY <1>5, <1>13 DEF s
    <3> QED BY <1>1, <1>5, <1>9, <1>18, <2>1, <3>1, ReturnsWritten DEF b, s, f, x, r, xs
  <2>8. CASE /\ a.pc + 1 \in DOMAIN ys /\ ~(a.pc >= Len(ys)) /\ Stands(f, x, y)
             /\ SamePlace(s, f, Past(b), Past(a))
    <3>0. b.pc + 1 \in DOMAIN s.blocks[d].instrs /\ a.pc + 1 \in DOMAIN f.blocks[g].instrs
      BY <2>0, <2>1, <2>8
    <3>1. Paired(s, f, b, a, d, b.pc + 1, x, r, g, a.pc + 1, y, q)
      BY <2>0, <2>8, <3>0 DEF Paired
    <3>3. Decided(S, f, old, Names(S), x, r, e)
      BY <2>4, <2>6, <2>7 DEF Decided
    <3>4. ASSUME NEW mv \in Moves(Names(S), y, q) PROVE SameOutcome(S, F, e, Moved(F, now, mv))
      BY <1>20, <3>1, <3>3, MovesTogether
    <3>2. Sim(F)!StepOne(now) = {Moved(F, now, move) : move \in Moves(Names(S), y, q)}
      BY <1>7, <1>16, <2>8
    <3> QED BY <3>2, <3>4 DEF Goal
  <2>9. CASE Elided(f, x) /\ SamePlace(s, f, Past(b), a)
    <3>1. PICK some : some \in moves
      BY <2>5
    <3>2. \E move \in moves : \E t : Moved(S, old, move) = Going(t) /\ SameStack(S, F, t, now)
      BY <1>0, <1>3, <1>13, <2>0, <2>1, <2>6, <2>9, <3>1, Alone
    <3> QED BY <2>4, <3>2 DEF Goal
  <2> QED BY <1>14, <1>18, <2>8, <2>9
<1> QED BY <1>17, <1>18


(***************************************************************************)
(* Executions.                                                             *)
(***************************************************************************)
\* The stacks of functions of the module.
StacksOf(m) == {s \in Stacks : \A i \in 1 .. Len(s) : s[i].fn \in Names(m)}

LEMMA ModuleOptimized ==
  ASSUME SoundInv, DerivedInv, phase = "done", \A program \in Programs : DistinctIn(program)
  PROVE  Optimized(source, functions)
<1>1. /\ StateInv /\ FunctionsSound /\ BranchTargetsExist /\ EntryKept
      /\ source \in Programs /\ functions \in Seq(Func) /\ Len(functions) = Len(source)
  BY DEF SoundInv, StateInv
<1>2. source \in Seq({source[k] : k \in DOMAIN source})
  BY <1>1, OptimizerAssumption
<1>3. DOMAIN functions = DOMAIN source
  BY <1>1, <1>2
<1>4. \A k \in DOMAIN source : source[k] \in Func /\ Sound(source[k])
  BY <1>1, <1>3, SourceFunction
<1>5. source \in Seq(Func)
  BY <1>2, <1>4
<1>6. ValidModule(source)
  BY <1>1, <1>4, <1>5 DEF ValidModule, Sound
<1>7. \A k \in DOMAIN source : functions[k].name = source[k].name
  BY <1>3 DEF DerivedInv, Derived
<1>8. DistinctIn(functions)
  BY <1>1, <1>3, <1>7 DEF DistinctIn
<1>9. ValidModule(functions)
  BY <1>1, <1>8 DEF ValidModule, FunctionsSound, Sound
<1>10. ASSUME NEW k \in DOMAIN source
       PROVE  /\ Derived(source[k], functions[k])
              /\ \A b \in DOMAIN functions[k].blocks : BranchesLand(functions[k], b)
              /\ source[k].blocks # <<>> =>
                   functions[k].blocks # <<>> /\ functions[k].blocks[1].id = source[k].blocks[1].id
  BY <1>1, <1>3 DEF DerivedInv, BranchTargetsExist, EntryKept, Erasing
<1> QED BY <1>1, <1>6, <1>9, <1>10 DEF Optimized

LEMMA TopReplaced ==
  ASSUME NEW m, NEW s \in StacksOf(m), NEW g \in SimFrame, g.fn = TopOf(s).fn
  PROVE  WithTop(s, g) \in StacksOf(m)
<1> DEFINE t == WithTop(s, g)
<1>1. s \in Stacks /\ Len(s) \in 1 .. Len(s) /\ \A i \in 1 .. Len(s) : s[i].fn \in Names(m)
  BY StackParts DEF StacksOf
<1>2. /\ t \in Stacks /\ Len(t) = Len(s) /\ TopOf(t) = g
      /\ \A i \in 1 .. Len(s) : i # Len(s) => t[i] = s[i]
  BY <1>1, WithTopStack
<1> HIDE DEF t
<1>3. ASSUME NEW i \in 1 .. Len(t) PROVE t[i].fn \in Names(m)
  <2>1. CASE i = Len(t)
    BY <1>1, <1>2, <2>1 DEF TopOf
  <2>2. CASE i # Len(t)
    BY <1>1, <1>2, <2>2
  <2> QED BY <2>1, <2>2
<1> QED BY <1>2, <1>3 DEF StacksOf, t

LEMMA CallersOf ==
  ASSUME NEW m, NEW s \in StacksOf(m), Len(s) # 1
  PROVE  Callers(s) \in StacksOf(m)
<1> DEFINE t == Callers(s)
           n == Len(s)
<1>1. s \in Stacks /\ n \in Nat \ {0} /\ n # 1 /\ \A i \in 1 .. n : s[i].fn \in Names(m)
  BY StackParts DEF StacksOf
<1>2. t \in Seq(SimFrame) /\ Len(t) = n - 1 /\ \A i \in 1 .. n - 1 : t[i] = s[i]
  BY <1>1, CallersStack
<1> HIDE DEF t, n
<1>3. t \in Stacks
  BY <1>1, <1>2 DEF Stacks
<1>4. ASSUME NEW i \in 1 .. n - 1 PROVE t[i].fn \in Names(m)
  <2>1. i \in 1 .. n
    BY <1>1
  <2> QED BY <1>1, <1>2, <2>1
<1> QED BY <1>2, <1>3, <1>4 DEF StacksOf, t

LEMMA EntryOf ==
  ASSUME NEW m, ValidModule(m), NEW name \in Names(m), NEW g, g = Sim(m)!EntryFrame(name)
  PROVE  g \in SimFrame /\ g.fn = name
<1>1. PICK k \in DOMAIN m : m[k].name = name
  BY DEF Names
<1>2. m \in Seq(Func) /\ DistinctIn(m) /\ UniqueIds(m[k])
  BY DEF ValidModule
<1> DEFINE f == m[k]
           start == IF f.blocks = <<>> THEN 0 ELSE f.blocks[1].id
           empty == [v \in 1 .. Len(f.values) |-> None]
<1>3. Sim(m)!CachedFunction(name) = f /\ f \in Func /\ name \in STRING
  <2>1. f \in Func
    BY <1>2
  <2>2. f.name \in STRING
    BY <2>1 DEF Func
  <2> QED BY <1>1, <1>2, <2>1, <2>2, CachedParts
<1> HIDE DEF f
<1>4. f.values \in Seq(Optional(RegValue)) /\ f.blocks \in Seq(Block)
  BY <1>3, FuncParts
<1>5. empty \in Seq(Optional(AllValues))
  BY <1>4 DEF Optional
<1>6. start \in Nat
  <2>1. CASE f.blocks # <<>>
    <3>1. f.blocks[1] \in Block
      BY <1>4, <2>1
    <3> QED BY <2>1, <3>1 DEF Block, IRBlock
  <2> QED BY <2>1
<1>7. g = [fn |-> name, values |-> empty, block |-> start, pc |-> 0]
  BY <1>3 DEF Sim!EntryFrame
<1> HIDE DEF start, empty
<1> QED BY <1>3, <1>5, <1>6, <1>7 DEF SimFrame

LEMMA CalledOf ==
  ASSUME NEW m, ValidModule(m), NEW s \in StacksOf(m), NEW name \in Names(m), NEW g, g = Sim(m)!EntryFrame(name),
         NEW t, t = Append(s, g)
  PROVE  t \in StacksOf(m)
<1> SUFFICES ASSUME NEW n, n = Len(s) PROVE t \in StacksOf(m)
  OBVIOUS
<1>1. s \in Seq(SimFrame) /\ n \in Nat /\ \A i \in 1 .. n : s[i].fn \in Names(m)
  BY StackParts DEF StacksOf
<1>2. g \in SimFrame /\ g.fn = name
  BY EntryOf
<1>3. t \in Seq(SimFrame) /\ Len(t) = n + 1 /\ t[n + 1] = g /\ \A i \in 1 .. n : t[i] = s[i]
  BY <1>1, <1>2
<1>4. t # <<>>
  BY <1>1, <1>3
<1>5. ASSUME NEW i \in 1 .. n + 1 PROVE t[i].fn \in Names(m)
  <2>1. i = n + 1 \/ i \in 1 .. n
    BY <1>1
  <2> QED BY <1>1, <1>2, <1>3, <2>1
<1> QED BY <1>3, <1>4, <1>5 DEF StacksOf, Stacks

LEMMA ReturnEffect ==
  ASSUME NEW e, NEW s, NEW t, NEW out,
         e = [stack |-> t, returned |-> out, done |-> Len(s) = 1, error |-> "none"], ~e.done
  PROVE  Len(s) # 1 /\ e.stack = t
  OBVIOUS

\* A step stays within the functions of the module.
LEMMA MovedWithin ==
  ASSUME NEW m, ValidModule(m), NEW s \in StacksOf(m), NEW x \in Instr,
         NEW r, \A k \in DOMAIN x.inputs : r[k] \in Optional(AllValues),
         NEW move \in Moves(Names(m), x, r), NEW e, e = Moved(m, s, move), e.error = "none", ~e.done
  PROVE  e.stack \in StacksOf(m)
<1> DEFINE b == TopOf(s)
           Goal == e.stack \in StacksOf(m)
<1>1. b \in SimFrame /\ Past(b) \in SimFrame /\ Past(b).fn = b.fn
  BY StackParts, FrameForms DEF StacksOf
<1>2. WithTop(s, Past(b)) \in StacksOf(m)
  BY <1>1, TopReplaced
<1>3. ASSUME NEW t \in StacksOf(m), e = Going(t) PROVE Goal
  BY <1>3 DEF Going
<1> HIDE DEF Goal
<1>4. ASSUME move = Move("next", 0, None) PROVE Goal
  <2>1. e = Going(WithTop(s, Past(b)))
    BY <1>4, MovedOn
  <2> QED BY <1>2, <1>3, <2>1
<1>5. ASSUME NEW error \in StepErrors, move = Move("fail", 0, error) PROVE Goal
  BY <1>5, FailingMove DEF StepErrors
<1>6. ASSUME NEW z \in AllValues, move = Move("write", x.output, z) PROVE Goal
  <2>1. e = Going(WithTop(s, Holding(Past(b), x.output, z)))
    BY <1>6, MovedWriting
  <2>2. CASE x.output \in Nat
    <3> DEFINE g == Holding(Past(b), x.output, z)
    <3>1. g \in SimFrame /\ g.fn = b.fn
      BY <1>1, <2>2, HeldFrame
    <3> HIDE DEF g
    <3>2. WithTop(s, g) \in StacksOf(m)
      BY <3>1, TopReplaced
    <3> QED BY <1>3, <2>1, <3>2 DEF g
  <2>3. CASE x.output = None
    <3>1. x.op \in DataOp
      <4>1. \A kind, id, v : Move(kind, id, v).kind = kind
        BY DEF Move
      <4> QED BY <1>6, <4>1, MoveKinds
    <3>2. move \in DataMoves(x, r) /\ ~Computes(x)
      BY <2>3, <3>1, Zenon DEF Moves, DataOp, BinaryOp, UnaryOp, Computes
    <3>3. move = Move("next", 0, None)
      BY <3>2 DEF DataMoves
    <3> QED BY <1>4, <3>3
  <2> QED BY <2>2, <2>3, InstrParts DEF Optional
<1>7. ASSUME NEW t \in Nat, move = Move("goto", t, None) PROVE Goal
  <2> DEFINE g == Gone(Past(b), t)
  <2>1. e = Going(WithTop(s, g))
    BY <1>7, MovedTo
  <2>2. g \in SimFrame /\ g.fn = b.fn
    BY <1>1, GoneFrame
  <2> HIDE DEF g
  <2>3. WithTop(s, g) \in StacksOf(m)
    BY <2>2, TopReplaced
  <2> QED BY <1>3, <2>1, <2>3
<1>8. ASSUME NEW name \in Names(m), move = Move("call", 0, name) PROVE Goal
  <2> DEFINE t == Append(WithTop(s, Past(b)), Sim(m)!EntryFrame(name))
  <2>1. e = Going(t)
    BY <1>8, MovedInto
  <2>2. t \in StacksOf(m)
    BY <1>2, CalledOf, Zenon
  <2> HIDE DEF t
  <2> QED BY <1>3, <2>1, <2>2
<1>9. ASSUME NEW out, move = Move("return", 0, out) PROVE Goal
  <2>1. e = [stack |-> Callers(s), returned |-> out, done |-> Len(s) = 1, error |-> "none"]
    BY <1>9, MovedBack
  <2>2. Len(s) # 1 /\ e.stack = Callers(s)
    BY <2>1, ReturnEffect
  <2> QED BY <2>2, CallersOf DEF Goal
<1>10. \A t \in Targets(x) : t \in Nat
  BY InstrParts DEF Targets, Optional
<1>11. \/ move = Move("next", 0, None)
       \/ \E error \in StepErrors : move = Move("fail", 0, error)
       \/ \E z \in AllValues : move = Move("write", x.output, z)
       \/ \E t \in Nat : move = Move("goto", t, None)
       \/ \E name \in Names(m) : move = Move("call", 0, name)
       \/ \E out : move = Move("return", 0, out)
  BY <1>10, MoveKinds
<1>12. Goal
  BY <1>4, <1>5, <1>6, <1>7, <1>8, <1>9, <1>11, Zenon
<1> QED BY <1>12 DEF Goal

LEMMA StepWithin ==
  ASSUME NEW m, ValidModule(m), NEW s \in StacksOf(m), NEW e \in Sim(m)!StepOne(s)
  PROVE  /\ e.error \in StepErrors \cup {"none"}
         /\ e.error = "none" /\ ~e.done => e.stack \in StacksOf(m)
<1> DEFINE b == TopOf(s)
<1>1. s \in Stacks /\ b \in SimFrame /\ b.fn \in Names(m)
  BY StackParts DEF StacksOf, TopOf
<1>2. PICK k \in DOMAIN m : m[k].name = b.fn
  BY <1>1 DEF Names
<1>3. e.error \in StepErrors \cup {"none"}
  BY <1>1, <1>2, StepFails
<1> DEFINE f == m[k]
<1>4. f \in Func
  BY DEF ValidModule
<1>0. b = TopOf(s) /\ f = m[k]
  OBVIOUS
<1> HIDE DEF b, f
<1>5. ASSUME e.error = "none", ~e.done PROVE e.stack \in StacksOf(m)
  <2>1. ~(Len(s) > MaxCallDepth) /\ IsBlockId(f, b.block)
    <3>1. "none" \notin StepErrors
      BY DEF StepErrors
    <3> QED BY <1>0, <1>1, <1>2, <1>5, <3>1, StepAt
  <2>2. PICK d \in DOMAIN f.blocks : f.blocks[d].id = b.block
    BY <2>1 DEF IsBlockId
  <2>3. CASE b.pc >= Len(f.blocks[d].instrs)
    <3>1. e = Ended(s)
      BY <1>0, <1>1, <1>2, <2>1, <2>2, <2>3, StepAt
    <3>2. Len(s) # 1 /\ e.stack = Callers(s)
      BY <1>5, <3>1 DEF Ended, Going
    <3> QED BY <3>2, CallersOf
  <2>4. CASE ~(b.pc >= Len(f.blocks[d].instrs))
    <3> DEFINE x == InstrAt(f, d, b.pc + 1)
               r == Operands(f, b, x)
    <3>1. /\ b.pc + 1 \in DOMAIN f.blocks[d].instrs
          /\ Sim(m)!StepOne(s) = {Moved(m, s, move) : move \in Moves(Names(m), x, r)}
      BY <1>0, <1>1, <1>2, <2>1, <2>2, <2>4, StepAt
    <3>2. x \in Instr
      BY <1>4, <3>1, FuncParts
    <3>3. \A j \in DOMAIN x.inputs : r[j] \in Optional(AllValues)
      BY <1>1, <1>4, <3>2, OperandTypes
    <3>4. PICK move \in Moves(Names(m), x, r) : e = Moved(m, s, move)
      BY <3>1
    <3> HIDE DEF x, r
    <3> QED BY <1>5, <3>2, <3>3, <3>4, MovedWithin
  <2> QED BY <2>3, <2>4
<1> QED BY <1>3, <1>5

\* What the original does next, when that is determined.
Determined(S, F, stack, e) == Sim(S)!StepOne(stack) = {e} /\ ~Unwritten(S, F, stack)

\* h is the history of the execution x of the original.
History(S, F, h, x) ==
  /\ x.steps \in Nat /\ h[x.steps] = x
  /\ x.status = "running" => x.stack \in StacksOf(S)
  /\ \A i \in 0 .. x.steps - 1 :
       /\ h[i].status = "running" /\ h[i].stack \in StacksOf(S)
       /\ \E e : Determined(S, F, h[i].stack, e) /\ h[i + 1] = Extended(h[i], e)

\* The optimized function is where the original was after i steps.
Met(S, F, h, i, y) ==
  /\ h[i].status = "running" /\ SameStack(S, F, h[i].stack, y.stack)
  /\ h[i].trace = y.trace /\ y.trace \in Seq(AllValues)
  /\ y.status = "running" /\ y.steps \in Nat /\ y.steps <= i

Follows(S, F, h, x, y) ==
  \/ \E i \in 0 .. x.steps : Met(S, F, h, i, y)
  \/ /\ x.status = "finished" /\ y.status = "finished"
     /\ y.trace = x.trace /\ y.steps \in Nat /\ y.steps <= x.steps

LEMMA ExtendedForm ==
  ASSUME NEW x, NEW e, NEW z, z = Extended(x, e)
  PROVE  /\ z.stack = e.stack /\ z.trace = x.trace \o e.returned /\ z.steps = x.steps + 1
         /\ z.status = IF e.error # "none" THEN e.error ELSE IF e.done THEN "finished" ELSE "running"
  BY DEF Extended

\* A step of an execution that goes on or is over did not fail.
LEMMA StepSucceeds ==
  ASSUME NEW S, ValidModule(S), NEW s \in StacksOf(S), NEW e \in Sim(S)!StepOne(s),
         NEW x, NEW z, z = Extended(x, e)
  PROVE  /\ z.status # "waiting" /\ z.status # "undefined"
         /\ z.status = "running" => e.error = "none" /\ ~e.done /\ e.stack \in StacksOf(S)
         /\ z.status = "finished" => e.error = "none" /\ e.done
<1>1. /\ e.error \in StepErrors \cup {"none"}
      /\ e.error = "none" /\ ~e.done => e.stack \in StacksOf(S)
  BY StepWithin
<1>2. z.status = IF e.error # "none" THEN e.error ELSE IF e.done THEN "finished" ELSE "running"
  BY ExtendedForm
<1> QED BY <1>1, <1>2 DEF StepErrors

\* The original takes a step.
LEMMA HistoryGrows ==
  ASSUME NEW S, NEW F, ValidModule(S), NEW h, NEW x, History(S, F, h, x), x.status = "running",
         NEW e, Determined(S, F, x.stack, e), NEW z, z = Extended(x, e),
         NEW y, Follows(S, F, h, x, y)
  PROVE  \E g : History(S, F, g, z) /\ Follows(S, F, g, z, y)
<1> DEFINE n == x.steps
           g == [i \in 0 .. n + 1 |-> IF i = n + 1 THEN z ELSE h[i]]
<1>1. /\ n \in Nat /\ h[n] = x /\ x.stack \in StacksOf(S)
      /\ \A i \in 0 .. n - 1 :
           /\ h[i].status = "running" /\ h[i].stack \in StacksOf(S)
           /\ \E d : Determined(S, F, h[i].stack, d) /\ h[i + 1] = Extended(h[i], d)
  BY DEF History
<1>2. z.steps = n + 1
  BY ExtendedForm
<1>3. z.status = "running" => z.stack \in StacksOf(S)
  <2>1. e \in Sim(S)!StepOne(x.stack)
    BY DEF Determined
  <2>2. z.status = "running" => e.stack \in StacksOf(S)
    BY <1>1, <2>1, StepSucceeds
  <2>3. z.stack = e.stack
    BY DEF Extended
  <2> QED BY <2>2, <2>3
<1> HIDE DEF n
<1>4. g[n + 1] = z /\ \A i \in 0 .. n : g[i] = h[i]
  BY <1>1
<1> HIDE DEF g
<1>5. ASSUME NEW i \in 0 .. n
      PROVE  /\ g[i].status = "running" /\ g[i].stack \in StacksOf(S)
             /\ \E d : Determined(S, F, g[i].stack, d) /\ g[i + 1] = Extended(g[i], d)
  <2>1. CASE i = n
    BY <1>1, <1>4, <2>1
  <2>2. CASE i # n
    <3>1. i \in 0 .. n - 1 /\ i + 1 \in 0 .. n
      BY <1>1, <2>2
    <3> QED BY <1>1, <1>4, <3>1
  <2> QED BY <2>1, <2>2
<1>6. History(S, F, g, z)
  <2>1. n + 1 \in Nat /\ (n + 1) - 1 = n
    BY <1>1
  <2> QED BY <1>2, <1>3, <1>4, <1>5, <2>1 DEF History
<1>7. PICK i \in 0 .. n : Met(S, F, h, i, y)
  BY DEF Follows, n
<1>8. Met(S, F, g, i, y) /\ i \in 0 .. n + 1
  BY <1>1, <1>4, <1>7 DEF Met
<1>9. Follows(S, F, g, z, y)
  BY <1>2, <1>8 DEF Follows
<1> QED BY <1>6, <1>9

\* The optimized function takes a step from where the original was: the
\* original was there for another step, or their steps have the same outcome.
LEMMA FollowOn ==
  ASSUME NEW S, NEW F, Optimized(S, F), NEW h, NEW x, History(S, F, h, x), x.status = "finished",
         NEW y, NEW i \in 0 .. x.steps, Met(S, F, h, i, y), NEW d \in Sim(F)!StepOne(y.stack)
  PROVE  \/ i + 1 \in 0 .. x.steps /\ Met(S, F, h, i + 1, y)
         \/ Follows(S, F, h, x, Extended(y, d))
<1> DEFINE n == x.steps
           z == Extended(y, d)
<1>1. /\ n \in Nat /\ h[n] = x
      /\ \A j \in 0 .. n - 1 :
           /\ h[j].status = "running" /\ h[j].stack \in StacksOf(S)
           /\ \E e : Determined(S, F, h[j].stack, e) /\ h[j + 1] = Extended(h[j], e)
  BY DEF History
<1>2. /\ h[i].status = "running" /\ SameStack(S, F, h[i].stack, y.stack)
      /\ h[i].trace = y.trace /\ y.trace \in Seq(AllValues)
      /\ y.status = "running" /\ y.steps \in Nat /\ y.steps <= i
  BY DEF Met
<1>3. z.stack = d.stack /\ z.trace = y.trace \o d.returned /\ z.steps = y.steps + 1
  BY DEF Extended
<1>4. z.status = IF d.error # "none" THEN d.error ELSE IF d.done THEN "finished" ELSE "running"
  BY DEF Extended
<1>0. z = Extended(y, d) /\ n = x.steps
  OBVIOUS
<1> HIDE DEF n, z
<1>5. i \in 0 .. n - 1 /\ i \in Nat /\ i + 1 \in 0 .. n
  <2>1. i # n
    BY <1>1, <1>2
  <2> QED BY <1>0, <1>1, <2>1
<1>6. PICK e : Determined(S, F, h[i].stack, e) /\ h[i + 1] = Extended(h[i], e)
  BY <1>1, <1>5
<1> DEFINE next == h[i + 1]
<1>13. next = Extended(h[i], e)
  BY <1>6
<1> HIDE DEF next
<1>7. /\ next.stack = e.stack /\ next.trace = h[i].trace \o e.returned
      /\ next.status = IF e.error # "none" THEN e.error ELSE IF e.done THEN "finished" ELSE "running"
  BY <1>13 DEF Extended
<1>8. next.status \in {"running", "finished"} /\ (next.status = "finished" => i + 1 = n)
  <2>1. i + 1 = n \/ i + 1 \in 0 .. n - 1
    BY <1>1, <1>5
  <2> QED BY <1>1, <2>1 DEF next
<1>9. e.error = "none"
  <2>1. ValidModule(S) /\ h[i].stack \in StacksOf(S) /\ e \in Sim(S)!StepOne(h[i].stack)
    BY <1>1, <1>5, <1>6 DEF Optimized, Determined
  <2>2. e.error \in StepErrors \cup {"none"}
    BY <2>1, StepWithin
  <2> QED BY <1>7, <1>8, <2>2 DEF StepErrors
<1>10. \/ \E t : e = Going(t) /\ SameStack(S, F, t, y.stack)
       \/ \A u \in Sim(F)!StepOne(y.stack) : SameOutcome(S, F, e, u)
  BY <1>2, <1>6, <1>9, StepAgrees DEF Determined
<1>11. CASE \E t : e = Going(t) /\ SameStack(S, F, t, y.stack)
  <2>1. /\ e.returned = <<>> /\ ~e.done /\ SameStack(S, F, e.stack, y.stack)
    BY <1>11 DEF Going
  <2>2. y.trace \o <<>> = y.trace
    BY <1>2
  <2>3. next.status = "running" /\ next.trace = y.trace /\ SameStack(S, F, next.stack, y.stack)
    <3> QED BY <1>2, <1>7, <1>9, <2>1, <2>2
  <2>4. y.steps <= i + 1
    BY <1>2, <1>5
  <2>5. Met(S, F, h, i + 1, y)
    BY <1>2, <2>3, <2>4 DEF Met, next
  <2> QED BY <1>0, <1>5, <2>5
<1>12. CASE SameOutcome(S, F, e, d)
  <2>1. /\ d.error = "none" /\ d.done = e.done /\ d.returned = e.returned /\ d.returned \in Seq(AllValues)
        /\ ~e.done => SameStack(S, F, e.stack, d.stack)
    BY <1>12 DEF SameOutcome
  <2>2. z.trace \in Seq(AllValues) /\ z.steps \in Nat /\ z.steps <= i + 1
    BY <1>2, <1>3, <1>5, <2>1
  <2>3. z.trace = next.trace
    <3> QED BY <1>2, <1>3, <1>7, <2>1
  <2>4. CASE e.done
    <3>1. z.status = "finished" /\ next.status = "finished"
      <4> QED BY <1>4, <1>7, <1>9, <2>1, <2>4
    <3>2. i + 1 = n /\ next = x
      <4>1. i + 1 = n
        BY <1>8, <3>1
      <4> QED BY <1>1, <4>1 DEF next
    <3>3. z.trace = x.trace /\ z.steps <= x.steps
      BY <1>0, <2>2, <2>3, <3>2
    <3> QED BY <1>0, <2>2, <3>1, <3>3 DEF Follows
  <2>5. CASE ~e.done
    <3>1. /\ z.status = "running" /\ next.status = "running" /\ SameStack(S, F, next.stack, z.stack)
      <4> QED BY <1>3, <1>4, <1>7, <1>9, <2>1, <2>5
    <3>2. Met(S, F, h, i + 1, z)
      BY <2>2, <2>3, <3>1 DEF Met, next
    <3> QED BY <1>0, <1>5, <3>2 DEF Follows
  <2> QED BY <2>4, <2>5
<1> QED BY <1>10, <1>11, <1>12

\* A non-empty set of naturals with an upper bound has a greatest element.
LEMMA BoundedSetHasMax ==
  ASSUME NEW S \in SUBSET Nat, S # {}, NEW n \in Nat, \A k \in S : k <= n
  PROVE  \E k \in S : \A j \in S : j <= k
<1> DEFINE D == {n - k : k \in S}
<1>1. D \subseteq Nat /\ D # {}
  <2>1. \A k \in S : k \in Nat /\ n - k \in Nat
    OBVIOUS
  <2>2. PICK k \in S : TRUE
    OBVIOUS
  <2>3. n - k \in D
    BY <2>2
  <2>4. \A d \in D : d \in Nat
    BY <2>1
  <2> QED BY <2>3, <2>4
<1>2. PICK x \in D : \A y \in D : ~ (<<y, x>> \in OpToRel(<, Nat))
  <2> HIDE DEF D
  <2> QED BY <1>1, NatLessThanWellFounded, WFMin
<1>3. \A y \in D : x <= y
  <2> SUFFICES ASSUME NEW y \in D PROVE x <= y
    OBVIOUS
  <2> HIDE DEF D
  <2>1. x \in Nat /\ y \in Nat
    BY <1>1
  <2>2. ~(y < x)
    BY <1>2, <2>1, ~ (<<y, x>> \in OpToRel(<, Nat)) DEF OpToRel
  <2> QED BY <2>1, <2>2
<1>4. PICK k \in S : x = n - k
  BY <1>2
<1>5. ASSUME NEW j \in S PROVE j <= k
  <2>1. n - j \in D
    OBVIOUS
  <2>2. x <= n - j
    BY <1>3, <2>1
  <2>3. j \in Nat /\ k \in Nat
    OBVIOUS
  <2> QED BY <1>4, <2>2, <2>3
<1>6. QED
  BY <1>5

\* The optimized function takes a step.
LEMMA AfterStep ==
  ASSUME NEW S, NEW F, Optimized(S, F), NEW h, NEW x, History(S, F, h, x), x.status = "finished",
         NEW y, Follows(S, F, h, x, y), y.status = "running", NEW d \in Sim(F)!StepOne(y.stack)
  PROVE  Follows(S, F, h, x, Extended(y, d))
<1> DEFINE M == {i \in 0 .. x.steps : Met(S, F, h, i, y)}
<1>1. x.steps \in Nat
  BY DEF History
<1>2. M \in SUBSET Nat /\ M # {} /\ \A i \in M : i <= x.steps
  BY <1>1 DEF Follows
<1>3. PICK i \in M : \A j \in M : j <= i
  <2> HIDE DEF M
  <2> QED BY <1>1, <1>2, BoundedSetHasMax
<1>4. i \in 0 .. x.steps /\ Met(S, F, h, i, y) /\ i \in Nat
  BY <1>2, <1>3
<1>5. \/ i + 1 \in 0 .. x.steps /\ Met(S, F, h, i + 1, y)
      \/ Follows(S, F, h, x, Extended(y, d))
  BY <1>4, FollowOn
<1>6. ~(i + 1 \in 0 .. x.steps /\ Met(S, F, h, i + 1, y))
  <2> SUFFICES ASSUME i + 1 \in M PROVE FALSE
    OBVIOUS
  <2>1. i + 1 <= i
    BY <1>3
  <2> QED BY <1>4, <2>1
<1> QED BY <1>5, <1>6

IsExecution(x) == x = [stack |-> x.stack, trace |-> x.trace, status |-> x.status, steps |-> x.steps]

\* Both executions begin.
LEMMA BothBegin ==
  ASSUME NEW S, NEW F, Optimized(S, F), NEW name \in Names(S),
         NEW x, x = Execution(Sim(S)!EntryFrame(name)), NEW y, y = Execution(Sim(F)!EntryFrame(name))
  PROVE  /\ IsExecution(x) /\ x.status = "running"
         /\ \E h : History(S, F, h, x) /\ Follows(S, F, h, x, y)
<1> DEFINE b == Sim(S)!EntryFrame(name)
           a == Sim(F)!EntryFrame(name)
           h == [i \in {0} |-> x]
<1>1. b \in SimFrame /\ a \in SimFrame /\ SameFrame(S, F, b, a)
  BY Enter
<1>2. b.fn = name
  BY EntryOf DEF Optimized
<1>3. x = [stack |-> <<b>>, trace |-> <<>>, status |-> "running", steps |-> 0]
  BY DEF Execution
<1>4. y = [stack |-> <<a>>, trace |-> <<>>, status |-> "running", steps |-> 0]
  BY DEF Execution
<1> HIDE DEF b, a
<1>5. /\ <<b>> \in Seq(SimFrame) /\ Len(<<b>>) = 1 /\ <<b>>[1] = b /\ <<b>> # <<>>
      /\ <<a>> \in Seq(SimFrame) /\ Len(<<a>>) = 1 /\ <<a>>[1] = a /\ <<a>> # <<>>
  BY <1>1
<1>6. \A i \in 1 .. 1 : i = 1
  OBVIOUS
<1>7. <<b>> \in StacksOf(S)
  BY <1>2, <1>5, <1>6 DEF StacksOf, Stacks
<1>8. SameStack(S, F, <<b>>, <<a>>)
  BY <1>1, <1>5, <1>6 DEF SameStack, Stacks
<1>9. /\ x.stack = <<b>> /\ x.trace = <<>> /\ x.status = "running" /\ x.steps = 0
      /\ y.stack = <<a>> /\ y.trace = <<>> /\ y.status = "running" /\ y.steps = 0
  BY <1>3, <1>4
<1>10. IsExecution(x)
  BY <1>3, <1>9 DEF IsExecution
<1>11. h[0] = x /\ \A i : i \notin 0 .. 0 - 1
  OBVIOUS
<1> HIDE DEF h
<1>12. History(S, F, h, x)
  BY <1>7, <1>9, <1>11 DEF History
<1>13. <<>> \in Seq(AllValues)
  OBVIOUS
<1>14. Met(S, F, h, 0, y)
  BY <1>8, <1>9, <1>11, <1>13 DEF Met
<1>15. Follows(S, F, h, x, y)
  BY <1>9, <1>14 DEF Follows
<1> QED BY <1>9, <1>10, <1>12, <1>15

(***************************************************************************)
(* The invariant of the executions.                                        *)
(***************************************************************************)
ExecInv ==
  \/ before = Waiting /\ after = Waiting
  \/ /\ phase = "done" /\ IsExecution(before) /\ before.status # "waiting"
     /\ before.status \in {"running", "finished"} =>
          \E h : /\ History(source, functions, h, before)
                 /\ Follows(source, functions, h, before, after)

DistinctNames == \A program \in Programs : DistinctIn(program)

\* Once the executions have begun the optimizer is not run any more.
LEMMA OptimizerRests == OptimizerStep => phase # "done"
  BY DEF OptimizerStep, StartPass, FoldConstant, EraseDeadInstr, SimplifyJump, NextBlock, VisitReachable,
         WorklistEmpty, EraseUnreachableBlock, FinishPass, EndRound, Running

LEMMA BeginExec ==
  SoundInv /\ DerivedInv /\ DistinctNames /\ Begin => ExecInv'
<1> SUFFICES ASSUME SoundInv, DerivedInv, DistinctNames, Begin PROVE ExecInv'
  OBVIOUS
<1>1. phase = "done" /\ UNCHANGED vars
  BY DEF Begin
<1>2. phase' = "done" /\ source' = source /\ functions' = functions
  BY <1>1 DEF vars
<1>3. Optimized(source, functions)
  BY <1>1, ModuleOptimized DEF DistinctNames
<1>4. PICK k \in DOMAIN source :
        /\ before' = Execution(Sim(source)!EntryFrame(source[k].name))
        /\ after' = Execution(Sim(functions)!EntryFrame(source[k].name))
  BY DEF Begin
<1>5. source[k].name \in Names(source)
  BY DEF Names
<1>6. /\ IsExecution(before') /\ before'.status = "running"
      /\ \E h : History(source, functions, h, before') /\ Follows(source, functions, h, before', after')
  BY <1>3, <1>4, <1>5, BothBegin
<1> QED BY <1>2, <1>6 DEF ExecInv, IsExecution

LEMMA BeforeExec ==
  SoundInv /\ DerivedInv /\ DistinctNames /\ ExecInv /\ ExecuteBefore => ExecInv'
<1> SUFFICES ASSUME SoundInv, DerivedInv, DistinctNames, ExecInv, ExecuteBefore PROVE ExecInv'
  OBVIOUS
<1>1. before.status = "running" /\ UNCHANGED <<vars, after>>
  BY DEF ExecuteBefore
<1>2. before # Waiting
  BY <1>1 DEF Waiting
<1>3. /\ phase = "done" /\ IsExecution(before)
      /\ \E h : /\ History(source, functions, h, before)
                /\ Follows(source, functions, h, before, after)
  BY <1>1, <1>2 DEF ExecInv
<1>4. phase' = "done" /\ source' = source /\ functions' = functions /\ after' = after
  BY <1>1, <1>3 DEF vars
<1>5. Optimized(source, functions)
  BY <1>3, ModuleOptimized DEF DistinctNames
<1>6. PICK h : /\ History(source, functions, h, before)
               /\ Follows(source, functions, h, before, after)
  BY <1>3
<1>7. CASE IsDefined(before.stack)
  <2>1. PICK e \in Sim(source)!StepOne(before.stack) : before' = Extended(before, e)
    BY <1>7 DEF ExecuteBefore
  <2>2. Determined(source, functions, before.stack, e)
    <3>1. ~Unwritten(source, functions, before.stack)
      BY <1>7 DEF IsDefined, ReturnsUnwritten, Unwritten
    <3>2. Sim(source)!StepOne(before.stack) = {e}
      BY <1>7, <2>1 DEF IsDefined
    <3> QED BY <3>1, <3>2 DEF Determined
  <2>3. ValidModule(source)
    BY <1>5 DEF Optimized
  <2>4. before.stack \in StacksOf(source)
    BY <1>1, <1>6 DEF History
  <2>5. before'.status # "waiting"
    BY <2>1, <2>3, <2>4, StepSucceeds
  <2>6. \E g : History(source, functions, g, before') /\ Follows(source, functions, g, before', after)
    BY <1>1, <1>6, <2>1, <2>2, <2>3, HistoryGrows
  <2>7. IsExecution(before')
    BY <2>1 DEF Extended, IsExecution
  <2> QED BY <1>4, <2>5, <2>6, <2>7 DEF ExecInv, IsExecution
<1>8. CASE ~IsDefined(before.stack)
  <2>1. before' = [before EXCEPT !.status = "undefined"]
    BY <1>8 DEF ExecuteBefore
  <2>2. IsExecution(before') /\ before'.status = "undefined"
    BY <1>3, <2>1 DEF IsExecution
  <2> QED BY <1>4, <2>2 DEF ExecInv, IsExecution
<1> QED BY <1>7, <1>8

LEMMA AfterExec ==
  SoundInv /\ DerivedInv /\ DistinctNames /\ ExecInv /\ ExecuteAfter => ExecInv'
<1> SUFFICES ASSUME SoundInv, DerivedInv, DistinctNames, ExecInv, ExecuteAfter PROVE ExecInv'
  OBVIOUS
<1>1. before.status # "running" /\ after.status = "running" /\ UNCHANGED <<vars, before>>
  BY DEF ExecuteAfter
<1>2. after # Waiting
  BY <1>1 DEF Waiting
<1>3. /\ phase = "done" /\ IsExecution(before) /\ before.status # "waiting"
      /\ before.status = "finished" =>
           \E h : /\ History(source, functions, h, before)
                  /\ Follows(source, functions, h, before, after)
  BY <1>1, <1>2 DEF ExecInv
<1>4. phase' = "done" /\ source' = source /\ functions' = functions /\ before' = before
  BY <1>1, <1>3 DEF vars
<1>5. Optimized(source, functions)
  BY <1>3, ModuleOptimized DEF DistinctNames
<1>6. CASE before.status = "finished"
  <2>1. PICK h : /\ History(source, functions, h, before)
                 /\ Follows(source, functions, h, before, after)
    BY <1>3, <1>6
  <2>2. PICK d \in Sim(functions)!StepOne(after.stack) : after' = Extended(after, d)
    BY DEF ExecuteAfter
  <2>3. Follows(source, functions, h, before, after')
    BY <1>1, <1>5, <1>6, <2>1, <2>2, AfterStep
  <2> QED BY <1>3, <1>4, <2>1, <2>3 DEF ExecInv, IsExecution
<1>7. CASE before.status # "finished"
  BY <1>1, <1>3, <1>4, <1>7 DEF ExecInv, IsExecution
<1> QED BY <1>6, <1>7

LEMMA NextExec ==
  SoundInv /\ DerivedInv /\ DistinctNames /\ ExecInv /\ [TNext]_<<vars, before, after>> => ExecInv'
<1> SUFFICES ASSUME SoundInv, DerivedInv, DistinctNames, ExecInv, [TNext]_<<vars, before, after>> PROVE ExecInv'
  OBVIOUS
<1>1. CASE before = Waiting /\ after = Waiting /\ UNCHANGED <<before, after>>
  BY <1>1 DEF ExecInv, Waiting
<1>2. CASE Optimize
  <2>1. phase # "done" /\ UNCHANGED <<before, after>>
    BY <1>2, OptimizerRests DEF Optimize
  <2> QED BY <1>1, <2>1 DEF ExecInv
<1>3. CASE OptimizeAgain
  <2>1. before = Waiting /\ UNCHANGED <<before, after>>
    BY <1>3 DEF OptimizeAgain
  <2>2. before.status = "waiting"
    BY <2>1 DEF Waiting
  <2> QED BY <1>1, <2>1, <2>2 DEF ExecInv
<1>4. CASE UNCHANGED <<vars, before, after>>
  BY <1>4 DEF ExecInv, vars, IsExecution, Waiting
<1> QED BY <1>2, <1>3, <1>4, BeginExec, BeforeExec, AfterExec DEF TNext

\* What the executions have in common gives what is promised.
LEMMA ExecAgrees == ExecInv => OptimizedRunAgrees
<1> SUFFICES ASSUME ExecInv, before.status = "finished"
             PROVE  /\ after.status \in {"running", "finished"}
                    /\ after.status = "finished" => after.trace = before.trace
                    /\ after.steps <= before.steps
                    /\ after.steps = before.steps => after.status = "finished"
  BY DEF OptimizedRunAgrees
<1>1. before # Waiting
  BY DEF Waiting
<1>2. PICK h : /\ History(source, functions, h, before)
               /\ Follows(source, functions, h, before, after)
  BY <1>1 DEF ExecInv
<1>3. before.steps \in Nat /\ h[before.steps] = before
  BY <1>2 DEF History
<1>4. CASE \E i \in 0 .. before.steps : Met(source, functions, h, i, after)
  <2>1. PICK i \in 0 .. before.steps : Met(source, functions, h, i, after)
    BY <1>4
  <2>2. h[i].status = "running" /\ after.status = "running" /\ after.steps \in Nat /\ after.steps <= i
    BY <2>1 DEF Met
  <2>3. i # before.steps /\ i <= before.steps /\ i \in Nat
    BY <1>3, <2>2
  <2>4. after.steps < before.steps
    BY <1>3, <2>2, <2>3
  <2> QED BY <1>3, <2>2, <2>4
<1>5. CASE ~ \E i \in 0 .. before.steps : Met(source, functions, h, i, after)
  BY <1>2, <1>5 DEF Follows
<1> QED BY <1>4, <1>5

\* What OptimizedRunAgrees states of executions, of every module whose
\* functions have different names, whatever the optimizer does to it.
THEOREM OptimizedFunctionRunsAlike == DistinctNames => (TSpec => []OptimizedRunAgrees)
<1> SUFFICES ASSUME DistinctNames PROVE TSpec => []OptimizedRunAgrees
  OBVIOUS
<1> DEFINE Inv == SoundInv /\ DerivedInv /\ UsedInv /\ ExecInv
<1>1. TInit => Inv
  BY InitSound, InitDerived DEF TInit, ExecInv
<1>2. Inv /\ [TNext]_<<vars, before, after>> => Inv'
  <2> SUFFICES ASSUME Inv, [TNext]_<<vars, before, after>> PROVE Inv'
    OBVIOUS
  <2>1. [Next]_vars
    BY DEF TNext, Optimize, OptimizeAgain, Begin, ExecuteBefore, ExecuteAfter, Next, vars
  <2> QED BY <2>1, NextSound, NextDerived, NextExec
<1>3. Inv => OptimizedRunAgrees
  BY ExecAgrees
<1> HIDE DEF Inv
<1> QED BY <1>1, <1>2, <1>3, PTL DEF TSpec
=============================================================================
