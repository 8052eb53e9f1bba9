-------------------------- MODULE Optimizer_proofs --------------------------
(***************************************************************************)
(* What the optimizer does to a module, for every module that Lowering can *)
(* give it, every list of passes and every set of constants.               *)
(*                                                                         *)
(* First what the four rewrites do to a function, then what a half         *)
(* rewritten function still is (SoundInv), then why a second run has       *)
(* nothing left to do (IdleInv), then why every change shrinks a function. *)
(***************************************************************************)
EXTENDS Optimizer, FiniteSetTheorems, TLAPS

Instr == IRInstr(RegValue)
Block == IRBlock(RegValue)

\* The functions of the module, with the index of whatever blocks.
Indexes == {<<>>} \cup {RebuildBlockIndex(bs) : bs \in Seq(Block)}
Func    == [name : STRING, blocks : Seq(Block), values : Seq(Optional(RegValue)),
            blockIndex : Indexes]

IndexOK(f) == f.blockIndex \in {<<>>, RebuildBlockIndex(f.blocks)}

OutputsBounded(f) ==
  \A b \in DOMAIN f.blocks : \A i \in DOMAIN f.blocks[b].instrs :
    InstrAt(f, b, i).output # None => InstrAt(f, b, i).output < Len(f.values)

Sound(f) == OutputsBounded(f) /\ ConstantIsDefinition(f) /\ SingleWriter(f) /\ UniqueIds(f)

(***************************************************************************)
(* The invariant of the rewriting.                                         *)
(***************************************************************************)
StateInv ==
  /\ source \in Programs /\ functions \in Seq(Func) /\ Len(functions) = Len(source)
  /\ passes \in Seq(PassNames) /\ fired \in Seq(PassNames)
  /\ runs \in Nat \ {0} /\ pass \in 1 .. (Len(passes) + 1)
  /\ changed \in BOOLEAN /\ touched \in BOOLEAN
  /\ cursor \in (Nat \ {0}) \X (Nat \ {0})
  /\ used \in SUBSET Nat /\ reached \in SUBSET Nat /\ worklist \in SUBSET reached
  /\ phase \in Phase
  /\ phase # "done" => current \in DOMAIN functions
  /\ phase = "done" => pass = 1 /\ ~changed
  /\ phase \in {"visit", "worklist"} => pass \in DOMAIN passes
  /\ phase = "worklist" => passes[pass] = "unreachable-block-elim" /\ ~touched /\ cursor = <<1, 1>>
  /\ phase = "visit" /\ passes[pass] = "unreachable-block-elim" => worklist = {}

\* The pass that runs eliminates unreachable blocks.
Eliminating == phase \in {"worklist", "visit"} /\ passes[pass] = "unreachable-block-elim"

\* What is known of the blocks found so far: the entry is one, those visited
\* lead to others, and those passed over while erasing are all of them.
ReachInv ==
  Eliminating =>
    /\ \A b \in DOMAIN Fn.blocks \cap {1} : Fn.blocks[b].id \in reached
    /\ \A b \in DOMAIN Fn.blocks :
         Fn.blocks[b].id \in reached \ worklist => BlockTargets(Fn, b) \subseteq reached
    /\ \A b \in DOMAIN Fn.blocks : b < cursor[1] => Fn.blocks[b].id \in reached

IndexInv == \A k \in DOMAIN functions : IndexOK(functions[k]) \/ Erasing(k)

FunctionsSound == \A k \in DOMAIN functions : Sound(functions[k])

SoundInv ==
  /\ StateInv /\ FunctionsSound /\ IndexInv /\ ReachInv
  /\ BranchTargetsExist /\ EntryKept

(***************************************************************************)
(* Instructions and blocks of a rewritten function.                        *)
(***************************************************************************)
SetInstr(f, b, i, x) == [f EXCEPT !.blocks[b].instrs[i] = x]
SetValue(f, v, c)    == [f EXCEPT !.values[v] = c]
DropInstr(f, b, i)   == [f EXCEPT !.blocks[b].instrs = Without(@, i)]
DropBlock(f, b)      == [f EXCEPT !.blocks = Without(@, b)]

\* What a function is made of.
LEMMA FuncParts ==
  ASSUME NEW f \in Func
  PROVE  /\ f.blocks \in Seq(Block) /\ f.values \in Seq(Optional(RegValue))
         /\ f.blockIndex \in Indexes /\ f.name \in STRING
         /\ Len(f.blocks) \in Nat /\ DOMAIN f.blocks = 1 .. Len(f.blocks)
         /\ \A b \in DOMAIN f.blocks :
              /\ f.blocks[b] \in Block /\ f.blocks[b].id \in Nat
              /\ f.blocks[b].instrs \in Seq(Instr)
              /\ Len(f.blocks[b].instrs) \in Nat
              /\ DOMAIN f.blocks[b].instrs = 1 .. Len(f.blocks[b].instrs)
              /\ \A i \in DOMAIN f.blocks[b].instrs : InstrAt(f, b, i) \in Instr
<1>1. f.blocks \in Seq(Block) /\ f.values \in Seq(Optional(RegValue)) /\ f.blockIndex \in Indexes /\ f.name \in STRING
  BY DEF Func
<1>2. ASSUME NEW b \in DOMAIN f.blocks
      PROVE  f.blocks[b] \in Block /\ f.blocks[b].id \in Nat /\ f.blocks[b].instrs \in Seq(Instr)
  <2>1. f.blocks[b] \in Block
    BY <1>1
  <2> QED BY <2>1 DEF Block, IRBlock, Instr
<1> QED BY <1>1, <1>2 DEF InstrAt

\* An instruction is overwritten: nothing else changes.
LEMMA UpdateInstr ==
  ASSUME NEW f \in Func, NEW b \in DOMAIN f.blocks, NEW i \in DOMAIN f.blocks[b].instrs,
         NEW x \in Instr, NEW g, g = SetInstr(f, b, i, x)
  PROVE  /\ g \in Func
         /\ g.values = f.values /\ g.blockIndex = f.blockIndex /\ g.name = f.name
         /\ DOMAIN g.blocks = DOMAIN f.blocks /\ Len(g.blocks) = Len(f.blocks)
         /\ \A c \in DOMAIN f.blocks :
              /\ g.blocks[c].id = f.blocks[c].id
              /\ DOMAIN g.blocks[c].instrs = DOMAIN f.blocks[c].instrs
              /\ \A j \in DOMAIN f.blocks[c].instrs :
                   InstrAt(g, c, j) = IF c = b /\ j = i THEN x ELSE InstrAt(f, c, j)
<1> DEFINE new == [f.blocks[b] EXCEPT !.instrs = [@ EXCEPT ![i] = x]]
<1>0. /\ f.blocks \in Seq(Block) /\ f.blocks[b] \in Block /\ f.blocks[b].instrs \in Seq(Instr)
      /\ \A c \in DOMAIN f.blocks : f.blocks[c] \in Block
  BY FuncParts
<1>1. g = [f EXCEPT !.blocks = [@ EXCEPT ![b] = new]]
  BY DEF Func, SetInstr
<1>2. [f.blocks[b].instrs EXCEPT ![i] = x] \in Seq(Instr)
  BY <1>0
<1>3. /\ new \in Block /\ new.id = f.blocks[b].id
      /\ new.instrs = [f.blocks[b].instrs EXCEPT ![i] = x]
  BY <1>0, <1>2 DEF Block, IRBlock, Instr
<1> HIDE DEF new
<1>4. [f.blocks EXCEPT ![b] = new] \in Seq(Block)
  BY <1>0, <1>3
<1>5. /\ g \in Func /\ g.blocks = [f.blocks EXCEPT ![b] = new]
      /\ g.values = f.values /\ g.blockIndex = f.blockIndex /\ g.name = f.name
  BY <1>1, <1>4 DEF Func
<1>6. DOMAIN g.blocks = DOMAIN f.blocks /\ Len(g.blocks) = Len(f.blocks)
  BY <1>5, <1>0
<1>7. ASSUME NEW c \in DOMAIN f.blocks
      PROVE  /\ g.blocks[c].id = f.blocks[c].id
             /\ DOMAIN g.blocks[c].instrs = DOMAIN f.blocks[c].instrs
             /\ \A j \in DOMAIN f.blocks[c].instrs :
                   InstrAt(g, c, j) = IF c = b /\ j = i THEN x ELSE InstrAt(f, c, j)
  <2>1. g.blocks[c] = IF c = b THEN new ELSE f.blocks[c]
    BY <1>5, <1>0
  <2> QED BY <2>1, <1>3 DEF InstrAt
<1> QED BY <1>5, <1>6, <1>7

\* A constant is written.
LEMMA UpdateValue ==
  ASSUME NEW f \in Func, NEW v, NEW c \in Optional(RegValue)
  PROVE  LET g == SetValue(f, v, c)
         IN  /\ g \in Func
             /\ g.blocks = f.blocks /\ g.blockIndex = f.blockIndex /\ g.name = f.name
             /\ Len(g.values) = Len(f.values)
             /\ \A k \in DOMAIN f.values : g.values[k] = IF k = v THEN c ELSE f.values[k]
<1>1. f.values \in Seq(Optional(RegValue))
  BY FuncParts
<1> DEFINE S == Optional(RegValue)
<1> HIDE DEF S
<1>2. [f.values EXCEPT ![v] = c] \in Seq(S) /\ Len([f.values EXCEPT ![v] = c]) = Len(f.values)
  <2>1. f.values \in Seq(S) /\ c \in S
    BY <1>1 DEF S
  <2>2. CASE v \in DOMAIN f.values
    BY <2>1, <2>2
  <2>3. CASE v \notin DOMAIN f.values
    <3>1. [f.values EXCEPT ![v] = c] = f.values
      BY <2>1, <2>3
    <3> QED BY <3>1, <2>1
  <2> QED BY <2>2, <2>3
<1> QED BY <1>2 DEF Func, S, SetValue

\* The sequence without its k-th element.
LEMMA WithoutOne ==
  ASSUME NEW S, NEW s \in Seq(S), NEW k \in DOMAIN s
  PROVE  /\ Without(s, k) \in Seq(S) /\ Len(Without(s, k)) = Len(s) - 1
         /\ DOMAIN Without(s, k) = 1 .. (Len(s) - 1)
         /\ \A j \in 1 .. (Len(s) - 1) :
              Without(s, k)[j] = IF j < k THEN s[j] ELSE s[j + 1]
<1>1. Len(s) \in Nat /\ k \in 1 .. Len(s) /\ \A j \in 1 .. Len(s) : s[j] \in S
  OBVIOUS
<1>2. \A j \in 1 .. (Len(s) - 1) : (IF j < k THEN s[j] ELSE s[j + 1]) \in S
  BY <1>1
<1> QED BY <1>1, <1>2 DEF Without

\* Where the j-th element of Without(s, k) was in s.
Shift(k, j) == IF j < k THEN j ELSE j + 1

LEMMA ShiftInjective ==
  ASSUME NEW k \in Int, NEW i \in Int, NEW j \in Int, Shift(k, i) = Shift(k, j)
  PROVE  i = j
  BY DEF Shift

\* An instruction is erased: those behind it move up.
LEMMA EraseInstr ==
  ASSUME NEW f \in Func, NEW b \in DOMAIN f.blocks, NEW i \in DOMAIN f.blocks[b].instrs,
         NEW g, g = DropInstr(f, b, i)
  PROVE  /\ g \in Func
         /\ g.values = f.values /\ g.blockIndex = f.blockIndex /\ g.name = f.name
         /\ DOMAIN g.blocks = DOMAIN f.blocks /\ Len(g.blocks) = Len(f.blocks)
         /\ \A c \in DOMAIN f.blocks :
              /\ g.blocks[c].id = f.blocks[c].id
              /\ c # b => g.blocks[c] = f.blocks[c]
         /\ DOMAIN g.blocks[b].instrs = 1 .. (Len(f.blocks[b].instrs) - 1)
         /\ \A j \in DOMAIN g.blocks[b].instrs :
              /\ Shift(i, j) \in DOMAIN f.blocks[b].instrs
              /\ InstrAt(g, b, j) = InstrAt(f, b, Shift(i, j))
<1> DEFINE old == f.blocks[b].instrs
           new == [f.blocks[b] EXCEPT !.instrs = Without(@, i)]
<1>0. /\ f.blocks \in Seq(Block) /\ f.blocks[b] \in Block /\ old \in Seq(Instr)
      /\ \A c \in DOMAIN f.blocks : f.blocks[c] \in Block
  BY FuncParts
<1>1. g = [f EXCEPT !.blocks = [@ EXCEPT ![b] = new]]
  BY DEF Func, DropInstr
<1>2. /\ Without(old, i) \in Seq(Instr)
      /\ DOMAIN Without(old, i) = 1 .. (Len(old) - 1)
      /\ \A j \in 1 .. (Len(old) - 1) : Without(old, i)[j] = IF j < i THEN old[j] ELSE old[j + 1]
  <2> HIDE DEF old
  <2>1. i \in DOMAIN old
    BY DEF old
  <2> QED BY <1>0, <2>1, WithoutOne
<1>3. new \in Block /\ new.id = f.blocks[b].id /\ new.instrs = Without(old, i)
  BY <1>0, <1>2 DEF Block, IRBlock, Instr
<1> HIDE DEF new
<1>4. [f.blocks EXCEPT ![b] = new] \in Seq(Block)
  BY <1>0, <1>3
<1>5. /\ g \in Func /\ g.blocks = [f.blocks EXCEPT ![b] = new]
      /\ g.values = f.values /\ g.blockIndex = f.blockIndex /\ g.name = f.name
  BY <1>1, <1>4 DEF Func
<1>6. DOMAIN g.blocks = DOMAIN f.blocks /\ Len(g.blocks) = Len(f.blocks)
  BY <1>5, <1>0
<1>7. \A c \in DOMAIN f.blocks : g.blocks[c] = IF c = b THEN new ELSE f.blocks[c]
  BY <1>5, <1>0
<1>8. \A j \in 1 .. (Len(old) - 1) :
        Shift(i, j) \in DOMAIN old /\ Without(old, i)[j] = old[Shift(i, j)]
  <2> HIDE DEF old
  <2>1. i \in DOMAIN old /\ DOMAIN old = 1 .. Len(old) /\ Len(old) \in Nat
    BY <1>0 DEF old
  <2> QED BY <2>1, <1>2 DEF Shift
<1> QED BY <1>2, <1>3, <1>5, <1>6, <1>7, <1>8, SMTT(30) DEF InstrAt

\* A block is erased: those behind it move up.
LEMMA EraseBlock ==
  ASSUME NEW f \in Func, NEW b \in DOMAIN f.blocks,
         NEW g, g = DropBlock(f, b)
  PROVE  /\ g \in Func
         /\ g.values = f.values /\ g.blockIndex = f.blockIndex /\ g.name = f.name
         /\ Len(g.blocks) = Len(f.blocks) - 1
         /\ DOMAIN g.blocks = 1 .. (Len(f.blocks) - 1)
         /\ \A c \in DOMAIN g.blocks :
              /\ Shift(b, c) \in DOMAIN f.blocks \ {b}
              /\ g.blocks[c] = f.blocks[Shift(b, c)]
         /\ \A c \in DOMAIN f.blocks \ {b} : \E d \in DOMAIN g.blocks : Shift(b, d) = c
<1> DEFINE old == f.blocks
<1>0. old \in Seq(Block) /\ Len(old) \in Nat /\ DOMAIN old = 1 .. Len(old) /\ b \in DOMAIN old
  BY FuncParts
<1>1. /\ Without(old, b) \in Seq(Block) /\ Len(Without(old, b)) = Len(old) - 1
      /\ DOMAIN Without(old, b) = 1 .. (Len(old) - 1)
      /\ \A j \in 1 .. (Len(old) - 1) : Without(old, b)[j] = IF j < b THEN old[j] ELSE old[j + 1]
  <2> HIDE DEF old
  <2> QED BY <1>0, WithoutOne
<1>2. /\ g \in Func /\ g.blocks = Without(old, b)
      /\ g.values = f.values /\ g.blockIndex = f.blockIndex /\ g.name = f.name
  BY <1>1 DEF Func, DropBlock
<1> HIDE DEF old
<1>3. \A c \in 1 .. (Len(old) - 1) :
        Shift(b, c) \in DOMAIN old \ {b} /\ Without(old, b)[c] = old[Shift(b, c)]
  BY <1>0, <1>1 DEF Shift
<1>4. ASSUME NEW c \in DOMAIN old \ {b} PROVE \E d \in 1 .. (Len(old) - 1) : Shift(b, d) = c
  <2>1. CASE c < b
    BY <2>1, <1>0 DEF Shift
  <2>2. CASE c > b
    <3>1. c - 1 \in 1 .. (Len(old) - 1) /\ Shift(b, c - 1) = c
      BY <2>2, <1>0 DEF Shift
    <3> QED BY <3>1
  <2> QED BY <2>1, <2>2, <1>0
<1> QED BY <1>1, <1>2, <1>3, <1>4 DEF old

(***************************************************************************)
(* The block index.                                                        *)
(***************************************************************************)
\* In a function whose ids differ, each leads to its block.
LEMMA FindBlockFinds ==
  ASSUME NEW f \in Func, UniqueIds(f), IndexOK(f)
  PROVE  /\ \A b \in DOMAIN f.blocks : FindBlock(f, f.blocks[b].id) = b
         /\ \A b \in DOMAIN f.blocks : SearchBlock(f, f.blocks[b].id) = b
         /\ \A id : ~IsBlockId(f, id) => FindBlock(f, id) = 0
<1> DEFINE index == RebuildBlockIndex(f.blocks)
           ids   == {f.blocks[k].id : k \in DOMAIN f.blocks}
<1>0. f.blocks \in Seq(Block) /\ DOMAIN f.blocks = 1 .. Len(f.blocks) /\ Len(f.blocks) \in Nat
  BY FuncParts
<1>1. DOMAIN index = ids
  BY DEF RebuildBlockIndex
<1>2. ASSUME NEW b \in DOMAIN f.blocks PROVE index[f.blocks[b].id] = b
  <2> DEFINE P(k) == f.blocks[k].id = f.blocks[b].id /\ \A j \in 1 .. k - 1 : f.blocks[j].id # f.blocks[b].id
  <2>1. index[f.blocks[b].id] = CHOOSE k \in DOMAIN f.blocks : P(k)
    BY DEF RebuildBlockIndex
  <2>2. P(b)
    <3>1. \A j \in 1 .. b - 1 : j \in DOMAIN f.blocks /\ j # b
      BY <1>0
    <3> QED BY <3>1 DEF UniqueIds
  <2>3. \A k \in DOMAIN f.blocks : P(k) => k = b
    BY DEF UniqueIds
  <2> HIDE DEF P
  <2> QED BY <2>1, <2>2, <2>3
<1>3. ASSUME NEW b \in DOMAIN f.blocks PROVE SearchBlock(f, f.blocks[b].id) = b
  BY <1>1, <1>2 DEF SearchBlock
<1>4. ASSUME NEW id, ~IsBlockId(f, id) PROVE SearchBlock(f, id) = 0 /\ id \notin DOMAIN index
  BY <1>1, <1>4 DEF SearchBlock, IsBlockId
<1> HIDE DEF index
<1>5. CASE f.blockIndex = index
  <2>1. ASSUME NEW b \in DOMAIN f.blocks PROVE FindBlock(f, f.blocks[b].id) = b
    BY <1>1, <1>2, <1>3, <1>5 DEF FindBlock
  <2>2. ASSUME NEW id, ~IsBlockId(f, id) PROVE FindBlock(f, id) = 0
    BY <1>4, <1>5, <2>2 DEF FindBlock
  <2> QED BY <1>3, <2>1, <2>2
<1>6. CASE f.blockIndex = <<>>
  <2>1. DOMAIN f.blockIndex = {}
    BY <1>6
  <2> QED BY <2>1, <1>3, <1>4 DEF FindBlock
<1> QED BY <1>5, <1>6 DEF IndexOK, index

\* The index depends on the ids of the blocks alone.
LEMMA IndexOfIds ==
  ASSUME NEW bs, NEW cs, DOMAIN bs = DOMAIN cs, \A k \in DOMAIN bs : bs[k].id = cs[k].id,
         NEW n \in Nat, DOMAIN bs = 1 .. n
  PROVE  RebuildBlockIndex(bs) = RebuildBlockIndex(cs)
<1>1. {bs[k].id : k \in DOMAIN bs} = {cs[k].id : k \in DOMAIN cs}
  OBVIOUS
<1>2. ASSUME NEW id
      PROVE  (CHOOSE k \in DOMAIN bs : bs[k].id = id /\ \A j \in 1 .. k - 1 : bs[j].id # id)
           = (CHOOSE k \in DOMAIN cs : cs[k].id = id /\ \A j \in 1 .. k - 1 : cs[j].id # id)
  <2>1. \A k \in DOMAIN bs : \A j \in 1 .. k - 1 : j \in DOMAIN bs
    OBVIOUS
  <2>2. \A k : (k \in DOMAIN bs /\ (bs[k].id = id /\ \A j \in 1 .. k - 1 : bs[j].id # id))
           <=> (k \in DOMAIN cs /\ (cs[k].id = id /\ \A j \in 1 .. k - 1 : cs[j].id # id))
    BY <2>1
  <2> QED BY <2>2
<1> QED BY <1>1, <1>2 DEF RebuildBlockIndex

(***************************************************************************)
(* What the rewrites of an instruction keep.                               *)
(***************************************************************************)
\* The blocks stay what and where they are, and no branch is added.
SameBlocks(f, g) ==
  /\ g \in Func /\ g.blockIndex = f.blockIndex
  /\ DOMAIN g.blocks = DOMAIN f.blocks
  /\ \A b \in DOMAIN f.blocks :
       /\ g.blocks[b].id = f.blocks[b].id
       /\ BlockTargets(g, b) \subseteq BlockTargets(f, b)

LEMMA BlockTargetsDef ==
  ASSUME NEW f, NEW b
  PROVE  /\ \A i \in DOMAIN f.blocks[b].instrs : Targets(InstrAt(f, b, i)) \subseteq BlockTargets(f, b)
         /\ \A t \in BlockTargets(f, b) : \E i \in DOMAIN f.blocks[b].instrs : t \in Targets(InstrAt(f, b, i))
         /\ BranchesLand(f, b) <=> \A t \in BlockTargets(f, b) : IsBlockId(f, t)
  BY DEF BlockTargets, InstrAt, BranchesLand

\* A constant is one a function may be given, its operation one of those the
\* pass knows, and the instruction writes a value.
LEMMA FoldedConstant ==
  ASSUME NEW f \in Func, NEW instr \in Instr, NEW c \in Folded(f, instr)
  PROVE  /\ c \in RegValue \cup {None, Trap}
         /\ c # None => instr.op \in FoldableOp /\ instr.output # None
         /\ c = None => Folded(f, instr) = {None}
<1> DEFINE operand(k) == Constant(f, instr.inputs[k])
           all == instr.inputs # <<>> /\ \A k \in DOMAIN instr.inputs : operand(k) # None
           n   == Len(instr.inputs)
<1>0. /\ instr.inputs \in Seq(Nat) /\ instr.cmpKind \in Optional(CmpKind) /\ n \in Nat
      /\ DOMAIN instr.inputs = 1 .. n
  BY DEF Instr, IRInstr
<1>1. ASSUME NEW k \in DOMAIN instr.inputs, operand(k) # None PROVE operand(k) \in RegValue
  <2>1. instr.inputs[k] \in Nat /\ f.values \in Seq(Optional(RegValue))
    BY <1>0, FuncParts
  <2>2. instr.inputs[k] < Len(f.values) /\ operand(k) = f.values[instr.inputs[k] + 1]
    BY <1>1 DEF Constant
  <2>3. instr.inputs[k] + 1 \in DOMAIN f.values
    BY <2>1, <2>2
  <2>4. f.values[instr.inputs[k] + 1] \in Optional(RegValue)
    BY <2>1, <2>3
  <2> QED BY <2>2, <2>4, <1>1 DEF Optional
<1> DEFINE fold1 == FoldUnary1(instr.op, operand(1))
           fold2 == FoldBinary(instr.op, instr.cmpKind, operand(1), operand(2))
           none  == ~all \/ instr.output = None \/ instr.op \notin FoldableOp
<1>2. Folded(f, instr) = IF none THEN {None}
                         ELSE IF n = 1 THEN {fold1}
                         ELSE IF n = 2 /\ IsInt(operand(1)) /\ IsInt(operand(2)) THEN fold2
                         ELSE {None}
  BY DEF Folded
<1>3. ASSUME ~none, n = 1 PROVE fold1 \in Optional(RegValue)
  <2>1. 1 \in DOMAIN instr.inputs
    BY <1>0, <1>3
  <2>2. operand(1) \in RegValue
    BY <2>1, <1>1, <1>3
  <2> HIDE DEF operand
  <2> QED BY <2>2, <1>3, OptimizerAssumption
<1>4. ASSUME ~none, n = 2, IsInt(operand(1)), IsInt(operand(2))
      PROVE  fold2 \subseteq RegValue \cup {None, Trap} /\ (None \in fold2 => fold2 = {None})
  <2>1. 1 \in DOMAIN instr.inputs /\ 2 \in DOMAIN instr.inputs
    BY <1>0, <1>4
  <2>2. operand(1) \in RegValue /\ operand(2) \in RegValue
    BY <2>1, <1>1, <1>4
  <2> HIDE DEF operand
  <2> QED BY <2>2, <1>0, <1>4, OptimizerAssumption
<1>5. ~none => instr.op \in FoldableOp /\ instr.output # None
  OBVIOUS
<1> HIDE DEF fold1, fold2, none, operand
<1>6. CASE none
  BY <1>2, <1>6
<1>7. CASE ~none /\ n = 1
  BY <1>2, <1>3, <1>5, <1>7 DEF Optional
<1>8. CASE ~none /\ n # 1 /\ n = 2 /\ IsInt(operand(1)) /\ IsInt(operand(2))
  BY <1>2, <1>4, <1>5, <1>8
<1>9. CASE ~none /\ n # 1 /\ ~(n = 2 /\ IsInt(operand(1)) /\ IsInt(operand(2)))
  BY <1>2, <1>9, <1>5
<1> QED BY <1>6, <1>7, <1>8, <1>9

\* The instruction that takes the place of a folded one.
LEMMA ConstantInstr ==
  ASSUME NEW instr \in Instr, NEW c \in RegValue
  PROVE  LET x == [instr EXCEPT !.op = "Const", !.constVal = c, !.inputs = <<>>,
                                !.cmpKind = IF Len(instr.inputs) = 2 THEN None ELSE @]
         IN  /\ x \in Instr /\ x.op = "Const" /\ x.output = instr.output /\ x.constVal = c
             /\ Targets(x) = Targets(instr)
<1> DEFINE kind == IF Len(instr.inputs) = 2 THEN None ELSE instr.cmpKind
           x == [instr EXCEPT !.op = "Const", !.constVal = c, !.inputs = <<>>, !.cmpKind = kind]
<1>1. /\ "Const" \in IROp /\ c \in Optional(RegValue) /\ <<>> \in Seq(Nat)
  BY DEF Optional, IROp
<1>2. kind \in Optional(CmpKind)
  BY DEF Instr, IRInstr, Optional
<1>3. /\ x \in Instr /\ x.op = "Const" /\ x.output = instr.output /\ x.constVal = c
      /\ Targets(x) = Targets(instr)
  <2> HIDE DEF kind
  <2> QED BY <1>1, <1>2 DEF Instr, IRInstr, Targets
<1> QED BY <1>3

\* ConstantFolding: the value and its only writer get the constant together.
LEMMA FoldKeeps ==
  ASSUME NEW f \in Func, Sound(f), NEW b \in DOMAIN f.blocks, NEW i \in DOMAIN f.blocks[b].instrs,
         NEW c \in RegValue, InstrAt(f, b, i).op \in FoldableOp, InstrAt(f, b, i).output # None,
         NEW g, g = FoldInstr(f, b, i, c)
  PROVE  Sound(g) /\ SameBlocks(f, g)
<1> DEFINE instr == InstrAt(f, b, i)
           x == [instr EXCEPT !.op = "Const", !.constVal = c, !.inputs = <<>>,
                              !.cmpKind = IF Len(instr.inputs) = 2 THEN None ELSE @]
           h == SetInstr(f, b, i, x)
           v == instr.output + 1
<1>1. instr \in Instr
  BY FuncParts
<1>2. /\ x \in Instr /\ x.op = "Const" /\ x.output = instr.output /\ x.constVal = c
      /\ Targets(x) = Targets(instr)
  <2> HIDE DEF instr
  <2> QED BY <1>1, ConstantInstr
<1>3. /\ h \in Func
      /\ h.values = f.values /\ h.blockIndex = f.blockIndex
      /\ DOMAIN h.blocks = DOMAIN f.blocks
      /\ \A d \in DOMAIN f.blocks :
           /\ h.blocks[d].id = f.blocks[d].id
           /\ DOMAIN h.blocks[d].instrs = DOMAIN f.blocks[d].instrs
           /\ \A j \in DOMAIN f.blocks[d].instrs :
                InstrAt(h, d, j) = IF d = b /\ j = i THEN x ELSE InstrAt(f, d, j)
  <2> HIDE DEF x
  <2> QED BY <1>2, UpdateInstr
<1>4. g = SetValue(h, v, c)
  BY DEF FoldInstr, SetInstr, SetValue, Func
<1> HIDE DEF x, h
<1>5. /\ g \in Func /\ g.blocks = h.blocks /\ g.blockIndex = h.blockIndex
      /\ Len(g.values) = Len(h.values)
      /\ \A k \in DOMAIN h.values : g.values[k] = IF k = v THEN c ELSE h.values[k]
  <2>1. c \in Optional(RegValue)
    BY DEF Optional
  <2>2. h \in Func
    BY <1>3
  <2> HIDE DEF v
  <2> QED BY <2>1, <2>2, <1>4, UpdateValue
<1>6. \A d \in DOMAIN f.blocks : \A j \in DOMAIN f.blocks[d].instrs :
        InstrAt(g, d, j) = IF d = b /\ j = i THEN x ELSE InstrAt(f, d, j)
  BY <1>3, <1>5 DEF InstrAt
<1>7. /\ DOMAIN g.blocks = DOMAIN f.blocks
      /\ \A d \in DOMAIN f.blocks :
           /\ g.blocks[d].id = f.blocks[d].id
           /\ DOMAIN g.blocks[d].instrs = DOMAIN f.blocks[d].instrs
  BY <1>3, <1>5
<1>8. \A d \in DOMAIN f.blocks : \A j \in DOMAIN f.blocks[d].instrs :
        /\ InstrAt(g, d, j).output = InstrAt(f, d, j).output
        /\ Targets(InstrAt(g, d, j)) = Targets(InstrAt(f, d, j))
        /\ InstrAt(g, d, j).op \in FoldableOp => (d # b \/ j # i) /\ InstrAt(f, d, j).op \in FoldableOp
  <2>1. "Const" \notin FoldableOp
    BY DEF FoldableOp
  <2> QED BY <2>1, <1>6, <1>2
<1>9. OutputsBounded(g)
  BY <1>7, <1>8, <1>5, <1>3 DEF OutputsBounded, Sound
<1>10. SingleWriter(g)
  BY <1>7, <1>8 DEF SingleWriter, Sound
<1>11. UniqueIds(g)
  BY <1>7 DEF UniqueIds, Sound
<1>12. ASSUME NEW id \in Nat, id # instr.output PROVE Constant(g, id) = Constant(f, id)
  <2>1. instr.output \in Nat
    BY <1>1 DEF Instr, IRInstr, Optional
  <2>2. id + 1 # v
    BY <2>1, <1>12
  <2>3. f.values \in Seq(Optional(RegValue))
    BY FuncParts
  <2>4. id < Len(f.values) => id + 1 \in DOMAIN f.values
    BY <2>3
  <2> HIDE DEF v
  <2> QED BY <2>2, <2>3, <2>4, <1>3, <1>5 DEF Constant
<1>13. Constant(g, instr.output) = c
  <2>1. instr.output \in Nat /\ instr.output < Len(f.values)
    BY <1>1 DEF Instr, IRInstr, Optional, Sound, OutputsBounded
  <2>2. f.values \in Seq(Optional(RegValue)) /\ v \in DOMAIN f.values
    BY <2>1, FuncParts
  <2> QED BY <2>1, <2>2, <1>3, <1>5 DEF Constant
<1>14. ConstantIsDefinition(g)
  <2> SUFFICES ASSUME NEW d \in DOMAIN f.blocks, NEW j \in DOMAIN f.blocks[d].instrs,
                      InstrAt(g, d, j).output # None,
                      Constant(g, InstrAt(g, d, j).output) # None
               PROVE  /\ InstrAt(g, d, j).op = "Const"
                      /\ InstrAt(g, d, j).constVal = Constant(g, InstrAt(g, d, j).output)
    BY <1>7 DEF ConstantIsDefinition
  <2> DEFINE out == InstrAt(f, d, j).output
  <2>0. InstrAt(g, d, j).output = out
    BY <1>8
  <2>1. CASE out = instr.output
    <3>1. d = b /\ j = i
      BY <2>1 DEF Sound, SingleWriter
    <3>2. InstrAt(g, d, j) = x
      BY <3>1, <1>6
    <3> QED BY <3>2, <1>2, <1>13
  <2>2. CASE out # instr.output
    <3>1. out \in Nat
      <4>1. InstrAt(f, d, j) \in Instr
        BY FuncParts
      <4> QED BY <2>0, <4>1 DEF Instr, IRInstr, Optional
    <3>2. Constant(g, out) = Constant(f, out)
      BY <3>1, <2>2, <1>12
    <3>3. InstrAt(g, d, j) = InstrAt(f, d, j)
      BY <2>2, <1>6
    <3> QED BY <2>0, <3>2, <3>3 DEF Sound, ConstantIsDefinition
  <2> QED BY <2>1, <2>2
<1>15. \A d \in DOMAIN f.blocks : BlockTargets(g, d) \subseteq BlockTargets(f, d)
  BY <1>7, <1>8, BlockTargetsDef
<1> QED BY <1>3, <1>5, <1>7, <1>9, <1>10, <1>11, <1>14, <1>15 DEF Sound, SameBlocks

\* DeadCodeElim: an instruction less is no harm to any of this.
LEMMA EraseKeeps ==
  ASSUME NEW f \in Func, Sound(f), NEW b \in DOMAIN f.blocks, NEW i \in DOMAIN f.blocks[b].instrs,
         NEW g, g = DropInstr(f, b, i)
  PROVE  Sound(g) /\ SameBlocks(f, g)
<1> DEFINE was(d, j) == IF d = b THEN Shift(i, j) ELSE j
<1>1. /\ g \in Func
      /\ g.values = f.values /\ g.blockIndex = f.blockIndex
      /\ DOMAIN g.blocks = DOMAIN f.blocks
      /\ \A c \in DOMAIN f.blocks :
           /\ g.blocks[c].id = f.blocks[c].id
           /\ c # b => g.blocks[c] = f.blocks[c]
      /\ DOMAIN g.blocks[b].instrs = 1 .. (Len(f.blocks[b].instrs) - 1)
      /\ \A j \in DOMAIN g.blocks[b].instrs :
           /\ Shift(i, j) \in DOMAIN f.blocks[b].instrs
           /\ InstrAt(g, b, j) = InstrAt(f, b, Shift(i, j))
  BY EraseInstr
<1>2. \A d \in DOMAIN f.blocks : \A j \in DOMAIN g.blocks[d].instrs :
        /\ was(d, j) \in DOMAIN f.blocks[d].instrs
        /\ InstrAt(g, d, j) = InstrAt(f, d, was(d, j))
  BY <1>1 DEF InstrAt
<1>3. \A d \in DOMAIN f.blocks : \A j, k \in DOMAIN g.blocks[d].instrs : was(d, j) = was(d, k) => j = k
  <2>1. \A d \in DOMAIN f.blocks : \A j \in DOMAIN g.blocks[d].instrs : j \in Int
    <3>1. \A d \in DOMAIN f.blocks : DOMAIN g.blocks[d].instrs = 1 .. Len(g.blocks[d].instrs)
      BY <1>1, FuncParts
    <3> QED BY <3>1
  <2>2. i \in Int
    BY FuncParts
  <2> QED BY <2>1, <2>2 DEF Shift
<1> HIDE DEF was
<1>4. OutputsBounded(g)
  BY <1>1, <1>2 DEF OutputsBounded, Sound
<1>5. ConstantIsDefinition(g)
  <2>1. \A id : Constant(g, id) = Constant(f, id)
    BY <1>1 DEF Constant
  <2> QED BY <1>1, <1>2, <2>1 DEF ConstantIsDefinition, Sound
<1>6. SingleWriter(g)
  <2> SUFFICES ASSUME NEW d \in DOMAIN g.blocks, NEW j \in DOMAIN g.blocks[d].instrs,
                      InstrAt(g, d, j).op \in FoldableOp, InstrAt(g, d, j).output # None,
                      NEW e \in DOMAIN g.blocks, NEW k \in DOMAIN g.blocks[e].instrs,
                      InstrAt(g, e, k).output = InstrAt(g, d, j).output
               PROVE  e = d /\ k = j
    BY DEF SingleWriter
  <2>1. e = d /\ was(e, k) = was(d, j)
    BY <1>1, <1>2 DEF SingleWriter, Sound
  <2> QED BY <2>1, <1>1, <1>3
<1>7. UniqueIds(g)
  BY <1>1 DEF UniqueIds, Sound
<1>8. \A d \in DOMAIN f.blocks : BlockTargets(g, d) \subseteq BlockTargets(f, d)
  BY <1>2, BlockTargetsDef
<1> QED BY <1>1, <1>4, <1>5, <1>6, <1>7, <1>8 DEF Sound, SameBlocks

\* JumpSimplification: the jump goes where the branch would have gone.
LEMMA DecidedInstr ==
  ASSUME NEW f, NEW instr \in Instr, NEW x, x = Decide(f, instr)
  PROVE  /\ x \in Instr /\ x.op = "Jmp" /\ x.output = instr.output
         /\ Targets(x) \subseteq Targets(instr)
<1> DEFINE target == IF IsTrue(Constant(f, instr.inputs[1])) THEN instr.trueTarget ELSE instr.falseTarget
<1>1. /\ target \in {instr.trueTarget, instr.falseTarget}
      /\ x = [instr EXCEPT !.op = "Jmp", !.falseTarget = None, !.inputs = <<>>, !.trueTarget = target]
  BY DEF Decide
<1>2. "Jmp" \in IROp /\ None \in Optional(Nat) /\ <<>> \in Seq(Nat)
  BY DEF Optional, IROp
<1>3. target \in Optional(Nat)
  BY <1>1 DEF Instr, IRInstr
<1> HIDE DEF target
<1>4. /\ x \in Instr /\ x.op = "Jmp" /\ x.output = instr.output
      /\ x.trueTarget = target /\ x.falseTarget = None
  BY <1>1, <1>2, <1>3 DEF Instr, IRInstr
<1> QED BY <1>1, <1>4 DEF Targets

LEMMA DecideKeeps ==
  ASSUME NEW f \in Func, Sound(f), NEW b \in DOMAIN f.blocks, NEW i \in DOMAIN f.blocks[b].instrs,
         InstrAt(f, b, i).op = "BrTrue",
         NEW g, g = SetInstr(f, b, i, Decide(f, InstrAt(f, b, i)))
  PROVE  Sound(g) /\ SameBlocks(f, g)
<1> DEFINE instr == InstrAt(f, b, i)
           x == Decide(f, instr)
<1>1. instr \in Instr
  BY FuncParts
<1>2. /\ x \in Instr /\ x.op = "Jmp" /\ x.output = instr.output
      /\ Targets(x) \subseteq Targets(instr)
  <2> HIDE DEF instr
  <2> QED BY <1>1, DecidedInstr
<1>3. g = SetInstr(f, b, i, x)
  OBVIOUS
<1> HIDE DEF x
<1>4. /\ g \in Func
      /\ g.values = f.values /\ g.blockIndex = f.blockIndex
      /\ DOMAIN g.blocks = DOMAIN f.blocks
      /\ \A d \in DOMAIN f.blocks :
           /\ g.blocks[d].id = f.blocks[d].id
           /\ DOMAIN g.blocks[d].instrs = DOMAIN f.blocks[d].instrs
           /\ \A j \in DOMAIN f.blocks[d].instrs :
                InstrAt(g, d, j) = IF d = b /\ j = i THEN x ELSE InstrAt(f, d, j)
  BY <1>2, <1>3, UpdateInstr
<1>5. \A d \in DOMAIN f.blocks : \A j \in DOMAIN f.blocks[d].instrs :
        /\ InstrAt(g, d, j).output = InstrAt(f, d, j).output
        /\ Targets(InstrAt(g, d, j)) \subseteq Targets(InstrAt(f, d, j))
        /\ InstrAt(g, d, j).op \in FoldableOp => InstrAt(f, d, j).op \in FoldableOp
  <2>1. "Jmp" \notin FoldableOp
    BY DEF FoldableOp
  <2> QED BY <2>1, <1>4, <1>2
<1>6. OutputsBounded(g)
  BY <1>4, <1>5 DEF OutputsBounded, Sound
<1>7. SingleWriter(g)
  BY <1>4, <1>5 DEF SingleWriter, Sound
<1>8. UniqueIds(g)
  BY <1>4 DEF UniqueIds, Sound
<1>9. ConstantIsDefinition(g)
  <2>1. \A id : Constant(g, id) = Constant(f, id)
    BY <1>4 DEF Constant
  <2>2. instr.output = None \/ Constant(f, instr.output) = None
    BY DEF Sound, ConstantIsDefinition
  <2> QED BY <1>2, <1>4, <1>5, <2>1, <2>2 DEF Sound, ConstantIsDefinition
<1>10. \A d \in DOMAIN f.blocks : BlockTargets(g, d) \subseteq BlockTargets(f, d)
  BY <1>4, <1>5, BlockTargetsDef
<1> QED BY <1>4, <1>6, <1>7, <1>8, <1>9, <1>10 DEF Sound, SameBlocks

\* UnreachableBlockElim: a block less, the others as they were.
LEMMA DropBlockKeeps ==
  ASSUME NEW f \in Func, Sound(f), NEW b \in DOMAIN f.blocks,
         NEW g, g = DropBlock(f, b)
  PROVE  /\ g \in Func /\ Sound(g) /\ g.blockIndex = f.blockIndex
         /\ \A c \in DOMAIN g.blocks :
              /\ Shift(b, c) \in DOMAIN f.blocks
              /\ g.blocks[c] = f.blocks[Shift(b, c)]
              /\ BlockTargets(g, c) = BlockTargets(f, Shift(b, c))
         /\ \A id : IsBlockId(g, id) <=> IsBlockId(f, id) /\ id # f.blocks[b].id
<1>1. /\ g \in Func
      /\ g.values = f.values /\ g.blockIndex = f.blockIndex /\ g.name = f.name
      /\ DOMAIN g.blocks = 1 .. (Len(f.blocks) - 1)
      /\ \A c \in DOMAIN g.blocks :
           /\ Shift(b, c) \in DOMAIN f.blocks \ {b}
           /\ g.blocks[c] = f.blocks[Shift(b, c)]
      /\ \A c \in DOMAIN f.blocks \ {b} : \E d \in DOMAIN g.blocks : Shift(b, d) = c
  BY EraseBlock
<1>2. \A c, d \in DOMAIN g.blocks : Shift(b, c) = Shift(b, d) => c = d
  <2>1. b \in Int
    BY FuncParts
  <2> QED BY <1>1, <2>1 DEF Shift
<1>3. \A c \in DOMAIN g.blocks : \A j : InstrAt(g, c, j) = InstrAt(f, Shift(b, c), j)
  BY <1>1 DEF InstrAt
<1>4. OutputsBounded(g)
  BY <1>1, <1>3 DEF OutputsBounded, Sound
<1>5. ConstantIsDefinition(g)
  <2>1. \A id : Constant(g, id) = Constant(f, id)
    BY <1>1 DEF Constant
  <2> QED BY <1>1, <1>3, <2>1 DEF ConstantIsDefinition, Sound
<1>6. SingleWriter(g)
  <2> SUFFICES ASSUME NEW d \in DOMAIN g.blocks, NEW j \in DOMAIN g.blocks[d].instrs,
                      InstrAt(g, d, j).op \in FoldableOp, InstrAt(g, d, j).output # None,
                      NEW e \in DOMAIN g.blocks, NEW k \in DOMAIN g.blocks[e].instrs,
                      InstrAt(g, e, k).output = InstrAt(g, d, j).output
               PROVE  e = d /\ k = j
    BY DEF SingleWriter
  <2>1. Shift(b, e) = Shift(b, d) /\ k = j
    BY <1>1, <1>3 DEF SingleWriter, Sound
  <2> QED BY <2>1, <1>2
<1>7. UniqueIds(g)
  BY <1>1, <1>2 DEF UniqueIds, Sound
<1>8. \A c \in DOMAIN g.blocks : BlockTargets(g, c) = BlockTargets(f, Shift(b, c))
  BY <1>1 DEF BlockTargets
<1>9. ASSUME NEW id PROVE IsBlockId(g, id) <=> IsBlockId(f, id) /\ id # f.blocks[b].id
  <2>1. IsBlockId(g, id) => IsBlockId(f, id) /\ id # f.blocks[b].id
    BY <1>1 DEF IsBlockId, UniqueIds, Sound
  <2>2. ASSUME IsBlockId(f, id), id # f.blocks[b].id PROVE IsBlockId(g, id)
    <3>1. PICK c \in DOMAIN f.blocks \ {b} : f.blocks[c].id = id
      BY <2>2 DEF IsBlockId
    <3>2. PICK d \in DOMAIN g.blocks : Shift(b, d) = c
      BY <1>1
    <3>3. g.blocks[d].id = id
      BY <1>1, <3>1, <3>2
    <3> QED BY <3>3 DEF IsBlockId
  <2> QED BY <2>1, <2>2
<1> QED BY <1>1, <1>4, <1>5, <1>6, <1>7, <1>8, <1>9 DEF Sound

(***************************************************************************)
(* The invariant holds at first.                                           *)
(***************************************************************************)
LEMMA InitSound == Init => SoundInv
<1> SUFFICES ASSUME Init PROVE SoundInv
  OBVIOUS
<1>1. source \in Programs /\ functions = source /\ passes \in Seq(PassNames)
  BY OptimizerAssumption DEF Init
<1>2. /\ functions \in Seq({functions[k] : k \in DOMAIN functions})
      /\ \A k \in DOMAIN functions : Optimizable(functions[k])
  BY <1>1, OptimizerAssumption
<1>3. ASSUME NEW k \in DOMAIN functions
      PROVE  /\ functions[k] \in Func /\ Sound(functions[k]) /\ IndexOK(functions[k])
             /\ \A b \in DOMAIN functions[k].blocks : BranchesLand(functions[k], b)
  <2> DEFINE f == functions[k]
  <2>1. Optimizable(f)
    BY <1>2
  <2> HIDE DEF f
  <2>2. f \in [name : STRING, blocks : Seq(Block), values : Seq(Optional(RegValue)),
              blockIndex : {<<>>, RebuildBlockIndex(f.blocks)}]
    BY <2>1 DEF Optimizable, Block
  <2>3. f \in Func /\ IndexOK(f)
    BY <2>2 DEF Func, Indexes, IndexOK
  <2>4. Sound(f)
    BY <2>1 DEF Optimizable, Sound, WellTyped, OutputsBounded
  <2> QED BY <2>1, <2>3, <2>4 DEF f, Optimizable
<1>4. functions \in Seq(Func)
  BY <1>2, <1>3
<1>5. StateInv
  <2>1. functions = <<>> \/ 1 \in DOMAIN functions
    BY <1>4
  <2>2. 1 \in 1 .. (Len(passes) + 1)
    BY <1>1
  <2>3. /\ phase \in {"start", "done"} /\ (phase # "done" => functions # <<>>)
        /\ fired = <<>> /\ runs = 1 /\ current = 1 /\ pass = 1 /\ changed = FALSE
        /\ touched = FALSE /\ cursor = <<1, 1>> /\ used = {} /\ reached = {} /\ worklist = {}
    BY <1>1 DEF Init
  <2>4. fired \in Seq(PassNames) /\ cursor \in (Nat \ {0}) \X (Nat \ {0}) /\ phase \in Phase
    BY <2>3 DEF Phase
  <2> QED BY <1>1, <1>4, <2>1, <2>2, <2>3, <2>4 DEF StateInv
<1>6. FunctionsSound /\ IndexInv /\ BranchTargetsExist
  BY <1>3 DEF FunctionsSound, IndexInv, BranchTargetsExist
<1>7. ReachInv /\ EntryKept
  BY <1>1 DEF ReachInv, Eliminating, EntryKept, Init
<1> QED BY <1>5, <1>6, <1>7 DEF SoundInv

(***************************************************************************)
(* Every action keeps it.                                                  *)
(***************************************************************************)
\* A step that rewrites nothing, and neither begins nor ends an erasure.
LEMMA NothingRewritten ==
  ASSUME SoundInv, UNCHANGED <<source, functions>>,
         \A k \in DOMAIN functions : ~Erasing(k) /\ ~Erasing(k)'
  PROVE  FunctionsSound' /\ IndexInv' /\ BranchTargetsExist' /\ EntryKept'
<1>1. FunctionsSound'
  BY DEF SoundInv, FunctionsSound
<1>2. IndexInv'
  BY DEF SoundInv, IndexInv
<1>3. BranchTargetsExist'
  BY DEF SoundInv, BranchTargetsExist
<1>4. EntryKept'
  BY DEF SoundInv, EntryKept
<1> QED BY <1>1, <1>2, <1>3, <1>4

\* The running pass looks further.
LEMMA SkipSound ==
  ASSUME SoundInv, phase = "visit", NEW pos \in (Nat \ {0}) \X (Nat \ {0}), SkipTo(pos),
         passes[pass] = "unreachable-block-elim" =>
           \A b \in DOMAIN Fn.blocks : b < pos[1] => Fn.blocks[b].id \in reached
  PROVE  SoundInv'
<1>1. /\ UNCHANGED <<source, functions, passes, fired, runs, current, pass, changed, touched,
                    used, reached, worklist, phase>>
      /\ cursor' = pos
  BY DEF SkipTo
<1>2. StateInv'
  BY <1>1 DEF SoundInv, StateInv
<1>3. FunctionsSound' /\ EntryKept'
  BY <1>1 DEF SoundInv, FunctionsSound, EntryKept
<1>4. IndexInv' /\ BranchTargetsExist'
  BY <1>1 DEF SoundInv, IndexInv, BranchTargetsExist, Erasing
<1>5. ReachInv'
  BY <1>1 DEF SoundInv, ReachInv, Eliminating, Fn
<1> QED BY <1>2, <1>3, <1>4, <1>5 DEF SoundInv

\* The running pass rewrites an instruction.
LEMMA RewriteSound ==
  ASSUME SoundInv, phase = "visit", passes[pass] # "unreachable-block-elim",
         NEW pos \in (Nat \ {0}) \X (Nat \ {0}), NEW g, Rewrite(g, pos), Sound(g), SameBlocks(Fn, g)
  PROVE  SoundInv'
<1>1. /\ UNCHANGED <<source, passes, fired, runs, current, pass, changed, used, reached, worklist,
                    phase>>
      /\ functions' = [functions EXCEPT ![current] = g] /\ touched' = TRUE /\ cursor' = pos
  BY DEF Rewrite
<1>2. /\ functions \in Seq(Func) /\ current \in DOMAIN functions /\ g \in Func
      /\ \A k : ~Erasing(k) /\ ~Erasing(k)'
  BY <1>1 DEF SoundInv, StateInv, SameBlocks, Erasing
<1>3. /\ functions' \in Seq(Func) /\ DOMAIN functions' = DOMAIN functions
      /\ Len(functions') = Len(functions)
      /\ \A k \in DOMAIN functions : functions'[k] = IF k = current THEN g ELSE functions[k]
  BY <1>1, <1>2
<1>4. StateInv'
  BY <1>1, <1>3 DEF SoundInv, StateInv
<1>5. FunctionsSound'
  BY <1>3 DEF SoundInv, FunctionsSound
<1>6. IndexInv'
  <2>1. IndexOK(Fn)
    BY <1>2 DEF SoundInv, IndexInv, Fn
  <2>2. RebuildBlockIndex(Fn.blocks) = RebuildBlockIndex(g.blocks)
    <3>1. Fn \in Func
      BY <1>2 DEF Fn
    <3>2. DOMAIN Fn.blocks = 1 .. Len(Fn.blocks) /\ Len(Fn.blocks) \in Nat
      BY <3>1, FuncParts
    <3> QED BY <3>2, IndexOfIds DEF SameBlocks
  <2>3. IndexOK(g)
    BY <2>1, <2>2 DEF IndexOK, SameBlocks
  <2> QED BY <2>3, <1>2, <1>3 DEF SoundInv, IndexInv
<1>7. BranchTargetsExist'
  <2>1. \A b \in DOMAIN Fn.blocks : BranchesLand(Fn, b)
    BY <1>2 DEF SoundInv, BranchTargetsExist, Fn
  <2>2. \A id : IsBlockId(Fn, id) => IsBlockId(g, id)
    BY DEF IsBlockId, SameBlocks
  <2>3. \A b \in DOMAIN g.blocks : BranchesLand(g, b)
    BY <2>1, <2>2, BlockTargetsDef DEF SameBlocks
  <2> QED BY <2>3, <1>2, <1>3 DEF SoundInv, BranchTargetsExist
<1>8. EntryKept'
  <2> SUFFICES ASSUME NEW k \in DOMAIN functions, source[k].blocks # <<>>
               PROVE  functions'[k].blocks # <<>> /\ functions'[k].blocks[1].id = source[k].blocks[1].id
    BY <1>1, <1>3 DEF EntryKept
  <2>1. functions[k].blocks # <<>> /\ functions[k].blocks[1].id = source[k].blocks[1].id
    BY DEF SoundInv, EntryKept
  <2>2. CASE k = current
    <3>1. Fn \in Func /\ Fn = functions[k]
      BY <1>2, <2>2 DEF Fn
    <3>2. Fn.blocks \in Seq(Block) /\ g.blocks \in Seq(Block)
      BY <3>1, <1>2, FuncParts
    <3>3. 1 \in DOMAIN Fn.blocks
      BY <2>1, <3>1, <3>2
    <3> QED BY <1>3, <2>1, <2>2, <3>1, <3>3 DEF SameBlocks
  <2> QED BY <1>3, <2>1, <2>2
<1>9. ReachInv'
  BY <1>1 DEF ReachInv, Eliminating
<1> QED BY <1>4, <1>5, <1>6, <1>7, <1>8, <1>9 DEF SoundInv

\* While a pass runs there is a function it runs on.
LEMMA VisitedFunction ==
  ASSUME StateInv, FunctionsSound, phase # "done"
  PROVE  /\ current \in DOMAIN functions
         /\ Fn \in Func /\ Sound(Fn) /\ B \in Nat \ {0} /\ I \in Nat \ {0}
         /\ cursor \in (Nat \ {0}) \X (Nat \ {0})
         /\ <<B, I + 1>> \in (Nat \ {0}) \X (Nat \ {0})
         /\ <<B + 1, 1>> \in (Nat \ {0}) \X (Nat \ {0})
<1>1. current \in DOMAIN functions /\ functions \in Seq(Func) /\ cursor \in (Nat \ {0}) \X (Nat \ {0})
  BY DEF StateInv
<1>2. Fn \in Func /\ Sound(Fn)
  BY <1>1 DEF Fn, FunctionsSound
<1>3. B \in Nat \ {0} /\ I \in Nat \ {0}
  BY <1>1 DEF B, I
<1> QED BY <1>1, <1>2, <1>3

LEMMA StartPassSound == SoundInv /\ StartPass => SoundInv'
<1> SUFFICES ASSUME SoundInv, StartPass PROVE SoundInv'
  OBVIOUS
<1>1. /\ UNCHANGED <<source, functions, passes, fired, runs, current, pass, changed>>
      /\ phase = "start" /\ pass \in DOMAIN passes /\ phase' \in {"worklist", "visit"}
      /\ phase' = "worklist" <=> passes[pass] = "unreachable-block-elim"
      /\ cursor' = <<1, 1>> /\ touched' = FALSE /\ used' = UsedValueIds(Fn)
      /\ reached' = WorklistSeed(Fn) /\ worklist' = reached'
  BY DEF StartPass
<1>2. Fn \in Func /\ Fn' = Fn /\ current \in DOMAIN functions
  BY <1>1 DEF SoundInv, StateInv, Fn
<1>3. UsedValueIds(Fn) \in SUBSET Nat
  <2> SUFFICES ASSUME NEW b \in DOMAIN Fn.blocks, NEW i \in DOMAIN Fn.blocks[b].instrs,
                      NEW k \in DOMAIN Fn.blocks[b].instrs[i].inputs
               PROVE  Fn.blocks[b].instrs[i].inputs[k] \in Nat
    BY DEF UsedValueIds
  <2>1. InstrAt(Fn, b, i) \in Instr
    BY <1>2, FuncParts
  <2>2. Fn.blocks[b].instrs[i].inputs \in Seq(Nat)
    BY <2>1 DEF InstrAt, Instr, IRInstr
  <2> QED BY <2>2
<1>4. WorklistSeed(Fn) \in SUBSET Nat
  BY <1>2, FuncParts DEF WorklistSeed
<1>5. StateInv'
  <2>1. cursor' \in (Nat \ {0}) \X (Nat \ {0}) /\ phase' \in Phase
    BY <1>1 DEF Phase
  <2>2. used' \in SUBSET Nat /\ reached' \in SUBSET Nat /\ worklist' \in SUBSET reached'
    BY <1>1, <1>3, <1>4
  <2> QED BY <1>1, <1>2, <2>1, <2>2 DEF SoundInv, StateInv
<1>6. \A k \in DOMAIN functions : ~Erasing(k) /\ ~Erasing(k)'
  BY <1>1 DEF Erasing
<1>7. FunctionsSound' /\ IndexInv' /\ BranchTargetsExist' /\ EntryKept'
  BY <1>1, <1>6, NothingRewritten
<1>8. ReachInv'
  <2>1. \A b \in DOMAIN Fn.blocks \cap {1} : Fn.blocks[b].id \in reached'
    BY <1>1 DEF WorklistSeed
  <2>2. \A b \in DOMAIN Fn.blocks : ~(b < cursor'[1])
    BY <1>1, <1>2, FuncParts
  <2>3. reached' \ worklist' = {}
    BY <1>1
  <2> HIDE DEF Fn
  <2> QED BY <1>2, <2>1, <2>2, <2>3 DEF ReachInv
<1> QED BY <1>5, <1>7, <1>8 DEF SoundInv

LEMMA FoldConstantSound == SoundInv /\ FoldConstant => SoundInv'
<1> SUFFICES ASSUME SoundInv, FoldConstant PROVE SoundInv'
  OBVIOUS
<1>1. /\ phase = "visit" /\ passes[pass] = "constant-folding"
      /\ B \in DOMAIN Fn.blocks /\ I \in DOMAIN Fn.blocks[B].instrs
  BY DEF FoldConstant, Running, HasInstr
<1>2. /\ Fn \in Func /\ Sound(Fn) /\ B \in Nat \ {0} /\ I \in Nat \ {0}
      /\ <<B, I + 1>> \in (Nat \ {0}) \X (Nat \ {0})
  BY <1>1, VisitedFunction DEF SoundInv
<1> DEFINE instr == InstrAt(Fn, B, I)
<1>3. instr \in Instr
  BY <1>1, <1>2, FuncParts
<1>4. PICK c \in Folded(Fn, instr) :
        CASE c = None -> SkipTo(<<B, I + 1>>)
         [] c = Trap -> /\ phase' = "killed"
                        /\ UNCHANGED <<source, functions, passes, fired, runs, current, pass,
                                       changed, touched, cursor, used, reached, worklist>>
         [] OTHER    -> Rewrite(FoldInstr(Fn, B, I, c), <<B, I + 1>>)
  BY DEF FoldConstant
<1>5. /\ c \in RegValue \cup {None, Trap}
      /\ c # None => instr.op \in FoldableOp /\ instr.output # None
  <2> HIDE DEF instr
  <2> QED BY <1>2, <1>3, FoldedConstant
<1>6. CASE c = None
  <2>1. SkipTo(<<B, I + 1>>)
    BY <1>4, <1>6, OptimizerAssumption
  <2> QED BY <1>1, <1>2, <2>1, SkipSound
<1>7. CASE c = Trap
  <2>1. /\ phase' = "killed"
        /\ UNCHANGED <<source, functions, passes, fired, runs, current, pass,
                       changed, touched, cursor, used, reached, worklist>>
    BY <1>4, <1>7, OptimizerAssumption
  <2>2. StateInv'
    <3>1. phase' \in Phase
      BY <2>1 DEF Phase
    <3> QED BY <2>1, <3>1, <1>1 DEF SoundInv, StateInv
  <2>3. \A k \in DOMAIN functions : ~Erasing(k) /\ ~Erasing(k)'
    BY <1>1, <2>1 DEF Erasing
  <2>4. FunctionsSound' /\ IndexInv' /\ BranchTargetsExist' /\ EntryKept'
    BY <2>1, <2>3, NothingRewritten
  <2>5. ReachInv'
    BY <2>1 DEF ReachInv, Eliminating
  <2> QED BY <2>2, <2>4, <2>5 DEF SoundInv
<1>8. CASE c \in RegValue
  <2> DEFINE g == FoldInstr(Fn, B, I, c)
  <2>1. Rewrite(g, <<B, I + 1>>)
    BY <1>4, <1>8, OptimizerAssumption
  <2>2. instr.op \in FoldableOp /\ instr.output # None
    BY <1>5, <1>8, OptimizerAssumption
  <2>3. Sound(g) /\ SameBlocks(Fn, g)
    <3> HIDE DEF Fn, B, I
    <3> QED BY <1>1, <1>2, <1>8, <2>2, FoldKeeps
  <2> HIDE DEF g
  <2> QED BY <1>1, <1>2, <2>1, <2>3, RewriteSound
<1> QED BY <1>5, <1>6, <1>7, <1>8

LEMMA EraseDeadInstrSound == SoundInv /\ EraseDeadInstr => SoundInv'
<1> SUFFICES ASSUME SoundInv, EraseDeadInstr PROVE SoundInv'
  OBVIOUS
<1>1. /\ phase = "visit" /\ passes[pass] = "dead-code-elim"
      /\ B \in DOMAIN Fn.blocks /\ I \in DOMAIN Fn.blocks[B].instrs
  BY DEF EraseDeadInstr, Running, HasInstr
<1>2. /\ Fn \in Func /\ Sound(Fn) /\ cursor \in (Nat \ {0}) \X (Nat \ {0})
      /\ <<B, I + 1>> \in (Nat \ {0}) \X (Nat \ {0})
  BY <1>1, VisitedFunction DEF SoundInv
<1> DEFINE g == DropInstr(Fn, B, I)
<1>3. CASE Rewrite(g, cursor)
  <2>1. Sound(g) /\ SameBlocks(Fn, g)
    <3> HIDE DEF Fn, B, I
    <3> QED BY <1>1, <1>2, EraseKeeps
  <2> HIDE DEF g
  <2> QED BY <1>1, <1>2, <1>3, <2>1, RewriteSound
<1>4. CASE SkipTo(<<B, I + 1>>)
  BY <1>1, <1>2, <1>4, SkipSound
<1> QED BY <1>3, <1>4 DEF EraseDeadInstr, DropInstr

LEMMA SimplifyJumpSound == SoundInv /\ SimplifyJump => SoundInv'
<1> SUFFICES ASSUME SoundInv, SimplifyJump PROVE SoundInv'
  OBVIOUS
<1>1. /\ phase = "visit" /\ passes[pass] = "jump-simplification"
      /\ B \in DOMAIN Fn.blocks /\ I \in DOMAIN Fn.blocks[B].instrs
  BY DEF SimplifyJump, Running, HasInstr
<1>2. /\ Fn \in Func /\ Sound(Fn) /\ cursor \in (Nat \ {0}) \X (Nat \ {0})
      /\ <<B, I + 1>> \in (Nat \ {0}) \X (Nat \ {0})
  BY <1>1, VisitedFunction DEF SoundInv
<1> DEFINE g == SetInstr(Fn, B, I, Decide(Fn, InstrAt(Fn, B, I)))
<1>3. CASE IsDecided(Fn, InstrAt(Fn, B, I)) /\ Rewrite(g, <<B, I + 1>>)
  <2>1. InstrAt(Fn, B, I).op = "BrTrue"
    BY <1>3 DEF IsDecided
  <2>2. Sound(g) /\ SameBlocks(Fn, g)
    <3> HIDE DEF Fn, B, I
    <3> QED BY <1>1, <1>2, <2>1, DecideKeeps
  <2> HIDE DEF g
  <2> QED BY <1>1, <1>2, <1>3, <2>2, RewriteSound
<1>4. CASE SkipTo(<<B, I + 1>>)
  BY <1>1, <1>2, <1>4, SkipSound
<1> QED BY <1>3, <1>4 DEF SimplifyJump, SetInstr, InstrAt

LEMMA NextBlockSound == SoundInv /\ NextBlock => SoundInv'
<1> SUFFICES ASSUME SoundInv, NextBlock PROVE SoundInv'
  OBVIOUS
<1>1. phase = "visit" /\ passes[pass] # "unreachable-block-elim" /\ SkipTo(<<B + 1, 1>>)
  BY DEF NextBlock
<1>2. <<B + 1, 1>> \in (Nat \ {0}) \X (Nat \ {0})
  BY <1>1, VisitedFunction DEF SoundInv
<1> QED BY <1>1, <1>2, SkipSound

\* A block is visited: what it leads to is found, or was.
LEMMA VisitReachableSound ==
  ASSUME SoundInv, NEW id \in worklist, VisitReachable(id)
  PROVE  SoundInv'
<1> DEFINE b     == FindBlock(Fn, id)
           found == IF b = 0 THEN {} ELSE BlockTargets(Fn, b) \ reached
<1>1. /\ UNCHANGED <<source, functions, passes, fired, runs, current, pass, changed, touched,
                    cursor, used, phase>>
      /\ phase = "worklist" /\ passes[pass] = "unreachable-block-elim" /\ ~touched
      /\ reached' = reached \cup found /\ worklist' = (worklist \ {id}) \cup found
  BY DEF VisitReachable, SoundInv, StateInv
<1>2. Fn \in Func /\ Sound(Fn) /\ IndexOK(Fn) /\ Fn' = Fn
  BY <1>1 DEF SoundInv, StateInv, FunctionsSound, IndexInv, Erasing, Fn
<1>3. \A c \in DOMAIN Fn.blocks : FindBlock(Fn, Fn.blocks[c].id) = c
  <2> HIDE DEF Fn
  <2> QED BY <1>2, FindBlockFinds DEF Sound
<1>4. b = 0 \/ b \in DOMAIN Fn.blocks
  <2> HIDE DEF Fn
  <2>1. ~IsBlockId(Fn, id) => b = 0
    BY <1>2, FindBlockFinds DEF Sound
  <2>2. IsBlockId(Fn, id) => b \in DOMAIN Fn.blocks
    BY <1>3 DEF IsBlockId
  <2> QED BY <2>1, <2>2
<1>5. found \in SUBSET Nat
  <2>1. ASSUME NEW c \in DOMAIN Fn.blocks PROVE BlockTargets(Fn, c) \in SUBSET Nat
    <3> SUFFICES ASSUME NEW i \in DOMAIN Fn.blocks[c].instrs
                 PROVE  Targets(Fn.blocks[c].instrs[i]) \in SUBSET Nat
      BY DEF BlockTargets
    <3>1. Fn.blocks[c].instrs[i] \in Instr
      BY <1>2, FuncParts DEF InstrAt
    <3> QED BY <3>1 DEF Instr, IRInstr, Targets, Optional
  <2> QED BY <2>1, <1>4
<1> HIDE DEF b
<1>6. StateInv'
  <2>1. reached' \in SUBSET Nat /\ worklist' \in SUBSET reached'
    BY <1>1, <1>5 DEF SoundInv, StateInv
  <2> HIDE DEF found
  <2> QED BY <1>1, <2>1 DEF SoundInv, StateInv
<1>7. \A k \in DOMAIN functions : ~Erasing(k) /\ ~Erasing(k)'
  BY <1>1 DEF Erasing
<1>8. FunctionsSound' /\ IndexInv' /\ BranchTargetsExist' /\ EntryKept'
  BY <1>1, <1>7, NothingRewritten
<1>9. ReachInv'
  <2>1. /\ \A c \in DOMAIN Fn.blocks \cap {1} : Fn.blocks[c].id \in reached
        /\ \A c \in DOMAIN Fn.blocks :
             Fn.blocks[c].id \in reached \ worklist => BlockTargets(Fn, c) \subseteq reached
        /\ \A c \in DOMAIN Fn.blocks : c < cursor[1] => Fn.blocks[c].id \in reached
    BY <1>1 DEF SoundInv, ReachInv, Eliminating
  <2> SUFFICES ASSUME NEW c \in DOMAIN Fn.blocks, Fn.blocks[c].id \in reached' \ worklist'
               PROVE  BlockTargets(Fn, c) \subseteq reached'
    <3> HIDE DEF Fn, found
    <3> QED BY <1>1, <1>2, <2>1 DEF ReachInv
  <2>2. CASE Fn.blocks[c].id = id
    <3>1. b = c
      BY <1>3, <2>2 DEF b
    <3>2. b # 0
      BY <3>1, <1>2, FuncParts
    <3> QED BY <3>1, <3>2, <1>1
  <2>3. CASE Fn.blocks[c].id # id
    <3>1. Fn.blocks[c].id \in reached \ worklist
      BY <1>1, <2>3
    <3> QED BY <3>1, <2>1, <1>1
  <2> QED BY <2>2, <2>3
<1> QED BY <1>6, <1>8, <1>9 DEF SoundInv

LEMMA WorklistEmptySound == SoundInv /\ WorklistEmpty => SoundInv'
<1> SUFFICES ASSUME SoundInv, WorklistEmpty PROVE SoundInv'
  OBVIOUS
<1>1. /\ UNCHANGED <<source, functions, passes, fired, runs, current, pass, changed, touched,
                    cursor, used, reached, worklist>>
      /\ phase = "worklist" /\ worklist = {} /\ phase' = "visit" /\ ~touched
      /\ passes[pass] = "unreachable-block-elim"
  BY DEF WorklistEmpty, SoundInv, StateInv
<1>2. StateInv'
  BY <1>1 DEF SoundInv, StateInv, Phase
<1>3. \A k \in DOMAIN functions : ~Erasing(k) /\ ~Erasing(k)'
  BY <1>1 DEF Erasing
<1>4. FunctionsSound' /\ IndexInv' /\ BranchTargetsExist' /\ EntryKept'
  BY <1>1, <1>3, NothingRewritten
<1>5. ReachInv'
  BY <1>1 DEF SoundInv, ReachInv, Eliminating, Fn
<1> QED BY <1>2, <1>4, <1>5 DEF SoundInv

\* A block nothing leads to is erased: what the blocks found so far lead to
\* was found, and stays; the entry was found first, and stays first.
LEMMA EraseUnreachableBlockSound == SoundInv /\ EraseUnreachableBlock => SoundInv'
<1> SUFFICES ASSUME SoundInv, EraseUnreachableBlock PROVE SoundInv'
  OBVIOUS
<1> DEFINE f == Fn
           b == B
           g == DropBlock(f, b)
<1>1. phase = "visit" /\ passes[pass] = "unreachable-block-elim" /\ b \in DOMAIN f.blocks
  BY DEF EraseUnreachableBlock, Running
<1>2. /\ f \in Func /\ Sound(f) /\ b \in Nat \ {0} /\ current \in DOMAIN functions
      /\ <<B + 1, 1>> \in (Nat \ {0}) \X (Nat \ {0})
      /\ worklist = {} /\ functions \in Seq(Func) /\ cursor[1] = b
  BY <1>1, VisitedFunction DEF SoundInv, StateInv, B
<1>3. /\ \A c \in DOMAIN f.blocks \cap {1} : f.blocks[c].id \in reached
      /\ \A c \in DOMAIN f.blocks : f.blocks[c].id \in reached => BlockTargets(f, c) \subseteq reached
      /\ \A c \in DOMAIN f.blocks : c < b => f.blocks[c].id \in reached
  BY <1>1, <1>2 DEF SoundInv, ReachInv, Eliminating
<1>4. CASE f.blocks[b].id \in reached /\ SkipTo(<<B + 1, 1>>)
  <2>1. \A c \in DOMAIN f.blocks : c < b + 1 => f.blocks[c].id \in reached
    <3> HIDE DEF f, b
    <3>1. \A c \in DOMAIN f.blocks : c < b + 1 => c < b \/ c = b
      BY <1>2, FuncParts
    <3> QED BY <3>1, <1>3, <1>4
  <2> QED BY <1>1, <1>2, <1>4, <2>1, SkipSound
<1>5. CASE f.blocks[b].id \notin reached /\ Rewrite(g, cursor)
  <2>1. /\ UNCHANGED <<source, passes, fired, runs, current, pass, changed, used, reached, worklist,
                      phase>>
        /\ functions' = [functions EXCEPT ![current] = g] /\ touched' = TRUE /\ cursor' = cursor
    BY <1>5 DEF Rewrite
  <2> HIDE DEF f, b
  <2>2. /\ g \in Func /\ Sound(g)
        /\ \A c \in DOMAIN g.blocks :
              /\ Shift(b, c) \in DOMAIN f.blocks
              /\ g.blocks[c] = f.blocks[Shift(b, c)]
              /\ BlockTargets(g, c) = BlockTargets(f, Shift(b, c))
        /\ \A id : IsBlockId(g, id) <=> IsBlockId(f, id) /\ id # f.blocks[b].id
    BY <1>1, <1>2, DropBlockKeeps
  <2>3. DOMAIN f.blocks = 1 .. Len(f.blocks) /\ Len(f.blocks) \in Nat /\ DOMAIN g.blocks = 1 .. (Len(f.blocks) - 1)
    BY <1>1, <1>2, FuncParts, EraseBlock
  <2> HIDE DEF g
  <2>4. /\ functions' \in Seq(Func) /\ DOMAIN functions' = DOMAIN functions
        /\ Len(functions') = Len(functions) /\ Fn' = g
        /\ \A k \in DOMAIN functions : functions'[k] = IF k = current THEN g ELSE functions[k]
    BY <2>1, <2>2, <1>2 DEF Fn
  <2>5. \A k \in DOMAIN functions : IF k = current THEN Erasing(k)' ELSE ~Erasing(k) /\ ~Erasing(k)'
    BY <1>1, <2>1 DEF Erasing
  <2>6. StateInv'
    BY <1>1, <2>1, <2>4 DEF SoundInv, StateInv
  <2>7. FunctionsSound'
    BY <2>2, <2>4 DEF SoundInv, FunctionsSound
  <2>8. IndexInv'
    BY <2>4, <2>5 DEF SoundInv, IndexInv
  <2>9. BranchTargetsExist'
    <3> SUFFICES ASSUME NEW c \in DOMAIN g.blocks, g.blocks[c].id \in reached
                 PROVE  BranchesLand(g, c)
      BY <2>1, <2>4, <2>5 DEF SoundInv, BranchTargetsExist
    <3> DEFINE d == Shift(b, c)
    <3>1. d \in DOMAIN f.blocks /\ f.blocks[d].id \in reached /\ BlockTargets(g, c) = BlockTargets(f, d)
      BY <2>2
    <3>2. BranchesLand(f, d)
      BY <3>1, <1>2 DEF SoundInv, BranchTargetsExist, f, Fn
    <3>3. \A t \in BlockTargets(f, d) : IsBlockId(f, t) /\ t \in reached
      BY <3>1, <3>2, <1>3, BlockTargetsDef
    <3>4. \A t \in BlockTargets(g, c) : IsBlockId(g, t)
      BY <3>1, <3>3, <2>2, <1>5
    <3> QED BY <3>4, BlockTargetsDef
  <2>10. 1 \in DOMAIN f.blocks /\ b # 1 /\ 1 \in DOMAIN g.blocks /\ g.blocks[1] = f.blocks[1]
    <3>1. 1 \in DOMAIN f.blocks /\ b # 1
      BY <2>3, <1>1, <1>3, <1>5
    <3>2. 1 \in DOMAIN g.blocks /\ Shift(b, 1) = 1
      BY <3>1, <2>3, <1>1, <1>2 DEF Shift
    <3> QED BY <3>1, <3>2, <2>2
  <2>11. EntryKept'
    <3> SUFFICES ASSUME NEW k \in DOMAIN functions, source[k].blocks # <<>>
                 PROVE  functions'[k].blocks # <<>> /\ functions'[k].blocks[1].id = source[k].blocks[1].id
      BY <2>1, <2>4 DEF EntryKept
    <3>1. functions[k].blocks # <<>> /\ functions[k].blocks[1].id = source[k].blocks[1].id
      BY DEF SoundInv, EntryKept
    <3>2. k = current => functions[k] = f
      BY DEF f, Fn
    <3>3. g.blocks # <<>>
      BY <2>10
    <3> QED BY <2>4, <2>10, <3>1, <3>2, <3>3
  <2>12. ReachInv'
    <3>1. \A c \in DOMAIN g.blocks \cap {1} : g.blocks[c].id \in reached
      BY <2>10, <1>3
    <3>2. \A c \in DOMAIN g.blocks : g.blocks[c].id \in reached => BlockTargets(g, c) \subseteq reached
      BY <2>2, <1>3
    <3>3. ASSUME NEW c \in DOMAIN g.blocks, c < cursor[1] PROVE g.blocks[c].id \in reached
      <4>1. Shift(b, c) = c
        BY <1>2, <3>3 DEF Shift
      <4> QED BY <4>1, <2>2, <1>2, <1>3, <3>3
    <3> QED BY <2>1, <2>4, <3>1, <3>2, <3>3 DEF ReachInv
  <2> QED BY <2>6, <2>7, <2>8, <2>9, <2>11, <2>12 DEF SoundInv
<1> QED BY <1>4, <1>5 DEF EraseUnreachableBlock, DropBlock

\* The index is rebuilt after blocks were erased; the blocks that are left were
\* all found, so that what they lead to is there.
LEMMA FinishPassSound == SoundInv /\ FinishPass => SoundInv'
<1> SUFFICES ASSUME SoundInv, FinishPass PROVE SoundInv'
  OBVIOUS
<1> DEFINE f == Fn
           g == Finished(f)
<1>1. /\ UNCHANGED <<source, passes, runs, current, touched, cursor, used, reached, worklist>>
      /\ phase = "visit" /\ B \notin DOMAIN f.blocks /\ phase' = "start"
      /\ functions' = [functions EXCEPT ![current] = g]
      /\ changed' = (changed \/ touched) /\ pass' = pass + 1
      /\ fired' \in {fired, Append(fired, passes[pass])}
  BY DEF FinishPass, Fn
<1>2. /\ f \in Func /\ Sound(f) /\ B \in Nat \ {0} /\ current \in DOMAIN functions
      /\ functions \in Seq(Func) /\ f = functions[current]
  BY <1>1, VisitedFunction DEF SoundInv, StateInv, Fn
<1>3. /\ g \in Func /\ g.blocks = f.blocks /\ g.values = f.values
      /\ IndexOK(g)
  <2>1. CASE passes[pass] = "unreachable-block-elim" /\ touched
    <3>1. g = [f EXCEPT !.blockIndex = RebuildBlockIndex(f.blocks)]
      BY <2>1 DEF Finished
    <3>2. RebuildBlockIndex(f.blocks) \in Indexes
      BY <1>2, FuncParts DEF Indexes
    <3> HIDE DEF f, g
    <3> QED BY <3>1, <3>2, <1>2 DEF Func, IndexOK
  <2>2. CASE ~(passes[pass] = "unreachable-block-elim" /\ touched)
    <3>1. g = f
      BY <2>2 DEF Finished
    <3>2. ~Erasing(current)
      BY <2>2 DEF Erasing
    <3> QED BY <3>1, <3>2, <1>2 DEF SoundInv, IndexInv
  <2> QED BY <2>1, <2>2
<1> HIDE DEF f, g
<1>4. /\ functions' \in Seq(Func) /\ DOMAIN functions' = DOMAIN functions
      /\ Len(functions') = Len(functions)
      /\ \A k \in DOMAIN functions : functions'[k] = IF k = current THEN g ELSE functions[k]
  BY <1>1, <1>2, <1>3
<1>5. \A k \in DOMAIN functions : ~Erasing(k)' /\ (k # current => ~Erasing(k))
  BY <1>1 DEF Erasing
<1>6. StateInv'
  <2>1. pass \in DOMAIN passes /\ passes \in Seq(PassNames) /\ fired \in Seq(PassNames)
    BY <1>1 DEF SoundInv, StateInv
  <2>2. fired' \in Seq(PassNames) /\ pass' \in 1 .. (Len(passes) + 1)
    BY <2>1, <1>1
  <2>3. changed' \in BOOLEAN /\ phase' \in Phase
    BY <1>1 DEF SoundInv, StateInv, Phase
  <2> QED BY <1>1, <1>2, <1>4, <2>2, <2>3 DEF SoundInv, StateInv
<1>7. FunctionsSound'
  <2>1. Sound(g)
    <3>1. OutputsBounded(g)
      BY <1>2, <1>3 DEF Sound, OutputsBounded, InstrAt
    <3>2. ConstantIsDefinition(g)
      <4>1. ConstantIsDefinition(f)
        BY <1>2 DEF Sound
      <4> QED BY <1>3, <4>1 DEF ConstantIsDefinition, InstrAt, Constant
    <3>3. SingleWriter(g)
      BY <1>2, <1>3 DEF Sound, SingleWriter, InstrAt
    <3>4. UniqueIds(g)
      BY <1>2, <1>3 DEF Sound, UniqueIds
    <3> QED BY <3>1, <3>2, <3>3, <3>4 DEF Sound
  <2> QED BY <2>1, <1>4 DEF SoundInv, FunctionsSound
<1>8. IndexInv'
  BY <1>3, <1>4, <1>5 DEF SoundInv, IndexInv
<1>9. BranchTargetsExist'
  <2>1. ASSUME NEW c \in DOMAIN f.blocks PROVE BranchesLand(f, c)
    <3>1. DOMAIN f.blocks = 1 .. Len(f.blocks) /\ Len(f.blocks) \in Nat
      BY <1>2, FuncParts
    <3>2. c < B
      BY <3>1, <1>1, <1>2
    <3>3. passes[pass] = "unreachable-block-elim" => f.blocks[c].id \in reached
      BY <3>2, <1>1 DEF SoundInv, ReachInv, Eliminating, B, f
    <3> QED BY <3>3, <1>2 DEF SoundInv, BranchTargetsExist, Erasing
  <2>2. \A c \in DOMAIN g.blocks : BranchesLand(g, c)
    BY <2>1, <1>3 DEF BranchesLand, IsBlockId, InstrAt
  <2> QED BY <2>2, <1>4, <1>5 DEF SoundInv, BranchTargetsExist
<1>10. EntryKept'
  BY <1>1, <1>2, <1>3, <1>4 DEF SoundInv, EntryKept
<1>11. ReachInv'
  BY <1>1 DEF ReachInv, Eliminating
<1> QED BY <1>6, <1>7, <1>8, <1>9, <1>10, <1>11 DEF SoundInv

LEMMA EndRoundSound == SoundInv /\ EndRound => SoundInv'
<1> SUFFICES ASSUME SoundInv, EndRound PROVE SoundInv'
  OBVIOUS
<1>1. /\ UNCHANGED <<source, functions, passes, fired, runs, touched, cursor, used, reached,
                    worklist>>
      /\ phase = "start" /\ pass \notin DOMAIN passes /\ pass' = 1 /\ changed' = FALSE
      /\ phase' \in {"start", "done"}
      /\ current' \in {current, current + 1} /\ (current' # current => current # Len(functions))
  BY DEF EndRound, IsLast
<1>2. current \in DOMAIN functions /\ functions \in Seq(Func) /\ passes \in Seq(PassNames)
  BY <1>1 DEF SoundInv, StateInv
<1>3. current' \in DOMAIN functions'
  BY <1>1, <1>2
<1>4. StateInv'
  <2>1. pass' \in 1 .. (Len(passes) + 1) /\ phase' \in Phase
    BY <1>1, <1>2 DEF Phase
  <2> QED BY <1>1, <1>3, <2>1 DEF SoundInv, StateInv
<1>5. \A k \in DOMAIN functions : ~Erasing(k) /\ ~Erasing(k)'
  BY <1>1 DEF Erasing
<1>6. FunctionsSound' /\ IndexInv' /\ BranchTargetsExist' /\ EntryKept'
  BY <1>1, <1>5, NothingRewritten
<1>7. ReachInv'
  BY <1>1 DEF ReachInv, Eliminating
<1> QED BY <1>4, <1>6, <1>7 DEF SoundInv

LEMMA RunAgainSound == SoundInv /\ RunAgain => SoundInv'
<1> SUFFICES ASSUME SoundInv, RunAgain PROVE SoundInv'
  OBVIOUS
<1>1. /\ UNCHANGED <<source, functions, passes, pass, changed, cursor, used, reached, worklist>>
      /\ phase = "done" /\ functions # <<>> /\ phase' = "start" /\ touched' = FALSE
      /\ runs' = runs + 1 /\ fired' = <<>> /\ current' = 1
  BY DEF RunAgain
<1>2. functions \in Seq(Func) /\ runs \in Nat
  BY DEF SoundInv, StateInv
<1>3. current' \in DOMAIN functions' /\ fired' \in Seq(PassNames) /\ runs' \in Nat \ {0} /\ phase' \in Phase
  BY <1>1, <1>2 DEF Phase
<1>4. StateInv'
  BY <1>1, <1>3 DEF SoundInv, StateInv
<1>5. \A k \in DOMAIN functions : ~Erasing(k) /\ ~Erasing(k)'
  BY <1>1 DEF Erasing
<1>6. FunctionsSound' /\ IndexInv' /\ BranchTargetsExist' /\ EntryKept'
  BY <1>1, <1>5, NothingRewritten
<1>7. ReachInv'
  BY <1>1 DEF ReachInv, Eliminating
<1> QED BY <1>4, <1>6, <1>7 DEF SoundInv

(***************************************************************************)
(* The invariant, and what it implies.                                     *)
(***************************************************************************)
LEMMA NextSound == SoundInv /\ [Next]_vars => SoundInv'
<1> SUFFICES ASSUME SoundInv, [Next]_vars PROVE SoundInv'
  OBVIOUS
<1>1. CASE UNCHANGED vars
  BY <1>1 DEF vars, SoundInv, StateInv, FunctionsSound, IndexInv, ReachInv, BranchTargetsExist, EntryKept,
              Erasing, Eliminating, Fn
<1>2. ASSUME NEW id \in worklist, VisitReachable(id) PROVE SoundInv'
  BY <1>2, VisitReachableSound
<1> QED BY <1>1, <1>2, StartPassSound, FoldConstantSound, EraseDeadInstrSound, SimplifyJumpSound, NextBlockSound,
           WorklistEmptySound, EraseUnreachableBlockSound, FinishPassSound, EndRoundSound, RunAgainSound
        DEF Next, OptimizerStep

LEMMA Soundness == Spec => []SoundInv
  BY InitSound, NextSound, PTL DEF Spec

\* The state of the optimizer, and the functions half rewritten, are always
\* of the types IRTypes.hpp declares.
THEOREM TypeCorrect == Spec => []TypeOK
<1>1. SoundInv => TypeOK
  <2> SUFFICES ASSUME SoundInv PROVE TypeOK
    OBVIOUS
  <2>1. DOMAIN functions = DOMAIN source
    <3>1. source \in Seq({source[k] : k \in DOMAIN source})
      BY OptimizerAssumption DEF SoundInv, StateInv
    <3> QED BY <3>1 DEF SoundInv, StateInv
  <2>2. ASSUME NEW k \in DOMAIN functions PROVE WellTyped(functions[k])
    <3>1. functions[k] \in Func /\ Sound(functions[k])
      BY DEF SoundInv, StateInv, FunctionsSound
    <3> QED BY <3>1, FuncParts DEF WellTyped, Sound, OutputsBounded, Block
  <2> QED BY <2>1, <2>2 DEF TypeOK, SoundInv, StateInv
<1> QED BY <1>1, Soundness, PTL

\* A value that has a constant is that constant wherever it is computed, half
\* way through every pass too.
THEOREM ConstantsStaySound == Spec => []ConstantsSound
<1>1. SoundInv => ConstantsSound
  BY DEF SoundInv, FunctionsSound, Sound, ConstantsSound
<1> QED BY <1>1, Soundness, PTL

\* A branch never leads to a block that is gone.
THEOREM BranchesStayWithinFunction == Spec => []BranchTargetsExist
<1>1. SoundInv => BranchTargetsExist
  BY DEF SoundInv
<1> QED BY <1>1, Soundness, PTL

\* The function begins where it began.
THEOREM EntryStays == Spec => []EntryKept
<1>1. SoundInv => EntryKept
  BY DEF SoundInv
<1> QED BY <1>1, Soundness, PTL

\* A function that is not losing blocks at this moment finds each by its id.
THEOREM IndexStaysFresh == Spec => []BlockIndexFresh
<1>1. SoundInv => BlockIndexFresh
  <2> SUFFICES ASSUME SoundInv, NEW k \in DOMAIN functions, ~Erasing(k), NEW b \in DOMAIN functions[k].blocks
               PROVE  LET f == functions[k]
                      IN  FindBlock(f, f.blocks[b].id) = SearchBlock(f, f.blocks[b].id)
    BY DEF BlockIndexFresh
  <2>1. functions[k] \in Func /\ UniqueIds(functions[k]) /\ IndexOK(functions[k])
    BY DEF SoundInv, StateInv, FunctionsSound, IndexInv, Sound
  <2> QED BY <2>1, FindBlockFinds
<1> QED BY <1>1, Soundness, PTL

(***************************************************************************)
(* What a second run finds.                                                *)
(***************************************************************************)
\* A pass that rewrites instructions leaves this one alone.
InstrIdle(f, b, i, name) ==
  /\ name = "constant-folding"    => Folded(f, InstrAt(f, b, i)) = {None}
  /\ name = "dead-code-elim"      => ~IsDead(InstrAt(f, b, i), UsedValueIds(f))
  /\ name = "jump-simplification" => ~IsDecided(f, InstrAt(f, b, i))

\* The entry is in the set, and what a block of the set leads to.
Closed(f, ids) ==
  /\ WorklistSeed(f) \subseteq ids
  /\ \A b \in DOMAIN f.blocks : f.blocks[b].id \in ids => BlockTargets(f, b) \subseteq ids

HasAllBlocks(f, ids) == \A b \in DOMAIN f.blocks : f.blocks[b].id \in ids

\* A pass has nothing to do to the function.
Idle(f, name) ==
  /\ \A b \in DOMAIN f.blocks : \A i \in DOMAIN f.blocks[b].instrs : InstrIdle(f, b, i, name)
  /\ name = "unreachable-block-elim" => \A ids \in SUBSET Nat : Closed(f, ids) => HasAllBlocks(f, ids)

Settled(f) == \A k \in DOMAIN passes : Idle(f, passes[k])

\* An instruction the running pass has passed.
Passed(b, i) == b < cursor[1] \/ (b = cursor[1] /\ i < cursor[2])

\* The functions behind are settled, and on a second run all are; as long as a
\* round has changed nothing the passes behind have nothing to do, and as long
\* as a pass has changed nothing, what it has passed was idle, and what it
\* computed before its loop is still true.
IdleInv ==
  /\ \A k \in DOMAIN functions : (k < current \/ phase = "done" \/ runs > 1) => Settled(functions[k])
  /\ SecondRunIsIdle
  /\ (phase = "start" \/ (phase \in {"visit", "worklist"} /\ ~touched)) /\ ~changed =>
       \A k \in 1 .. (pass - 1) : Idle(Fn, passes[k])
  /\ phase = "visit" /\ ~touched =>
       \A b \in DOMAIN Fn.blocks : \A i \in DOMAIN Fn.blocks[b].instrs :
         Passed(b, i) => InstrIdle(Fn, b, i, passes[pass])
  /\ phase \in {"visit", "worklist"} /\ ~touched => used = UsedValueIds(Fn)
  /\ Eliminating /\ ~touched => \A ids \in SUBSET Nat : Closed(Fn, ids) => reached \subseteq ids

LEMMA InitIdle == Init => IdleInv
  BY DEF Init, IdleInv, SecondRunIsIdle, Eliminating

\* On a second run no pass finds anything to rewrite.
LEMMA SecondRunSettled ==
  ASSUME StateInv, IdleInv, runs > 1, phase \in {"visit", "worklist"}
  PROVE  Idle(Fn, passes[pass])
<1>1. current \in DOMAIN functions /\ pass \in DOMAIN passes
  BY DEF StateInv
<1> QED BY <1>1 DEF IdleInv, Settled, Fn

LEMMA SkipIdle ==
  ASSUME StateInv, IdleInv, phase = "visit", NEW pos, SkipTo(pos),
         \A b \in DOMAIN Fn.blocks : \A i \in DOMAIN Fn.blocks[b].instrs :
           (b < pos[1] \/ (b = pos[1] /\ i < pos[2])) /\ ~touched =>
             Passed(b, i) \/ InstrIdle(Fn, b, i, passes[pass])
  PROVE  IdleInv'
<1>1. /\ UNCHANGED <<source, functions, passes, fired, runs, current, pass, changed, touched,
                    used, reached, worklist, phase>>
      /\ cursor' = pos
  BY DEF SkipTo
<1>2. Fn' = Fn /\ (\A f : Settled(f)' <=> Settled(f)) /\ (\A b, i : Passed(b, i)' <=> b < pos[1] \/ (b = pos[1] /\ i < pos[2]))
  BY <1>1 DEF Fn, Settled, Passed
<1>3. SecondRunIsIdle'
  BY <1>1 DEF IdleInv, SecondRunIsIdle
<1>4. Eliminating' = Eliminating
  BY <1>1 DEF Eliminating
<1> HIDE DEF Fn
<1> QED BY <1>1, <1>2, <1>3, <1>4 DEF IdleInv

\* Only a first run rewrites.
LEMMA RewriteIdle ==
  ASSUME StateInv, IdleInv, phase = "visit", ~(runs > 1), NEW g, NEW pos, Rewrite(g, pos)
  PROVE  IdleInv'
<1>1. /\ UNCHANGED <<source, passes, fired, runs, current, pass, changed, used, reached, worklist,
                    phase>>
      /\ functions' = [functions EXCEPT ![current] = g] /\ touched' = TRUE /\ cursor' = pos
  BY DEF Rewrite
<1>2. current \in DOMAIN functions /\ functions \in Seq(Func) /\ current \in Int
  BY DEF StateInv
<1>3. \A k \in DOMAIN functions : k < current => functions'[k] = functions[k]
  BY <1>1, <1>2
<1>4. \A f : Settled(f)' <=> Settled(f)
  BY <1>1 DEF Settled
<1> QED BY <1>1, <1>2, <1>3, <1>4 DEF IdleInv, SecondRunIsIdle, Eliminating

LEMMA StartPassIdle == StateInv /\ IdleInv /\ StartPass => IdleInv'
<1> SUFFICES ASSUME StateInv, IdleInv, StartPass PROVE IdleInv'
  OBVIOUS
<1>1. /\ UNCHANGED <<source, functions, passes, fired, runs, current, pass, changed>>
      /\ phase = "start" /\ pass \in DOMAIN passes /\ phase' \in {"worklist", "visit"}
      /\ cursor' = <<1, 1>> /\ touched' = FALSE /\ used' = UsedValueIds(Fn)
      /\ reached' = WorklistSeed(Fn) /\ worklist' = reached'
  BY DEF StartPass
<1>2. Fn' = Fn /\ (\A f : Settled(f)' <=> Settled(f)) /\ Fn \in Func
  BY <1>1 DEF Fn, Settled, StateInv
<1>3. \A b \in DOMAIN Fn.blocks : \A i \in DOMAIN Fn.blocks[b].instrs : ~Passed(b, i)'
  <2>1. \A b \in DOMAIN Fn.blocks : b \in Nat \ {0} /\ \A i \in DOMAIN Fn.blocks[b].instrs : i \in Nat \ {0}
    BY <1>2, FuncParts
  <2> QED BY <2>1, <1>1 DEF Passed
<1>4. \A ids : Closed(Fn, ids) => reached' \subseteq ids
  BY <1>1 DEF Closed
<1>5. SecondRunIsIdle'
  BY <1>1 DEF IdleInv, SecondRunIsIdle
<1> HIDE DEF Fn
<1> QED BY <1>1, <1>2, <1>3, <1>4, <1>5 DEF IdleInv

LEMMA FoldConstantIdle == StateInv /\ FunctionsSound /\ IdleInv /\ FoldConstant => IdleInv'
<1> SUFFICES ASSUME StateInv, FunctionsSound, IdleInv, FoldConstant PROVE IdleInv'
  OBVIOUS
<1>1. /\ phase = "visit" /\ passes[pass] = "constant-folding"
      /\ B \in DOMAIN Fn.blocks /\ I \in DOMAIN Fn.blocks[B].instrs
  BY DEF FoldConstant, Running, HasInstr
<1>2. Fn \in Func /\ B = cursor[1] /\ I = cursor[2]
  BY <1>1, VisitedFunction DEF B, I
<1> DEFINE instr == InstrAt(Fn, B, I)
<1>3. instr \in Instr
  BY <1>1, <1>2, FuncParts
<1>4. PICK c \in Folded(Fn, instr) :
        CASE c = None -> SkipTo(<<B, I + 1>>)
         [] c = Trap -> /\ phase' = "killed"
                        /\ UNCHANGED <<source, functions, passes, fired, runs, current, pass,
                                       changed, touched, cursor, used, reached, worklist>>
         [] OTHER    -> Rewrite(FoldInstr(Fn, B, I, c), <<B, I + 1>>)
  BY DEF FoldConstant
<1>5. c = None => Folded(Fn, instr) = {None}
  <2> HIDE DEF instr
  <2> QED BY <1>2, <1>3, FoldedConstant
<1>6. CASE c = None
  <2>1. SkipTo(<<B, I + 1>>)
    BY <1>4, <1>6, OptimizerAssumption
  <2>2. InstrIdle(Fn, B, I, passes[pass])
    BY <1>1, <1>5, <1>6 DEF InstrIdle
  <2>3. ASSUME NEW b \in DOMAIN Fn.blocks, NEW i \in DOMAIN Fn.blocks[b].instrs,
               b < B \/ (b = B /\ i < I + 1)
        PROVE  Passed(b, i) \/ InstrIdle(Fn, b, i, passes[pass])
    <3>1. i \in Int /\ I \in Int
      BY <1>1, <1>2, FuncParts
    <3>2. Passed(b, i) \/ (b = B /\ i = I)
      BY <2>3, <3>1, <1>2 DEF Passed
    <3> QED BY <3>2, <2>2
  <2> QED BY <1>1, <2>1, <2>3, SkipIdle
<1>7. CASE c # None
  <2>1. ~(runs > 1)
    <3> SUFFICES ASSUME runs > 1 PROVE FALSE
      OBVIOUS
    <3>1. InstrIdle(Fn, B, I, "constant-folding")
      BY <1>1, SecondRunSettled DEF Idle
    <3> QED BY <3>1, <1>7 DEF InstrIdle
  <2>2. CASE c = Trap
    <3>1. /\ phase' = "killed"
          /\ UNCHANGED <<source, functions, passes, fired, runs, current, pass,
                         changed, touched, cursor, used, reached, worklist>>
      BY <1>4, <1>7, <2>2
    <3> QED BY <3>1, <1>1, <2>1 DEF IdleInv, SecondRunIsIdle, Eliminating, Settled
  <2>3. CASE c # Trap
    <3>1. Rewrite(FoldInstr(Fn, B, I, c), <<B, I + 1>>)
      BY <1>4, <1>7, <2>3
    <3> QED BY <1>1, <2>1, <3>1, RewriteIdle
  <2> QED BY <2>2, <2>3
<1> QED BY <1>6, <1>7

\* A pass over instructions that either rewrites this one, which is not idle,
\* or goes on to the next one, because this one is.
LEMMA VisitIdle ==
  ASSUME StateInv, FunctionsSound, IdleInv, phase = "visit",
         B \in DOMAIN Fn.blocks, I \in DOMAIN Fn.blocks[B].instrs,
         NEW g, NEW pos,
         \/ Rewrite(g, pos) /\ (runs > 1 => ~InstrIdle(Fn, B, I, passes[pass]))
         \/ SkipTo(<<B, I + 1>>) /\ (~touched => InstrIdle(Fn, B, I, passes[pass]))
  PROVE  IdleInv'
<1>1. CASE Rewrite(g, pos) /\ (runs > 1 => ~InstrIdle(Fn, B, I, passes[pass]))
  <2>1. ~(runs > 1)
    BY <1>1, SecondRunSettled DEF Idle
  <2> QED BY <1>1, <2>1, RewriteIdle
<1>2. CASE SkipTo(<<B, I + 1>>) /\ (~touched => InstrIdle(Fn, B, I, passes[pass]))
  <2>1. Fn \in Func /\ B = cursor[1] /\ I = cursor[2]
    BY VisitedFunction DEF B, I
  <2>2. ASSUME NEW b \in DOMAIN Fn.blocks, NEW i \in DOMAIN Fn.blocks[b].instrs,
               b < B \/ (b = B /\ i < I + 1), ~touched
        PROVE  Passed(b, i) \/ InstrIdle(Fn, b, i, passes[pass])
    <3>1. i \in Int /\ I \in Int
      BY <2>1, FuncParts
    <3>2. Passed(b, i) \/ (b = B /\ i = I)
      BY <2>1, <2>2, <3>1 DEF Passed
    <3> QED BY <3>2, <2>2, <1>2
  <2> QED BY <1>2, <2>2, SkipIdle
<1> QED BY <1>1, <1>2

LEMMA EraseDeadInstrIdle == StateInv /\ FunctionsSound /\ IdleInv /\ EraseDeadInstr => IdleInv'
<1> SUFFICES ASSUME StateInv, FunctionsSound, IdleInv, EraseDeadInstr PROVE IdleInv'
  OBVIOUS
<1>1. /\ phase = "visit" /\ passes[pass] = "dead-code-elim"
      /\ B \in DOMAIN Fn.blocks /\ I \in DOMAIN Fn.blocks[B].instrs
  BY DEF EraseDeadInstr, Running, HasInstr
<1>2. ~touched => used = UsedValueIds(Fn)
  BY <1>1 DEF IdleInv
<1>3. runs > 1 => ~touched
  BY DEF IdleInv, SecondRunIsIdle
<1>4. ~touched => (InstrIdle(Fn, B, I, passes[pass]) <=> ~IsDead(InstrAt(Fn, B, I), used))
  BY <1>1, <1>2 DEF InstrIdle
<1>5. CASE IsDead(InstrAt(Fn, B, I), used)
  BY <1>1, <1>3, <1>4, <1>5, VisitIdle DEF EraseDeadInstr
<1>6. CASE ~IsDead(InstrAt(Fn, B, I), used)
  BY <1>1, <1>4, <1>6, VisitIdle DEF EraseDeadInstr
<1> QED BY <1>5, <1>6

LEMMA SimplifyJumpIdle == StateInv /\ FunctionsSound /\ IdleInv /\ SimplifyJump => IdleInv'
<1> SUFFICES ASSUME StateInv, FunctionsSound, IdleInv, SimplifyJump PROVE IdleInv'
  OBVIOUS
<1>1. /\ phase = "visit" /\ passes[pass] = "jump-simplification"
      /\ B \in DOMAIN Fn.blocks /\ I \in DOMAIN Fn.blocks[B].instrs
  BY DEF SimplifyJump, Running, HasInstr
<1>2. InstrIdle(Fn, B, I, passes[pass]) <=> ~IsDecided(Fn, InstrAt(Fn, B, I))
  BY <1>1 DEF InstrIdle
<1>3. CASE IsDecided(Fn, InstrAt(Fn, B, I))
  BY <1>1, <1>2, <1>3, VisitIdle DEF SimplifyJump
<1>4. CASE ~IsDecided(Fn, InstrAt(Fn, B, I))
  BY <1>1, <1>2, <1>4, VisitIdle DEF SimplifyJump
<1> QED BY <1>3, <1>4

LEMMA NextBlockIdle == StateInv /\ FunctionsSound /\ IdleInv /\ NextBlock => IdleInv'
<1> SUFFICES ASSUME StateInv, FunctionsSound, IdleInv, NextBlock PROVE IdleInv'
  OBVIOUS
<1>1. /\ phase = "visit" /\ B \in DOMAIN Fn.blocks /\ I \notin DOMAIN Fn.blocks[B].instrs
      /\ SkipTo(<<B + 1, 1>>)
  BY DEF NextBlock
<1>2. Fn \in Func /\ B = cursor[1] /\ I = cursor[2] /\ I \in Nat \ {0} /\ B \in Nat
  BY <1>1, VisitedFunction DEF B, I
<1>3. ASSUME NEW b \in DOMAIN Fn.blocks, NEW i \in DOMAIN Fn.blocks[b].instrs,
             b < B + 1 \/ (b = B + 1 /\ i < 1)
      PROVE  Passed(b, i)
  <2>1. /\ b \in Int /\ DOMAIN Fn.blocks[b].instrs = 1 .. Len(Fn.blocks[b].instrs)
        /\ Len(Fn.blocks[b].instrs) \in Nat
    BY <1>2, FuncParts
  <2>2. b < B \/ b = B
    BY <1>2, <1>3, <2>1
  <2>3. b = B => i < I
    BY <1>1, <1>2, <2>1
  <2> QED BY <2>2, <2>3, <1>2 DEF Passed
<1> QED BY <1>1, <1>3, SkipIdle

\* Only ids that follow from the entry are found.
LEMMA VisitReachableIdle ==
  ASSUME SoundInv, IdleInv, NEW id \in worklist, VisitReachable(id)
  PROVE  IdleInv'
<1> DEFINE b     == FindBlock(Fn, id)
           found == IF b = 0 THEN {} ELSE BlockTargets(Fn, b) \ reached
<1>1. /\ UNCHANGED <<source, functions, passes, fired, runs, current, pass, changed, touched,
                    cursor, used, phase>>
      /\ phase = "worklist" /\ passes[pass] = "unreachable-block-elim" /\ ~touched
      /\ reached' = reached \cup found /\ worklist' = (worklist \ {id}) \cup found
      /\ id \in reached
  BY DEF VisitReachable, SoundInv, StateInv
<1>2. /\ Fn \in Func /\ Sound(Fn) /\ IndexOK(Fn) /\ Fn' = Fn
      /\ (\A f : Settled(f)' <=> Settled(f))
  BY <1>1 DEF SoundInv, StateInv, FunctionsSound, IndexInv, Erasing, Fn, Settled
<1>3. b # 0 => b \in DOMAIN Fn.blocks /\ Fn.blocks[b].id = id
  <2> HIDE DEF Fn
  <2>1. ~IsBlockId(Fn, id) => b = 0
    BY <1>2, FindBlockFinds DEF Sound
  <2>2. \A c \in DOMAIN Fn.blocks : FindBlock(Fn, Fn.blocks[c].id) = c
    BY <1>2, FindBlockFinds DEF Sound
  <2> QED BY <2>1, <2>2 DEF IsBlockId
<1> HIDE DEF b
<1>4. ASSUME NEW ids \in SUBSET Nat, Closed(Fn, ids) PROVE reached' \subseteq ids
  <2>1. reached \subseteq ids
    BY <1>1, <1>4 DEF IdleInv, Eliminating
  <2>2. found \subseteq ids
    BY <2>1, <1>1, <1>3, <1>4 DEF Closed
  <2> QED BY <2>1, <2>2, <1>1
<1>5. SecondRunIsIdle'
  BY <1>1 DEF IdleInv, SecondRunIsIdle
<1> HIDE DEF Fn, found
<1> QED BY <1>1, <1>2, <1>4, <1>5 DEF IdleInv

LEMMA WorklistEmptyIdle == StateInv /\ IdleInv /\ WorklistEmpty => IdleInv'
<1> SUFFICES ASSUME StateInv, IdleInv, WorklistEmpty PROVE IdleInv'
  OBVIOUS
<1>1. /\ UNCHANGED <<source, functions, passes, fired, runs, current, pass, changed, touched,
                    cursor, used, reached, worklist>>
      /\ phase = "worklist" /\ worklist = {} /\ phase' = "visit" /\ ~touched
      /\ passes[pass] = "unreachable-block-elim"
  BY DEF WorklistEmpty, StateInv
<1>2. Fn' = Fn /\ (\A f : Settled(f)' <=> Settled(f)) /\ Fn \in Func
  BY <1>1 DEF Fn, Settled, StateInv
<1>3. \A b \in DOMAIN Fn.blocks : \A i \in DOMAIN Fn.blocks[b].instrs : InstrIdle(Fn, b, i, passes[pass])
  BY <1>1 DEF InstrIdle
<1>4. SecondRunIsIdle'
  BY <1>1 DEF IdleInv, SecondRunIsIdle
<1>5. Eliminating /\ Eliminating'
  BY <1>1 DEF Eliminating
<1> HIDE DEF Fn
<1> QED BY <1>1, <1>2, <1>3, <1>4, <1>5 DEF IdleInv

LEMMA EraseUnreachableBlockIdle == SoundInv /\ IdleInv /\ EraseUnreachableBlock => IdleInv'
<1> SUFFICES ASSUME SoundInv, IdleInv, EraseUnreachableBlock PROVE IdleInv'
  OBVIOUS
<1>1. /\ phase = "visit" /\ passes[pass] = "unreachable-block-elim" /\ B \in DOMAIN Fn.blocks
      /\ worklist = {} /\ reached \in SUBSET Nat /\ StateInv
  BY DEF EraseUnreachableBlock, Running, SoundInv, StateInv
<1>2. CASE Fn.blocks[B].id \in reached
  <2>1. SkipTo(<<B + 1, 1>>)
    BY <1>2 DEF EraseUnreachableBlock
  <2>2. \A b \in DOMAIN Fn.blocks : \A i \in DOMAIN Fn.blocks[b].instrs : InstrIdle(Fn, b, i, passes[pass])
    BY <1>1 DEF InstrIdle
  <2> QED BY <1>1, <2>1, <2>2, SkipIdle
<1>3. CASE Fn.blocks[B].id \notin reached
  <2>1. ~(runs > 1)
    <3> SUFFICES ASSUME runs > 1 PROVE FALSE
      OBVIOUS
    <3>1. Idle(Fn, "unreachable-block-elim")
      BY <1>1, SecondRunSettled
    <3>2. Closed(Fn, reached)
      BY <1>1 DEF SoundInv, ReachInv, Eliminating, Closed, WorklistSeed
    <3>3. HasAllBlocks(Fn, reached)
      BY <3>1, <3>2, <1>1 DEF Idle
    <3> QED BY <3>3, <1>1, <1>3 DEF HasAllBlocks
  <2>2. Rewrite([Fn EXCEPT !.blocks = Without(@, B)], cursor)
    BY <1>3 DEF EraseUnreachableBlock
  <2> QED BY <1>1, <2>1, <2>2, RewriteIdle
<1> QED BY <1>2, <1>3

\* A pass that has passed everything and changed nothing has nothing to do.
LEMMA FinishPassIdle == SoundInv /\ IdleInv /\ FinishPass => IdleInv'
<1> SUFFICES ASSUME SoundInv, IdleInv, FinishPass PROVE IdleInv'
  OBVIOUS
<1>1. /\ UNCHANGED <<source, passes, runs, current, touched, cursor, used, reached, worklist>>
      /\ phase = "visit" /\ B \notin DOMAIN Fn.blocks /\ phase' = "start"
      /\ functions' = [functions EXCEPT ![current] = Finished(@)]
      /\ changed' = (changed \/ touched) /\ pass' = pass + 1
      /\ ~touched => fired' = fired
  BY DEF FinishPass
<1>2. /\ Fn \in Func /\ B = cursor[1] /\ B \in Nat \ {0} /\ current \in DOMAIN functions
      /\ functions \in Seq(Func) /\ StateInv /\ pass \in DOMAIN passes /\ passes \in Seq(PassNames)
  BY <1>1, VisitedFunction DEF SoundInv, StateInv, B
<1>3. \A f : Settled(f)' <=> Settled(f)
  BY <1>1 DEF Settled
<1>4. ~Eliminating'
  BY <1>1 DEF Eliminating
<1>5. CASE touched
  <2>1. ~(runs > 1)
    BY <1>5 DEF IdleInv, SecondRunIsIdle
  <2>2. \A k \in DOMAIN functions : k < current => functions'[k] = functions[k]
    BY <1>1, <1>2
  <2>3. DOMAIN functions' = DOMAIN functions
    BY <1>1
  <2> QED BY <1>1, <1>3, <1>4, <1>5, <2>1, <2>2, <2>3 DEF IdleInv, SecondRunIsIdle
<1>6. CASE ~touched
  <2>1. functions' = functions /\ Fn' = Fn
    <3>1. Finished(functions[current]) = functions[current]
      BY <1>6 DEF Finished
    <3> QED BY <3>1, <1>1, <1>2 DEF Fn
  <2>2. \A b \in DOMAIN Fn.blocks : b < cursor[1]
    <3>1. DOMAIN Fn.blocks = 1 .. Len(Fn.blocks) /\ Len(Fn.blocks) \in Nat
      BY <1>2, FuncParts
    <3> QED BY <3>1, <1>1, <1>2
  <2>3. Idle(Fn, passes[pass])
    <3>1. \A b \in DOMAIN Fn.blocks : \A i \in DOMAIN Fn.blocks[b].instrs : InstrIdle(Fn, b, i, passes[pass])
      BY <2>2, <1>1, <1>6 DEF IdleInv, Passed
    <3>2. ASSUME passes[pass] = "unreachable-block-elim", NEW ids \in SUBSET Nat, Closed(Fn, ids)
          PROVE  HasAllBlocks(Fn, ids)
      <4>1. reached \subseteq ids
        BY <3>2, <1>1, <1>6 DEF IdleInv, Eliminating
      <4>2. \A b \in DOMAIN Fn.blocks : Fn.blocks[b].id \in reached
        BY <2>2, <3>2, <1>1 DEF SoundInv, ReachInv, Eliminating
      <4> QED BY <4>1, <4>2 DEF HasAllBlocks
    <3> QED BY <3>1, <3>2 DEF Idle
  <2>4. ~changed => \A k \in 1 .. (pass' - 1) : Idle(Fn, passes[k])
    <3> SUFFICES ASSUME ~changed, NEW k \in 1 .. (pass' - 1) PROVE Idle(Fn, passes[k])
      OBVIOUS
    <3>1. pass \in Int /\ pass' = pass + 1
      BY <1>1, <1>2
    <3>2. k = pass \/ k \in 1 .. (pass - 1)
      BY <3>1
    <3> QED BY <3>2, <2>3, <1>1, <1>6 DEF IdleInv
  <2>5. SecondRunIsIdle'
    BY <1>1, <1>6 DEF IdleInv, SecondRunIsIdle
  <2> HIDE DEF Fn
  <2> QED BY <1>1, <1>3, <1>4, <1>6, <2>1, <2>4, <2>5 DEF IdleInv
<1> QED BY <1>5, <1>6

\* A round that has changed nothing leaves its function settled.
LEMMA EndRoundIdle == StateInv /\ IdleInv /\ EndRound => IdleInv'
<1> SUFFICES ASSUME StateInv, IdleInv, EndRound PROVE IdleInv'
  OBVIOUS
<1>1. /\ UNCHANGED <<source, functions, passes, fired, runs, touched, cursor, used, reached,
                    worklist>>
      /\ phase = "start" /\ pass \notin DOMAIN passes /\ pass' = 1 /\ changed' = FALSE
      /\ current' = IF changed \/ IsLast THEN current ELSE current + 1
      /\ phase' = IF ~changed /\ IsLast THEN "done" ELSE "start"
  BY DEF EndRound, AnotherRound
<1>2. /\ current \in DOMAIN functions /\ functions \in Seq(Func) /\ passes \in Seq(PassNames)
      /\ pass \in 1 .. (Len(passes) + 1)
  BY <1>1 DEF StateInv
<1>3. \A f : Settled(f)' <=> Settled(f)
  BY <1>1 DEF Settled
<1>4. ASSUME ~changed PROVE Settled(functions[current])
  <2>1. DOMAIN passes = 1 .. (pass - 1)
    BY <1>1, <1>2
  <2> QED BY <2>1, <1>1, <1>4 DEF IdleInv, Settled, Fn
<1>5. ASSUME NEW k \in DOMAIN functions, k < current' \/ phase' = "done" \/ runs > 1
      PROVE  Settled(functions[k])
  <2>1. CASE k < current \/ runs > 1
    BY <2>1 DEF IdleInv
  <2>2. CASE k = current /\ ~changed
    BY <2>2, <1>4
  <2>3. k < current \/ runs > 1 \/ (k = current /\ ~changed)
    BY <1>1, <1>2, <1>5 DEF IsLast
  <2> QED BY <2>1, <2>2, <2>3
<1>6. SecondRunIsIdle'
  BY <1>1 DEF IdleInv, SecondRunIsIdle
<1>7. ~Eliminating' /\ phase' # "visit" /\ phase' # "worklist" /\ 1 .. (pass' - 1) = {}
  BY <1>1 DEF Eliminating
<1> QED BY <1>1, <1>3, <1>5, <1>6, <1>7 DEF IdleInv

LEMMA RunAgainIdle == StateInv /\ IdleInv /\ RunAgain => IdleInv'
<1> SUFFICES ASSUME StateInv, IdleInv, RunAgain PROVE IdleInv'
  OBVIOUS
<1>1. /\ UNCHANGED <<source, functions, passes, pass, changed, cursor, used, reached, worklist>>
      /\ phase = "done" /\ phase' = "start" /\ touched' = FALSE /\ pass = 1 /\ ~changed
      /\ runs' = runs + 1 /\ fired' = <<>> /\ current' = 1
  BY DEF RunAgain, StateInv
<1>2. \A f : Settled(f)' <=> Settled(f)
  BY <1>1 DEF Settled
<1>3. \A k \in DOMAIN functions : Settled(functions[k])
  BY <1>1 DEF IdleInv
<1>4. ~Eliminating' /\ 1 .. (pass' - 1) = {} /\ SecondRunIsIdle'
  BY <1>1 DEF Eliminating, SecondRunIsIdle
<1> QED BY <1>1, <1>2, <1>3, <1>4 DEF IdleInv

LEMMA NextIdle == SoundInv /\ IdleInv /\ [Next]_vars => IdleInv'
<1> SUFFICES ASSUME SoundInv, IdleInv, [Next]_vars PROVE IdleInv'
  OBVIOUS
<1>1. StateInv /\ FunctionsSound
  BY DEF SoundInv
<1>2. CASE UNCHANGED vars
  <2>1. /\ UNCHANGED <<functions, passes, fired, runs, current, pass, changed, touched, cursor, used,
                      reached, phase>>
    BY <1>2 DEF vars
  <2>2. Fn' = Fn /\ (\A f : Settled(f)' <=> Settled(f)) /\ (\A b, i : Passed(b, i)' <=> Passed(b, i))
    BY <2>1 DEF Fn, Settled, Passed
  <2>3. SecondRunIsIdle' /\ Eliminating' = Eliminating
    BY <2>1 DEF IdleInv, SecondRunIsIdle, Eliminating
  <2> HIDE DEF Fn
  <2> QED BY <2>1, <2>2, <2>3 DEF IdleInv
<1>3. ASSUME NEW id \in worklist, VisitReachable(id) PROVE IdleInv'
  BY <1>3, VisitReachableIdle
<1> QED BY <1>1, <1>2, <1>3, StartPassIdle, FoldConstantIdle, EraseDeadInstrIdle, SimplifyJumpIdle, NextBlockIdle,
           WorklistEmptyIdle, EraseUnreachableBlockIdle, FinishPassIdle, EndRoundIdle, RunAgainIdle
        DEF Next, OptimizerStep

\* The optimizer run on its own output changes nothing, and says so: its loop
\* stopped at a fixpoint, for every module and every list of passes.
THEOREM OptimizedIsFixpoint == Spec => []SecondRunIsIdle
<1>1. IdleInv => SecondRunIsIdle
  BY DEF IdleInv
<1>2. SoundInv /\ IdleInv /\ [Next]_vars => (SoundInv /\ IdleInv)'
  BY NextSound, NextIdle
<1> QED BY <1>1, <1>2, InitSound, InitIdle, PTL DEF Spec

(***************************************************************************)
(* Every change makes a function lighter.                                  *)
(***************************************************************************)
Rewritable == FoldableOp \cup {"BrTrue"}

\* Where the instructions are whose operation is one of S.
Row(f, S, b) == {<<b, i>> : i \in {j \in DOMAIN f.blocks[b].instrs : InstrAt(f, b, j).op \in S}}
At(f, S)     == UNION {Row(f, S, b) : b \in DOMAIN f.blocks}

LEMMA WeightDef ==
  ASSUME NEW f
  PROVE  Weight(f) = Len(f.blocks) + Cardinality(At(f, IROp)) + Cardinality(At(f, Rewritable))
  BY DEF Weight, At, Row, Rewritable

LEMMA AtDef ==
  ASSUME NEW f, NEW S, NEW p
  PROVE  p \in At(f, S) <=>
           /\ p = <<p[1], p[2]>> /\ p[1] \in DOMAIN f.blocks /\ p[2] \in DOMAIN f.blocks[p[1]].instrs
           /\ InstrAt(f, p[1], p[2]).op \in S
<1>1. ASSUME p \in At(f, S)
      PROVE  /\ p = <<p[1], p[2]>> /\ p[1] \in DOMAIN f.blocks /\ p[2] \in DOMAIN f.blocks[p[1]].instrs
             /\ InstrAt(f, p[1], p[2]).op \in S
  <2>1. PICK b \in DOMAIN f.blocks : p \in Row(f, S, b)
    BY <1>1 DEF At
  <2>2. PICK i \in DOMAIN f.blocks[b].instrs : p = <<b, i>> /\ InstrAt(f, b, i).op \in S
    BY <2>1 DEF Row
  <2> QED BY <2>2
<1>2. ASSUME p = <<p[1], p[2]>>, p[1] \in DOMAIN f.blocks, p[2] \in DOMAIN f.blocks[p[1]].instrs,
             InstrAt(f, p[1], p[2]).op \in S
      PROVE  p \in At(f, S)
  BY <1>2 DEF At, Row
<1> QED BY <1>1, <1>2

\* There are finitely many of them.
LEMMA AtFinite ==
  ASSUME NEW f \in Func, NEW S
  PROVE  IsFiniteSet(At(f, S)) /\ Cardinality(At(f, S)) \in Nat
<1>1. ASSUME NEW b \in DOMAIN f.blocks PROVE IsFiniteSet(Row(f, S, b))
  <2> DEFINE D == {j \in DOMAIN f.blocks[b].instrs : InstrAt(f, b, j).op \in S}
             place == [i \in D |-> <<b, i>>]
  <2>1. DOMAIN f.blocks[b].instrs = 1 .. Len(f.blocks[b].instrs) /\ Len(f.blocks[b].instrs) \in Nat
    BY FuncParts
  <2>2. IsFiniteSet(DOMAIN f.blocks[b].instrs)
    BY <2>1, FS_Interval
  <2>3. IsFiniteSet(D)
    BY <2>2, FS_Subset
  <2>4. place \in Surjection(D, Row(f, S, b))
    BY DEF Row, Surjection
  <2> HIDE DEF D, place
  <2> QED BY <2>3, <2>4, FS_Surjection
<1> DEFINE rows == {Row(f, S, b) : b \in DOMAIN f.blocks}
           row  == [b \in DOMAIN f.blocks |-> Row(f, S, b)]
<1>2. IsFiniteSet(rows)
  <2>1. DOMAIN f.blocks = 1 .. Len(f.blocks) /\ Len(f.blocks) \in Nat
    BY FuncParts
  <2>2. IsFiniteSet(DOMAIN f.blocks)
    BY <2>1, FS_Interval
  <2>3. row \in Surjection(DOMAIN f.blocks, rows)
    BY DEF Surjection
  <2> HIDE DEF row, rows
  <2> QED BY <2>2, <2>3, FS_Surjection
<1>3. \A T \in rows : IsFiniteSet(T)
  BY <1>1
<1>4. IsFiniteSet(UNION rows)
  <2> HIDE DEF rows
  <2> QED BY <1>2, <1>3, FS_UNION
<1>5. IsFiniteSet(At(f, S))
  BY <1>4 DEF At
<1> QED BY <1>5, FS_CardinalityType

\* An instruction that may be rewritten becomes one that may not.
LEMMA OverwrittenShrinks ==
  ASSUME NEW f \in Func, NEW b \in DOMAIN f.blocks, NEW i \in DOMAIN f.blocks[b].instrs,
         NEW x \in Instr, InstrAt(f, b, i).op \in Rewritable, x.op \notin Rewritable,
         NEW g, g = SetInstr(f, b, i, x)
  PROVE  Weight(g) < Weight(f)
<1>1. /\ g \in Func /\ DOMAIN g.blocks = DOMAIN f.blocks /\ Len(g.blocks) = Len(f.blocks)
      /\ \A c \in DOMAIN f.blocks :
           /\ DOMAIN g.blocks[c].instrs = DOMAIN f.blocks[c].instrs
           /\ \A j \in DOMAIN f.blocks[c].instrs :
                InstrAt(g, c, j) = IF c = b /\ j = i THEN x ELSE InstrAt(f, c, j)
  BY UpdateInstr
<1>2. \A c \in DOMAIN f.blocks : \A j \in DOMAIN f.blocks[c].instrs :
        InstrAt(g, c, j).op \in IROp /\ InstrAt(f, c, j).op \in IROp
  <2>1. \A c \in DOMAIN f.blocks : \A j \in DOMAIN f.blocks[c].instrs :
          InstrAt(g, c, j) \in Instr /\ InstrAt(f, c, j) \in Instr
    BY <1>1, FuncParts
  <2> QED BY <2>1 DEF Instr, IRInstr
<1>3. At(g, IROp) = At(f, IROp)
  <2>1. \A p : p \in At(g, IROp) <=> p \in At(f, IROp)
    BY <1>1, <1>2, AtDef
  <2> QED BY <2>1
<1>4. At(g, Rewritable) = At(f, Rewritable) \ {<<b, i>>}
  <2>1. \A p : p \in At(g, Rewritable) <=> p \in At(f, Rewritable) \ {<<b, i>>}
    BY <1>1, AtDef
  <2> QED BY <2>1
<1>5. <<b, i>> \in At(f, Rewritable)
  BY AtDef
<1>6. Cardinality(At(g, Rewritable)) = Cardinality(At(f, Rewritable)) - 1
  BY <1>4, <1>5, AtFinite, FS_RemoveElement
<1>7. /\ Cardinality(At(f, IROp)) \in Nat /\ Cardinality(At(f, Rewritable)) \in Nat /\ Len(f.blocks) \in Nat
  BY AtFinite, FuncParts
<1> QED BY <1>1, <1>3, <1>6, <1>7, WeightDef

LEMMA ErasedInstrShrinks ==
  ASSUME NEW f \in Func, NEW b \in DOMAIN f.blocks, NEW i \in DOMAIN f.blocks[b].instrs,
         NEW g, g = DropInstr(f, b, i)
  PROVE  Weight(g) < Weight(f)
<1>1. /\ g \in Func /\ DOMAIN g.blocks = DOMAIN f.blocks /\ Len(g.blocks) = Len(f.blocks)
      /\ \A c \in DOMAIN f.blocks : c # b => g.blocks[c] = f.blocks[c]
      /\ \A j \in DOMAIN g.blocks[b].instrs :
           /\ Shift(i, j) \in DOMAIN f.blocks[b].instrs
           /\ InstrAt(g, b, j) = InstrAt(f, b, Shift(i, j))
  BY EraseInstr
<1>2. ASSUME NEW S PROVE Cardinality(At(g, S)) <= Cardinality(At(f, S) \ {<<b, i>>})
  <2> DEFINE was(p) == IF p[1] = b THEN <<b, Shift(i, p[2])>> ELSE p
             m == [p \in At(g, S) |-> was(p)]
             T == At(f, S) \ {<<b, i>>}
  <2>1. ASSUME NEW p \in At(g, S) PROVE p[2] \in Int /\ was(p) \in T
    <3>1. /\ p = <<p[1], p[2]>> /\ p[1] \in DOMAIN g.blocks /\ p[2] \in DOMAIN g.blocks[p[1]].instrs
          /\ InstrAt(g, p[1], p[2]).op \in S
      BY AtDef
    <3>2. p[2] \in Int /\ i \in Int
      BY <1>1, <3>1, FuncParts
    <3>3. CASE p[1] = b
      <4>1. Shift(i, p[2]) # i
        BY <3>2 DEF Shift
      <4>2. <<b, Shift(i, p[2])>> \in At(f, S)
        BY <1>1, <3>1, <3>3, AtDef
      <4> QED BY <3>2, <3>3, <4>1, <4>2
    <3>4. CASE p[1] # b
      <4>1. p \in At(f, S)
        BY <1>1, <3>1, <3>4, AtDef DEF InstrAt
      <4> QED BY <3>2, <3>4, <4>1
    <3> QED BY <3>3, <3>4
  <2>2. ASSUME NEW p \in At(g, S), NEW q \in At(g, S), was(p) = was(q) PROVE p = q
    <3>1. p = <<p[1], p[2]>> /\ q = <<q[1], q[2]>>
      BY AtDef
    <3>2. p[2] \in Int /\ q[2] \in Int /\ i \in Int
      <4>1. p[2] \in Int /\ q[2] \in Int
        BY <2>1
      <4>2. i \in Int
        BY FuncParts
      <4> QED BY <4>1, <4>2
    <3>3. p[1] = q[1]
      BY <2>2, <3>1
    <3>4. p[1] = b => Shift(i, p[2]) = Shift(i, q[2])
      BY <2>2, <3>3
    <3>5. p[2] = q[2]
      BY <2>2, <3>2, <3>3, <3>4, ShiftInjective
    <3> QED BY <3>1, <3>3, <3>5
  <2>3. m \in Injection(At(g, S), T)
    <3> HIDE DEF was, T
    <3> QED BY <2>1, <2>2 DEF Injection, IsInjective
  <2>4. IsFiniteSet(T)
    BY AtFinite, FS_Subset
  <2> HIDE DEF m, T
  <2>5. Cardinality(At(g, S)) <= Cardinality(T)
    BY <2>3, <2>4, FS_Injection
  <2> QED BY <2>5 DEF T
<1>3. ASSUME NEW S
      PROVE  Cardinality(At(f, S) \ {<<b, i>>}) =
               IF <<b, i>> \in At(f, S) THEN Cardinality(At(f, S)) - 1 ELSE Cardinality(At(f, S))
  BY AtFinite, FS_RemoveElement
<1>4. <<b, i>> \in At(f, IROp)
  <2>1. InstrAt(f, b, i).op \in IROp
    BY FuncParts DEF Instr, IRInstr
  <2> QED BY <2>1, AtDef
<1>5. /\ \A S : Cardinality(At(f, S)) \in Nat /\ Cardinality(At(g, S)) \in Nat
      /\ Len(f.blocks) \in Nat
  BY <1>1, AtFinite, FuncParts
<1>6. Cardinality(At(g, IROp)) < Cardinality(At(f, IROp))
  <2>1. Cardinality(At(g, IROp)) <= Cardinality(At(f, IROp) \ {<<b, i>>})
    BY <1>2
  <2>2. Cardinality(At(f, IROp) \ {<<b, i>>}) = Cardinality(At(f, IROp)) - 1
    BY <1>3, <1>4
  <2> QED BY <2>1, <2>2, <1>5
<1>7. Cardinality(At(g, Rewritable)) <= Cardinality(At(f, Rewritable))
  <2>1. Cardinality(At(g, Rewritable)) <= Cardinality(At(f, Rewritable) \ {<<b, i>>})
    BY <1>2
  <2>2. \/ Cardinality(At(f, Rewritable) \ {<<b, i>>}) = Cardinality(At(f, Rewritable)) - 1
        \/ Cardinality(At(f, Rewritable) \ {<<b, i>>}) = Cardinality(At(f, Rewritable))
    BY <1>3
  <2> QED BY <2>1, <2>2, <1>5
<1> QED BY <1>1, <1>5, <1>6, <1>7, WeightDef

LEMMA ErasedBlockShrinks ==
  ASSUME NEW f \in Func, NEW b \in DOMAIN f.blocks, NEW g, g = DropBlock(f, b)
  PROVE  Weight(g) < Weight(f)
<1>1. /\ g \in Func /\ Len(g.blocks) = Len(f.blocks) - 1
      /\ \A c \in DOMAIN g.blocks : Shift(b, c) \in DOMAIN f.blocks \ {b} /\ g.blocks[c] = f.blocks[Shift(b, c)]
  BY EraseBlock
<1>2. ASSUME NEW S PROVE Cardinality(At(g, S)) <= Cardinality(At(f, S))
  <2> DEFINE was(p) == <<Shift(b, p[1]), p[2]>>
             m == [p \in At(g, S) |-> was(p)]
  <2>1. ASSUME NEW p \in At(g, S)
        PROVE  p = <<p[1], p[2]>> /\ p[1] \in Int /\ was(p) \in At(f, S)
    <3>1. /\ p = <<p[1], p[2]>> /\ p[1] \in DOMAIN g.blocks /\ p[2] \in DOMAIN g.blocks[p[1]].instrs
          /\ InstrAt(g, p[1], p[2]).op \in S
      BY AtDef
    <3>2. p[1] \in Int
      BY <1>1, <3>1, FuncParts
    <3>3. was(p) \in At(f, S)
      BY <1>1, <3>1, AtDef DEF InstrAt
    <3> QED BY <3>1, <3>2, <3>3
  <2>2. b \in Int
    BY FuncParts
  <2>3. ASSUME NEW p \in At(g, S), NEW q \in At(g, S), was(p) = was(q) PROVE p = q
    <3>1. p[1] \in Int /\ q[1] \in Int /\ p = <<p[1], p[2]>> /\ q = <<q[1], q[2]>>
      BY <2>1
    <3>2. Shift(b, p[1]) = Shift(b, q[1]) /\ p[2] = q[2]
      BY <2>3
    <3>3. p[1] = q[1]
      BY <2>2, <3>1, <3>2, ShiftInjective
    <3> QED BY <3>1, <3>2, <3>3
  <2>4. m \in Injection(At(g, S), At(f, S))
    <3> HIDE DEF was
    <3> QED BY <2>1, <2>3 DEF Injection, IsInjective
  <2> HIDE DEF m
  <2> QED BY <2>4, AtFinite, FS_Injection
<1>3. /\ \A S : Cardinality(At(f, S)) \in Nat /\ Cardinality(At(g, S)) \in Nat
      /\ Len(f.blocks) \in Nat
  BY <1>1, AtFinite, FuncParts
<1>4. Cardinality(At(g, IROp)) <= Cardinality(At(f, IROp)) /\ Cardinality(At(g, Rewritable)) <= Cardinality(At(f, Rewritable))
  BY <1>2
<1> QED BY <1>1, <1>3, <1>4, WeightDef, SMTT(30)

LEMMA FoldShrinks ==
  ASSUME NEW f \in Func, NEW b \in DOMAIN f.blocks, NEW i \in DOMAIN f.blocks[b].instrs,
         NEW c \in RegValue, InstrAt(f, b, i).op \in FoldableOp,
         NEW g, g = FoldInstr(f, b, i, c)
  PROVE  Weight(g) < Weight(f)
<1> DEFINE instr == InstrAt(f, b, i)
           x == [instr EXCEPT !.op = "Const", !.constVal = c, !.inputs = <<>>,
                              !.cmpKind = IF Len(instr.inputs) = 2 THEN None ELSE @]
           h == SetInstr(f, b, i, x)
<1>1. instr \in Instr
  BY FuncParts
<1>2. x \in Instr /\ x.op = "Const"
  <2> HIDE DEF instr
  <2> QED BY <1>1, ConstantInstr
<1>3. g.blocks = h.blocks
  BY DEF FoldInstr, SetInstr, Func
<1>4. InstrAt(f, b, i).op \in Rewritable /\ "Const" \notin Rewritable
  BY DEF Rewritable, FoldableOp
<1>5. Weight(h) < Weight(f)
  <2> HIDE DEF x
  <2> QED BY <1>2, <1>4, OverwrittenShrinks
<1>6. Weight(g) = Weight(h)
  <2> HIDE DEF h
  <2> QED BY <1>3 DEF Weight, InstrAt
<1> QED BY <1>5, <1>6

LEMMA DecideShrinks ==
  ASSUME NEW f \in Func, NEW b \in DOMAIN f.blocks, NEW i \in DOMAIN f.blocks[b].instrs,
         InstrAt(f, b, i).op = "BrTrue",
         NEW g, g = SetInstr(f, b, i, Decide(f, InstrAt(f, b, i)))
  PROVE  Weight(g) < Weight(f)
<1> DEFINE instr == InstrAt(f, b, i)
           x == Decide(f, instr)
<1>1. instr \in Instr
  BY FuncParts
<1>2. x \in Instr /\ x.op = "Jmp"
  <2> HIDE DEF instr
  <2> QED BY <1>1, DecidedInstr
<1>3. instr.op \in Rewritable /\ x.op \notin Rewritable
  BY <1>2 DEF Rewritable, FoldableOp
<1>4. g = SetInstr(f, b, i, x)
  OBVIOUS
<1> HIDE DEF x
<1> QED BY <1>2, <1>3, <1>4, OverwrittenShrinks

\* Only a rewrite changes the blocks of a function, and it makes it lighter.
LEMMA RewriteShrinks ==
  ASSUME StateInv, phase # "done", NEW g, NEW pos, Rewrite(g, pos), Weight(g) < Weight(Fn),
         NEW k \in DOMAIN functions, functions'[k].blocks # functions[k].blocks
  PROVE  Weight(functions'[k]) < Weight(functions[k])
<1>1. functions' = [functions EXCEPT ![current] = g] /\ current \in DOMAIN functions
  BY DEF Rewrite, StateInv
<1>2. k = current /\ functions'[k] = g
  BY <1>1
<1> QED BY <1>2 DEF Fn

LEMMA StepShrinks ==
  ASSUME SoundInv, [Next]_vars, NEW k \in DOMAIN functions, functions'[k].blocks # functions[k].blocks
  PROVE  Weight(functions'[k]) < Weight(functions[k])
<1> DEFINE Lighter == Weight(functions'[k]) < Weight(functions[k])
<1>1. StateInv /\ FunctionsSound
  BY DEF SoundInv
<1>2. ASSUME phase = "visit" PROVE Fn \in Func
  BY <1>1, <1>2, VisitedFunction
<1>3. ~(UNCHANGED functions)
  OBVIOUS
<1>4. CASE FoldConstant
  <2>1. /\ phase = "visit" /\ B \in DOMAIN Fn.blocks /\ I \in DOMAIN Fn.blocks[B].instrs
    BY <1>4 DEF FoldConstant, Running, HasInstr
  <2> DEFINE instr == InstrAt(Fn, B, I)
  <2>2. PICK c \in Folded(Fn, instr) : c # None /\ c # Trap /\ Rewrite(FoldInstr(Fn, B, I, c), <<B, I + 1>>)
    BY <1>4, <1>3, OptimizerAssumption DEF FoldConstant, SkipTo
  <2>3. instr \in Instr
    BY <2>1, <1>2, FuncParts
  <2>4. c \in RegValue /\ instr.op \in FoldableOp
    <3> HIDE DEF instr
    <3> QED BY <2>1, <2>2, <2>3, <1>2, FoldedConstant
  <2> DEFINE g == FoldInstr(Fn, B, I, c)
  <2>5. Weight(g) < Weight(Fn)
    <3> HIDE DEF Fn, B, I
    <3> QED BY <2>1, <2>4, <1>2, FoldShrinks
  <2> HIDE DEF g
  <2> QED BY <2>1, <2>2, <2>5, <1>1, RewriteShrinks DEF g
<1>5. CASE EraseDeadInstr
  <2>1. /\ phase = "visit" /\ B \in DOMAIN Fn.blocks /\ I \in DOMAIN Fn.blocks[B].instrs
    BY <1>5 DEF EraseDeadInstr, Running, HasInstr
  <2> DEFINE g == DropInstr(Fn, B, I)
  <2>2. Rewrite(g, cursor)
    BY <1>5, <1>3 DEF EraseDeadInstr, SkipTo, DropInstr
  <2>3. Weight(g) < Weight(Fn)
    <3> HIDE DEF Fn, B, I
    <3> QED BY <2>1, <1>2, ErasedInstrShrinks
  <2> HIDE DEF g
  <2> QED BY <2>1, <2>2, <2>3, <1>1, RewriteShrinks
<1>6. CASE SimplifyJump
  <2>1. /\ phase = "visit" /\ B \in DOMAIN Fn.blocks /\ I \in DOMAIN Fn.blocks[B].instrs
    BY <1>6 DEF SimplifyJump, Running, HasInstr
  <2> DEFINE g == SetInstr(Fn, B, I, Decide(Fn, InstrAt(Fn, B, I)))
  <2>2. Rewrite(g, <<B, I + 1>>) /\ InstrAt(Fn, B, I).op = "BrTrue"
    BY <1>6, <1>3 DEF SimplifyJump, SkipTo, SetInstr, InstrAt, IsDecided
  <2>3. Weight(g) < Weight(Fn)
    <3> HIDE DEF Fn, B, I
    <3> QED BY <2>1, <2>2, <1>2, DecideShrinks
  <2> HIDE DEF g
  <2> QED BY <2>1, <2>2, <2>3, <1>1, RewriteShrinks
<1>7. CASE EraseUnreachableBlock
  <2>1. phase = "visit" /\ B \in DOMAIN Fn.blocks
    BY <1>7 DEF EraseUnreachableBlock, Running
  <2> DEFINE g == DropBlock(Fn, B)
  <2>2. Rewrite(g, cursor)
    BY <1>7, <1>3 DEF EraseUnreachableBlock, SkipTo, DropBlock
  <2>3. Weight(g) < Weight(Fn)
    <3> HIDE DEF Fn, B
    <3> QED BY <2>1, <1>2, ErasedBlockShrinks
  <2> HIDE DEF g
  <2> QED BY <2>1, <2>2, <2>3, <1>1, RewriteShrinks
<1>8. CASE FinishPass
  <2>1. /\ phase = "visit" /\ functions' = [functions EXCEPT ![current] = Finished(@)]
    BY <1>8 DEF FinishPass
  <2>2. current \in DOMAIN functions /\ functions[current] \in Func
    BY <2>1, <1>1 DEF StateInv
  <2>3. Finished(functions[current]).blocks = functions[current].blocks
    BY <2>2 DEF Finished, Func
  <2> QED BY <2>1, <2>2, <2>3
<1>9. CASE UNCHANGED vars
  BY <1>9, <1>3 DEF vars
<1>10. CASE StartPass \/ NextBlock \/ (\E id \in worklist : VisitReachable(id)) \/ WorklistEmpty
             \/ EndRound \/ RunAgain
  BY <1>10, <1>3 DEF StartPass, NextBlock, SkipTo, VisitReachable, WorklistEmpty, EndRound, RunAgain
<1> QED BY <1>4, <1>5, <1>6, <1>7, <1>8, <1>9, <1>10 DEF Next, OptimizerStep

\* Passes cannot undo each other for ever: whatever they change makes a
\* function lighter.
THEOREM ChangesShrink == Spec => EveryChangeShrinks
<1> DEFINE Shrinks == \A k \in DOMAIN functions :
             functions'[k].blocks # functions[k].blocks => Weight(functions'[k]) < Weight(functions[k])
<1>1. SoundInv /\ [Next]_vars => Shrinks
  BY StepShrinks
<1>2. SoundInv /\ [Next]_vars => [Shrinks]_vars
  BY <1>1
<1>3. EveryChangeShrinks <=> [][Shrinks]_vars
  BY DEF EveryChangeShrinks
<1> HIDE DEF Shrinks
<1> QED BY <1>2, <1>3, Soundness, PTL DEF Spec
=============================================================================
