--------------------------- MODULE Lowering_proofs ---------------------------
(***************************************************************************)
(* What the lowering emits, for every function the DSL can build: what     *)
(* allocating and emitting do to a function, what lowering an expression   *)
(* and a condition does, and the invariant of the walk over the statements *)
(***************************************************************************)
EXTENDS Lowering, FiniteSetTheorems, WellFoundedInduction, TLAPS

Instr  == IRInstr(RegValue)
Block  == IRBlock(RegValue)
Values == Optional(RegValue)

\* Names of functions; of a string literal TLAPS does not know that it is in
\* STRING.
Name == STRING \cup {"main"}

\* A function while its blocks are not indexed yet.
FunctionRecord ==
  [name : Name, blocks : Seq(IRBlock(RegValue)), values : Seq(Optional(RegValue))]

InstrAt(fn, b, i) == fn.blocks[b].instrs[i]
Computes(x) == x.output # None /\ x.op \notin {"Const", "Copy"}

\* An instruction reads and writes values of the function, writes one with a
\* constant as that constant's Const only, and branches to one of its blocks.
InstrSound(fn, x) ==
  /\ \A k \in DOMAIN x.inputs : x.inputs[k] < Len(fn.values)
  /\ x.output # None =>
       /\ x.output < Len(fn.values)
       /\ fn.values[x.output + 1] # None => x.op = "Const" /\ x.constVal = fn.values[x.output + 1]
  /\ \A t \in Targets(x) : t \in 0 .. Len(fn.blocks) - 1

InstrsSound(fn) ==
  \A b \in DOMAIN fn.blocks : \A i \in DOMAIN fn.blocks[b].instrs : InstrSound(fn, InstrAt(fn, b, i))

\* A value that is computed is written nowhere else.
WritesOnce(fn) ==
  \A b, c \in DOMAIN fn.blocks :
    \A i \in DOMAIN fn.blocks[b].instrs : \A j \in DOMAIN fn.blocks[c].instrs :
      (/\ Computes(InstrAt(fn, b, i))
       /\ InstrAt(fn, c, j).output = InstrAt(fn, b, i).output) => b = c /\ i = j

\* A value that no instruction computes.
NotComputed(fn, v) ==
  \A b \in DOMAIN fn.blocks : \A i \in DOMAIN fn.blocks[b].instrs :
    Computes(InstrAt(fn, b, i)) => InstrAt(fn, b, i).output # v

\* The slot of a variable: it has no constant, and only copies write it.
Slot(fn, v) == v \in 0 .. Len(fn.values) - 1 /\ fn.values[v + 1] = None /\ NotComputed(fn, v)

IdsCount(fn) == \A b \in DOMAIN fn.blocks : fn.blocks[b].id = b - 1

\* What holds of every function, whatever is still to be emitted into it.
FnSound(fn) ==
  /\ fn.name \in Name /\ fn.blocks \in Seq(Block) /\ fn.values \in Seq(Values)
  /\ IdsCount(fn) /\ InstrsSound(fn) /\ WritesOnce(fn)

Growing(fn) == fn \in FunctionRecord /\ FnSound(fn)

TableSound(fn, tab) == \A n \in DOMAIN tab : Slot(fn, tab[n])

\* What allocating and emitting leave as it was.
Kept(fn, g) ==
  /\ g.name = fn.name /\ Len(fn.blocks) <= Len(g.blocks) /\ Len(fn.values) <= Len(g.values)
  /\ \A b \in DOMAIN fn.blocks : Terminated(fn.blocks[b]) => Terminated(g.blocks[b])
  /\ \A v \in Nat : Slot(fn, v) => Slot(g, v)

(***************************************************************************)
(* Allocating and emitting.                                                *)
(***************************************************************************)
LEMMA FnParts ==
  ASSUME NEW fn, FnSound(fn)
  PROVE  /\ fn.blocks \in Seq(Block) /\ fn.values \in Seq(Values)
         /\ Len(fn.blocks) \in Nat /\ DOMAIN fn.blocks = 1 .. Len(fn.blocks)
         /\ Len(fn.values) \in Nat /\ DOMAIN fn.values = 1 .. Len(fn.values)
         /\ \A b \in DOMAIN fn.blocks :
              /\ fn.blocks[b] \in Block /\ fn.blocks[b].id = b - 1
              /\ fn.blocks[b].instrs \in Seq(Instr) /\ Len(fn.blocks[b].instrs) \in Nat
              /\ DOMAIN fn.blocks[b].instrs = 1 .. Len(fn.blocks[b].instrs)
              /\ \A i \in DOMAIN fn.blocks[b].instrs :
                   InstrAt(fn, b, i) \in Instr /\ InstrSound(fn, InstrAt(fn, b, i))
<1>1. /\ fn.blocks \in Seq(Block) /\ fn.values \in Seq(Values)
      /\ IdsCount(fn) /\ InstrsSound(fn)
  BY DEF FnSound
<1>2. ASSUME NEW b \in DOMAIN fn.blocks
      PROVE  /\ fn.blocks[b] \in Block /\ fn.blocks[b].id = b - 1
             /\ fn.blocks[b].instrs \in Seq(Instr)
  <2>1. fn.blocks[b] \in Block
    BY <1>1
  <2> QED BY <2>1, <1>1 DEF Block, IRBlock, Instr, IdsCount
<1> QED BY <1>1, <1>2 DEF InstrAt, InstrsSound

\* What an instruction is.
LEMMA InstrParts ==
  ASSUME NEW x \in Instr
  PROVE  /\ x.op \in IROp /\ x.inputs \in Seq(Nat) /\ x.output \in Optional(Nat)
         /\ Targets(x) \subseteq Nat /\ None \notin Nat
         /\ DOMAIN x.inputs = 1 .. Len(x.inputs) /\ Len(x.inputs) \in Nat
         /\ \A k \in DOMAIN x.inputs : x.inputs[k] \in Nat
  BY NoneAssumption DEF Instr, IRInstr, Targets, Optional

\* A value is allocated: the function is otherwise what it was.
LEMMA AllocValueKeeps ==
  ASSUME NEW fn, Growing(fn), NEW c \in Values
  PROVE  LET g == AllocValue(fn, c)
         IN  /\ Growing(g) /\ Kept(fn, g) /\ g.blocks = fn.blocks
             /\ Len(g.values) = Len(fn.values) + 1
             /\ g.values[Len(fn.values) + 1] = c
             /\ \A k \in 1 .. Len(fn.values) : g.values[k] = fn.values[k]
<1> DEFINE g == AllocValue(fn, c)
<1> SUFFICES /\ Growing(g) /\ Kept(fn, g) /\ g.blocks = fn.blocks
             /\ Len(g.values) = Len(fn.values) + 1
             /\ g.values[Len(fn.values) + 1] = c
             /\ \A k \in 1 .. Len(fn.values) : g.values[k] = fn.values[k]
  OBVIOUS
<1>1. /\ fn \in FunctionRecord /\ FnSound(fn) /\ fn.values \in Seq(Values)
      /\ Len(fn.values) \in Nat
  BY FnParts DEF Growing
<1>2. /\ g.name = fn.name /\ g.blocks = fn.blocks /\ g.values = Append(fn.values, c)
      /\ g \in FunctionRecord
  <2>1. Append(fn.values, c) \in Seq(Values)
    BY <1>1
  <2>2. g = [fn EXCEPT !.values = Append(@, c)]
    BY DEF AllocValue
  <2> QED BY <1>1, <2>1, <2>2 DEF FunctionRecord, Values
<1> HIDE DEF g
<1>3. /\ Len(g.values) = Len(fn.values) + 1 /\ g.values \in Seq(Values)
      /\ g.values[Len(fn.values) + 1] = c
      /\ \A k \in 1 .. Len(fn.values) : g.values[k] = fn.values[k]
  BY <1>1, <1>2
<1>4. InstrsSound(g)
  <2> SUFFICES ASSUME NEW b \in DOMAIN fn.blocks, NEW i \in DOMAIN fn.blocks[b].instrs
               PROVE  InstrSound(g, InstrAt(g, b, i))
    BY <1>2 DEF InstrsSound
  <2>1. InstrAt(g, b, i) = InstrAt(fn, b, i)
    BY <1>2 DEF InstrAt
  <2>2. InstrAt(fn, b, i) \in Instr /\ InstrSound(fn, InstrAt(fn, b, i))
    BY <1>1, FnParts
  <2> DEFINE x == InstrAt(fn, b, i)
  <2> HIDE DEF x
  <2>3. x \in Instr /\ InstrSound(fn, x) /\ x.output \in Optional(Nat) /\ x.inputs \in Seq(Nat)
    BY <2>2, InstrParts DEF x
  <2>4. InstrSound(g, x)
    BY <2>3, <1>1, <1>2, <1>3 DEF InstrSound, Optional
  <2> QED BY <2>1, <2>4 DEF x
<1>5. WritesOnce(g) /\ IdsCount(g)
  <2>1. \A b, i : InstrAt(g, b, i) = InstrAt(fn, b, i)
    BY <1>2 DEF InstrAt
  <2>2. WritesOnce(fn) /\ IdsCount(fn)
    BY <1>1 DEF FnSound
  <2> QED BY <2>1, <2>2, <1>2 DEF WritesOnce, IdsCount
<1>6. Growing(g)
  BY <1>1, <1>2, <1>3, <1>4, <1>5 DEF Growing, FnSound
<1>7. ASSUME NEW v \in Nat, Slot(fn, v) PROVE Slot(g, v)
  BY <1>1, <1>2, <1>3, <1>7 DEF Slot, NotComputed, InstrAt
<1>8. Kept(fn, g)
  BY <1>1, <1>2, <1>3, <1>7, FnParts DEF Kept
<1> QED BY <1>2, <1>3, <1>6, <1>8

\* A block is allocated, with the id its index will have.
LEMMA AllocBlockKeeps ==
  ASSUME NEW fn, Growing(fn)
  PROVE  LET g == AllocBlock(fn)
         IN  /\ Growing(g) /\ Kept(fn, g) /\ g.values = fn.values
             /\ Len(g.blocks) = Len(fn.blocks) + 1
<1> DEFINE g == AllocBlock(fn)
           new == [id |-> Len(fn.blocks), instrs |-> <<>>]
<1> SUFFICES /\ Growing(g) /\ Kept(fn, g) /\ g.values = fn.values
             /\ Len(g.blocks) = Len(fn.blocks) + 1
  OBVIOUS
<1>1. /\ fn \in FunctionRecord /\ FnSound(fn) /\ fn.blocks \in Seq(Block)
      /\ Len(fn.blocks) \in Nat /\ DOMAIN fn.blocks = 1 .. Len(fn.blocks)
  BY FnParts DEF Growing
<1>2. new \in Block
  BY <1>1 DEF Block, IRBlock
<1>3. /\ g.name = fn.name /\ g.blocks = Append(fn.blocks, new) /\ g.values = fn.values
      /\ g \in FunctionRecord
  <2>1. g = [fn EXCEPT !.blocks = Append(fn.blocks, new)]
    BY DEF AllocBlock
  <2> HIDE DEF g, new
  <2>2. Append(fn.blocks, new) \in Seq(IRBlock(RegValue))
    BY <1>1, <1>2 DEF Block
  <2> QED BY <1>1, <2>1, <2>2 DEF FunctionRecord
<1>4. new.id = Len(fn.blocks) /\ new.instrs = <<>>
  OBVIOUS
<1> HIDE DEF g, new
<1>5. /\ Len(g.blocks) = Len(fn.blocks) + 1 /\ g.blocks \in Seq(Block)
      /\ DOMAIN g.blocks = 1 .. (Len(fn.blocks) + 1)
      /\ g.blocks[Len(fn.blocks) + 1] = new
      /\ \A b \in DOMAIN fn.blocks : g.blocks[b] = fn.blocks[b]
  BY <1>1, <1>2, <1>3
<1>6. ASSUME NEW b \in DOMAIN g.blocks, NEW i \in DOMAIN g.blocks[b].instrs
      PROVE  /\ b \in DOMAIN fn.blocks /\ i \in DOMAIN fn.blocks[b].instrs
             /\ InstrAt(g, b, i) = InstrAt(fn, b, i)
  <2>1. b # Len(fn.blocks) + 1
    BY <1>4, <1>5
  <2>2. b \in DOMAIN fn.blocks
    BY <2>1, <1>1, <1>5
  <2> QED BY <2>2, <1>5 DEF InstrAt
<1>7. InstrsSound(g)
  <2> SUFFICES ASSUME NEW b \in DOMAIN g.blocks, NEW i \in DOMAIN g.blocks[b].instrs
               PROVE  InstrSound(g, InstrAt(g, b, i))
    BY DEF InstrsSound
  <2>1. b \in DOMAIN fn.blocks /\ i \in DOMAIN fn.blocks[b].instrs /\ InstrAt(g, b, i) = InstrAt(fn, b, i)
    BY <1>6
  <2> DEFINE x == InstrAt(fn, b, i)
  <2>2. x \in Instr /\ InstrSound(fn, x) /\ Targets(x) \subseteq Nat
    BY <2>1, <1>1, FnParts, InstrParts
  <2> HIDE DEF x
  <2>3. \A t \in Targets(x) : t \in 0 .. Len(g.blocks) - 1
    BY <2>2, <1>1, <1>5 DEF InstrSound
  <2>4. InstrSound(g, x)
    BY <2>2, <2>3, <1>3 DEF InstrSound
  <2> QED BY <2>1, <2>4 DEF x
<1>8. WritesOnce(g)
  <2> SUFFICES ASSUME NEW b \in DOMAIN g.blocks, NEW c \in DOMAIN g.blocks,
                      NEW i \in DOMAIN g.blocks[b].instrs, NEW j \in DOMAIN g.blocks[c].instrs,
                      Computes(InstrAt(g, b, i)), InstrAt(g, c, j).output = InstrAt(g, b, i).output
               PROVE  b = c /\ i = j
    BY DEF WritesOnce
  <2>1. /\ b \in DOMAIN fn.blocks /\ i \in DOMAIN fn.blocks[b].instrs
        /\ InstrAt(g, b, i) = InstrAt(fn, b, i)
        /\ c \in DOMAIN fn.blocks /\ j \in DOMAIN fn.blocks[c].instrs
        /\ InstrAt(g, c, j) = InstrAt(fn, c, j)
    BY <1>6
  <2> QED BY <2>1, <1>1 DEF FnSound, WritesOnce
<1>9. IdsCount(g)
  BY <1>1, <1>4, <1>5, FnParts DEF IdsCount
<1>10. Growing(g)
  BY <1>1, <1>3, <1>5, <1>7, <1>8, <1>9 DEF Growing, FnSound
<1>11. ASSUME NEW v \in Nat, Slot(fn, v) PROVE Slot(g, v)
  BY <1>3, <1>6, <1>11 DEF Slot, NotComputed
<1>12. Kept(fn, g)
  BY <1>1, <1>3, <1>5, <1>11, FnParts DEF Kept
<1> QED BY <1>3, <1>5, <1>10, <1>12

\* Values allocated before another, as operands must be.
Below(values, out) == \A k \in DOMAIN values : values[k] < out

\* An instruction that leads nowhere else.
Straight(x) == Targets(x) = {}

\* A constant that may be kept with the value an instruction writes.
Constant(c, x) == c # None => x.op = "Const" /\ x.constVal = c

\* No instruction writes a value.
Unwritten(fn, v) ==
  \A b \in DOMAIN fn.blocks : \A i \in DOMAIN fn.blocks[b].instrs : InstrAt(fn, b, i).output # v

\* A sound instruction is emitted: it comes last in its block.
LEMMA EmitPlaces ==
  ASSUME NEW fn, Growing(fn), NEW blk \in 0 .. Len(fn.blocks) - 1, NEW x \in Instr
  PROVE  LET g == Emit(fn, blk, x)
         IN  /\ g \in FunctionRecord /\ g.name = fn.name /\ g.values = fn.values
             /\ Len(g.blocks) = Len(fn.blocks) /\ DOMAIN g.blocks = DOMAIN fn.blocks
             /\ \A b \in DOMAIN fn.blocks :
                  /\ g.blocks[b].id = fn.blocks[b].id
                  /\ b # blk + 1 => g.blocks[b] = fn.blocks[b]
             /\ DOMAIN g.blocks[blk + 1].instrs = 1 .. (Len(fn.blocks[blk + 1].instrs) + 1)
             /\ InstrAt(g, blk + 1, Len(fn.blocks[blk + 1].instrs) + 1) = x
             /\ \A i \in DOMAIN fn.blocks[blk + 1].instrs :
                  InstrAt(g, blk + 1, i) = InstrAt(fn, blk + 1, i)
<1> DEFINE g == Emit(fn, blk, x)
           old == fn.blocks[blk + 1]
           new == [old EXCEPT !.instrs = Append(@, x)]
<1> SUFFICES /\ g \in FunctionRecord /\ g.name = fn.name /\ g.values = fn.values
             /\ Len(g.blocks) = Len(fn.blocks) /\ DOMAIN g.blocks = DOMAIN fn.blocks
             /\ \A b \in DOMAIN fn.blocks :
                  /\ g.blocks[b].id = fn.blocks[b].id
                  /\ b # blk + 1 => g.blocks[b] = fn.blocks[b]
             /\ DOMAIN g.blocks[blk + 1].instrs = 1 .. (Len(fn.blocks[blk + 1].instrs) + 1)
             /\ InstrAt(g, blk + 1, Len(fn.blocks[blk + 1].instrs) + 1) = x
             /\ \A i \in DOMAIN fn.blocks[blk + 1].instrs :
                  InstrAt(g, blk + 1, i) = InstrAt(fn, blk + 1, i)
  OBVIOUS
<1>1. /\ fn \in FunctionRecord /\ FnSound(fn) /\ fn.blocks \in Seq(Block)
      /\ Len(fn.blocks) \in Nat /\ DOMAIN fn.blocks = 1 .. Len(fn.blocks)
      /\ blk + 1 \in DOMAIN fn.blocks
  BY FnParts DEF Growing
<1>2. old \in Block /\ old.instrs \in Seq(Instr) /\ Len(old.instrs) \in Nat
  BY <1>1, FnParts
<1>3. g = [fn EXCEPT !.blocks = [@ EXCEPT ![blk + 1] = new]]
  BY DEF Emit
<1>4. Append(old.instrs, x) \in Seq(Instr)
  BY <1>2
<1>5. new \in Block /\ new.id = old.id /\ new.instrs = Append(old.instrs, x)
  BY <1>2, <1>4 DEF Block, IRBlock, Instr
<1>6. /\ DOMAIN Append(old.instrs, x) = 1 .. (Len(old.instrs) + 1)
      /\ Append(old.instrs, x)[Len(old.instrs) + 1] = x
      /\ \A i \in DOMAIN old.instrs : Append(old.instrs, x)[i] = old.instrs[i]
  <2> HIDE DEF old
  <2> QED BY <1>2
<1> HIDE DEF g, new
<1>7. [fn.blocks EXCEPT ![blk + 1] = new] \in Seq(IRBlock(RegValue))
  BY <1>1, <1>5 DEF Block
<1>8. /\ g \in FunctionRecord /\ g.name = fn.name /\ g.values = fn.values
      /\ g.blocks = [fn.blocks EXCEPT ![blk + 1] = new]
  BY <1>1, <1>3, <1>7 DEF FunctionRecord
<1>9. /\ Len(g.blocks) = Len(fn.blocks) /\ DOMAIN g.blocks = DOMAIN fn.blocks
      /\ \A b \in DOMAIN fn.blocks : g.blocks[b] = IF b = blk + 1 THEN new ELSE fn.blocks[b]
  BY <1>1, <1>8
<1> QED BY <1>1, <1>5, <1>6, <1>8, <1>9 DEF InstrAt

LEMMA EmitKeeps ==
  ASSUME NEW fn, Growing(fn), NEW blk \in 0 .. Len(fn.blocks) - 1, NEW x \in Instr,
         InstrSound(fn, x),
         x.output # None => NotComputed(fn, x.output),
         Computes(x) => Unwritten(fn, x.output)
  PROVE  LET g == Emit(fn, blk, x)
         IN  /\ Growing(g) /\ g.name = fn.name /\ g.values = fn.values
             /\ Len(g.blocks) = Len(fn.blocks) /\ DOMAIN g.blocks = DOMAIN fn.blocks
             /\ \A b \in DOMAIN fn.blocks : Terminated(fn.blocks[b]) => Terminated(g.blocks[b])
             /\ IsTerminator(x) => Terminated(g.blocks[blk + 1])
             /\ \A v \in Nat : Slot(fn, v) /\ (x.output # v \/ ~Computes(x)) => Slot(g, v)
<1> DEFINE g == Emit(fn, blk, x)
           n == Len(fn.blocks[blk + 1].instrs) + 1
<1> SUFFICES /\ Growing(g) /\ g.name = fn.name /\ g.values = fn.values
             /\ Len(g.blocks) = Len(fn.blocks) /\ DOMAIN g.blocks = DOMAIN fn.blocks
             /\ \A b \in DOMAIN fn.blocks : Terminated(fn.blocks[b]) => Terminated(g.blocks[b])
             /\ IsTerminator(x) => Terminated(g.blocks[blk + 1])
             /\ \A v \in Nat : Slot(fn, v) /\ (x.output # v \/ ~Computes(x)) => Slot(g, v)
  OBVIOUS
<1>1. /\ g \in FunctionRecord /\ g.name = fn.name /\ g.values = fn.values
      /\ Len(g.blocks) = Len(fn.blocks) /\ DOMAIN g.blocks = DOMAIN fn.blocks
      /\ \A b \in DOMAIN fn.blocks :
           /\ g.blocks[b].id = fn.blocks[b].id
           /\ b # blk + 1 => g.blocks[b] = fn.blocks[b]
      /\ DOMAIN g.blocks[blk + 1].instrs = 1 .. n
      /\ InstrAt(g, blk + 1, n) = x
      /\ \A i \in DOMAIN fn.blocks[blk + 1].instrs :
           InstrAt(g, blk + 1, i) = InstrAt(fn, blk + 1, i)
  BY EmitPlaces
<1>2. /\ FnSound(fn) /\ n \in Nat \ {0} /\ DOMAIN fn.blocks[blk + 1].instrs = 1 .. (n - 1)
      /\ blk + 1 \in DOMAIN fn.blocks
  BY FnParts DEF Growing
<1> HIDE DEF g, n
<1>3. ASSUME NEW b \in DOMAIN g.blocks, NEW i \in DOMAIN g.blocks[b].instrs
      PROVE  \/ b = blk + 1 /\ i = n /\ InstrAt(g, b, i) = x
             \/ /\ i \in DOMAIN fn.blocks[b].instrs /\ InstrAt(g, b, i) = InstrAt(fn, b, i)
                /\ ~(b = blk + 1 /\ i = n)
  <2>1. CASE b = blk + 1
    <3>1. i = n \/ i \in 1 .. (n - 1)
      BY <2>1, <1>1, <1>2
    <3>2. n \notin 1 .. (n - 1)
      BY <1>2
    <3> QED BY <3>1, <3>2, <2>1, <1>1, <1>2
  <2>2. CASE b # blk + 1
    BY <2>2, <1>1 DEF InstrAt
  <2> QED BY <2>1, <2>2
<1>4. \A y : InstrSound(fn, y) => InstrSound(g, y)
  BY <1>1 DEF InstrSound
<1>5. InstrsSound(g)
  BY <1>1, <1>2, <1>3, <1>4 DEF InstrsSound, FnSound
<1>6. WritesOnce(g)
  <2> SUFFICES ASSUME NEW b \in DOMAIN g.blocks, NEW c \in DOMAIN g.blocks,
                      NEW i \in DOMAIN g.blocks[b].instrs, NEW j \in DOMAIN g.blocks[c].instrs,
                      Computes(InstrAt(g, b, i)), InstrAt(g, c, j).output = InstrAt(g, b, i).output
               PROVE  b = c /\ i = j
    BY DEF WritesOnce
  <2>1. CASE InstrAt(g, b, i) = x /\ b = blk + 1 /\ i = n
    <3>1. Unwritten(fn, x.output) /\ InstrAt(g, c, j).output = x.output
      BY <2>1
    <3>2. ~(j \in DOMAIN fn.blocks[c].instrs /\ InstrAt(g, c, j) = InstrAt(fn, c, j))
      BY <3>1, <1>1 DEF Unwritten
    <3> QED BY <2>1, <3>2, <1>3
  <2>2. CASE i \in DOMAIN fn.blocks[b].instrs /\ InstrAt(g, b, i) = InstrAt(fn, b, i)
    <3>1. CASE InstrAt(g, c, j) = x
      BY <2>2, <3>1, <1>1 DEF NotComputed, Computes
    <3>2. CASE j \in DOMAIN fn.blocks[c].instrs /\ InstrAt(g, c, j) = InstrAt(fn, c, j)
      BY <2>2, <3>2, <1>1, <1>2 DEF FnSound, WritesOnce
    <3> QED BY <3>1, <3>2, <1>3
  <2> QED BY <2>1, <2>2, <1>3
<1>7. IdsCount(g)
  BY <1>1, <1>2 DEF IdsCount, FnSound
<1>8. Growing(g)
  BY <1>1, <1>2, <1>5, <1>6, <1>7 DEF Growing, FnSound, FunctionRecord, Block, Values
<1>9. ASSUME NEW b \in DOMAIN fn.blocks, Terminated(fn.blocks[b]) PROVE Terminated(g.blocks[b])
  <2>1. CASE b # blk + 1
    BY <2>1, <1>1, <1>9
  <2>2. CASE b = blk + 1
    <3>1. PICK i \in DOMAIN fn.blocks[b].instrs : IsTerminator(fn.blocks[b].instrs[i])
      BY <1>9 DEF Terminated
    <3>2. i \in DOMAIN g.blocks[b].instrs /\ g.blocks[b].instrs[i] = fn.blocks[b].instrs[i]
      BY <2>2, <1>1, <1>2 DEF InstrAt
    <3> QED BY <3>1, <3>2 DEF Terminated
  <2> QED BY <2>1, <2>2
<1>10. IsTerminator(x) => Terminated(g.blocks[blk + 1])
  <2> DEFINE last == Len(fn.blocks[blk + 1].instrs) + 1
  <2>1. last \in DOMAIN g.blocks[blk + 1].instrs /\ g.blocks[blk + 1].instrs[last] = x
    BY <1>1, <1>2 DEF InstrAt
  <2> QED BY <2>1 DEF Terminated
<1>11. ASSUME NEW v \in Nat, Slot(fn, v), x.output # v \/ ~Computes(x) PROVE Slot(g, v)
  <2>1. NotComputed(g, v)
    BY <1>1, <1>3, <1>11 DEF Slot, NotComputed
  <2> QED BY <2>1, <1>1, <1>11 DEF Slot
<1> QED BY <1>1, <1>8, <1>9, <1>10, <1>11

\* An expression's node produces a value: allocated, and written by one new
\* instruction.
LEMMA ProduceKeeps ==
  ASSUME NEW fn, Growing(fn), NEW blk \in 0 .. Len(fn.blocks) - 1,
         NEW c \in Values, NEW x \in Instr,
         x.output = Len(fn.values), Below(x.inputs, Len(fn.values)), Straight(x), Constant(c, x)
  PROVE  /\ Growing(Emit(AllocValue(fn, c), blk, x)) /\ Kept(fn, Emit(AllocValue(fn, c), blk, x))
         /\ Len(Emit(AllocValue(fn, c), blk, x).blocks) = Len(fn.blocks)
         /\ Len(Emit(AllocValue(fn, c), blk, x).values) = Len(fn.values) + 1
         /\ c = None /\ ~Computes(x) => Slot(Emit(AllocValue(fn, c), blk, x), Len(fn.values))
<1> DEFINE a == AllocValue(fn, c)
           g == Emit(a, blk, x)
           out == Len(fn.values)
<1> SUFFICES /\ Growing(g) /\ Kept(fn, g)
             /\ Len(g.blocks) = Len(fn.blocks) /\ Len(g.values) = Len(fn.values) + 1
             /\ c = None /\ ~Computes(x) => Slot(g, out)
  OBVIOUS
<1>1. /\ Growing(a) /\ Kept(fn, a) /\ a.blocks = fn.blocks /\ Len(a.values) = out + 1
      /\ a.values[out + 1] = c
  BY AllocValueKeeps
<1>2. FnSound(fn) /\ Len(fn.values) \in Nat /\ Len(fn.blocks) \in Nat /\ DOMAIN fn.blocks = 1 .. Len(fn.blocks)
  BY FnParts DEF Growing
<1> HIDE DEF a
<1>3. Unwritten(a, out)
  <2> SUFFICES ASSUME NEW b \in DOMAIN fn.blocks, NEW i \in DOMAIN fn.blocks[b].instrs
               PROVE  InstrAt(fn, b, i).output # out
    BY <1>1 DEF Unwritten, InstrAt
  <2>1. InstrSound(fn, InstrAt(fn, b, i))
    BY <1>2, FnParts
  <2> QED BY <2>1, <1>2, NoneAssumption DEF InstrSound
<1>4. NotComputed(a, out)
  BY <1>3 DEF NotComputed, Unwritten
<1>5. InstrSound(a, x)
  <2>1. \A k \in DOMAIN x.inputs : x.inputs[k] \in Nat
    BY InstrParts
  <2>2. x.inputs \in Seq(Nat)
    BY InstrParts
  <2>3. \A k \in DOMAIN x.inputs : x.inputs[k] < Len(a.values)
    BY <2>1, <1>1, <1>2 DEF Below
  <2>4. x.output < Len(a.values)
    BY <1>1, <1>2
  <2> QED BY <2>3, <2>4, <1>1 DEF InstrSound, Constant, Straight
<1>6. /\ Growing(g) /\ g.name = a.name /\ g.values = a.values
      /\ Len(g.blocks) = Len(a.blocks)
      /\ \A b \in DOMAIN a.blocks : Terminated(a.blocks[b]) => Terminated(g.blocks[b])
      /\ \A v \in Nat : Slot(a, v) /\ (x.output # v \/ ~Computes(x)) => Slot(g, v)
  BY <1>1, <1>3, <1>4, <1>5, EmitKeeps
<1> HIDE DEF g
<1>7. \A v \in Nat : Slot(fn, v) => Slot(g, v)
  BY <1>1, <1>2, <1>6 DEF Kept, Slot
<1>8. c = None /\ ~Computes(x) => Slot(g, out)
  BY <1>1, <1>2, <1>4, <1>6 DEF Slot
<1> QED BY <1>1, <1>2, <1>6, <1>7, <1>8 DEF Kept

(***************************************************************************)
(* Expressions and conditions.                                             *)
(***************************************************************************)
\* The instructions the lowering makes.
LEMMA Instructions ==
  ASSUME NEW out \in Nat, NEW l \in Nat, NEW r \in Nat
  PROVE  /\ \A c \in RegValue :
              LET x == MkConst(out, c)
              IN  /\ x \in Instr /\ x.output = out /\ x.inputs = <<>> /\ Straight(x)
                  /\ x.op = "Const" /\ x.constVal = c
         /\ \A op \in UnaryOp \cup {"Copy"} :
              LET x == MkUnary(op, out, l)
              IN  /\ x \in Instr /\ x.output = out /\ x.inputs = <<l>> /\ Straight(x)
                  /\ x.op = op
         /\ \A op \in BinaryOp :
              LET x == MkBinary(op, out, l, r)
              IN  x \in Instr /\ x.output = out /\ x.inputs = <<l, r>> /\ Straight(x)
<1>0. <<>> \in Seq(Nat) /\ <<l>> \in Seq(Nat) /\ <<l, r>> \in Seq(Nat)
  OBVIOUS
<1>1. ASSUME NEW c \in RegValue
      PROVE  LET x == MkConst(out, c)
             IN  /\ x \in Instr /\ x.output = out /\ x.inputs = <<>> /\ Straight(x)
                 /\ x.op = "Const" /\ x.constVal = c
  BY <1>0 DEF MkConst, Blank, Instr, IRInstr, IROp, Optional, Targets, Straight
<1>2. ASSUME NEW op \in UnaryOp \cup {"Copy"}
      PROVE  LET x == MkUnary(op, out, l)
             IN  /\ x \in Instr /\ x.output = out /\ x.inputs = <<l>> /\ Straight(x)
                 /\ x.op = op
  BY <1>0 DEF MkUnary, Blank, Instr, IRInstr, IROp, Optional, Targets, Straight
<1>3. ASSUME NEW op \in BinaryOp
      PROVE  LET x == MkBinary(op, out, l, r)
             IN  x \in Instr /\ x.output = out /\ x.inputs = <<l, r>> /\ Straight(x)
  BY <1>0 DEF MkBinary, Blank, Instr, IRInstr, IROp, Optional, Targets, Straight
<1> QED BY <1>1, <1>2, <1>3

LEMMA Comparison ==
  ASSUME NEW kind \in CmpKind, NEW out \in Nat, NEW l \in Nat, NEW r \in Nat
  PROVE  /\ MkCmp(kind, out, l, r) \in Instr /\ MkCmp(kind, out, l, r).output = out
         /\ MkCmp(kind, out, l, r).inputs = <<l, r>> /\ Straight(MkCmp(kind, out, l, r))
<1>1. <<l, r>> \in Seq(Nat)
  OBVIOUS
<1> QED BY <1>1 DEF MkCmp, MkBinary, Blank, Instr, IRInstr, IROp, Optional, Targets, Straight

LEMMA KeptTransitive ==
  ASSUME NEW f, NEW g, NEW h, FnSound(f), FnSound(g), FnSound(h), Kept(f, g), Kept(g, h)
  PROVE  Kept(f, h)
<1>1. /\ Len(f.blocks) \in Nat /\ DOMAIN f.blocks = 1 .. Len(f.blocks) /\ Len(f.values) \in Nat
      /\ Len(g.blocks) \in Nat /\ DOMAIN g.blocks = 1 .. Len(g.blocks) /\ Len(g.values) \in Nat
      /\ Len(h.blocks) \in Nat /\ Len(h.values) \in Nat
  BY FnParts
<1> QED BY <1>1 DEF Kept

\* The state of lowerExpression.
Evaluated(s) ==
  /\ s = Node(s.fn, s.table, s.operands)
  /\ Growing(s.fn) /\ TableSound(s.fn, s.table)
  /\ s.operands \in Seq(Nat) /\ Below(s.operands, Len(s.fn.values))

Advances(s, t) ==
  /\ Kept(s.fn, t.fn) /\ Len(t.fn.blocks) = Len(s.fn.blocks)
  /\ DOMAIN s.table \subseteq DOMAIN t.table

LEMMA AdvancesTransitive ==
  ASSUME NEW s, NEW t, NEW u, Evaluated(s), Evaluated(t), Evaluated(u),
         Advances(s, t), Advances(t, u)
  PROVE  Advances(s, u)
  BY KeptTransitive DEF Advances, Evaluated, Growing

LEMMA AdvancesReflexive ==
  ASSUME NEW s, Evaluated(s)
  PROVE  Advances(s, s)
<1>1. Len(s.fn.blocks) \in Nat /\ Len(s.fn.values) \in Nat
  BY FnParts DEF Evaluated, Growing
<1> QED BY <1>1 DEF Advances, Kept

\* The table of variables stays sound while a function grows, and when a slot
\* is added.
LEMMA TableKept ==
  ASSUME NEW fn, NEW g, NEW tab, TableSound(fn, tab), Kept(fn, g)
  PROVE  TableSound(g, tab)
<1> SUFFICES ASSUME NEW n \in DOMAIN tab PROVE Slot(g, tab[n])
  BY DEF TableSound
<1>1. Slot(fn, tab[n]) /\ tab[n] \in Nat
  BY DEF TableSound, Slot
<1> QED BY <1>1 DEF Kept

LEMMA VariableSet ==
  ASSUME NEW fn, NEW tab, NEW v, NEW slot, TableSound(fn, tab), Slot(fn, slot)
  PROVE  /\ TableSound(fn, SetVariable(tab, v, slot))
         /\ DOMAIN tab \subseteq DOMAIN SetVariable(tab, v, slot)
         /\ v \in DOMAIN SetVariable(tab, v, slot)
  BY DEF TableSound, SetVariable

\* The operands left when a node has consumed some and produced one.
Left(operands, consumed, out) == Append(SubSeq(operands, 1, Len(operands) - consumed), out)

LEMMA OperandsLeft ==
  ASSUME NEW operands \in Seq(Nat), NEW out \in Nat, Below(operands, out),
         NEW consumed \in 0 .. Len(operands)
  PROVE  /\ Left(operands, consumed, out) \in Seq(Nat)
         /\ Len(Left(operands, consumed, out)) = Len(operands) - consumed + 1
         /\ Below(Left(operands, consumed, out), out + 1)
<1> DEFINE n == Len(operands)
           rest == SubSeq(operands, 1, n - consumed)
           left == Append(rest, out)
<1>1. n \in Nat /\ DOMAIN operands = 1 .. n /\ \A k \in 1 .. n : operands[k] \in Nat /\ operands[k] < out
  BY DEF Below
<1>2. /\ rest \in Seq(Nat) /\ Len(rest) = n - consumed
      /\ \A k \in 1 .. (n - consumed) : rest[k] = operands[k]
  <2>1. n \in Nat /\ consumed \in 0 .. n /\ n = Len(operands)
    BY <1>1
  <2> HIDE DEF n
  <2> QED BY <2>1
<1> HIDE DEF rest
<1>3. /\ left \in Seq(Nat) /\ Len(left) = n - consumed + 1
      /\ left[n - consumed + 1] = out
      /\ \A k \in 1 .. (n - consumed) : left[k] = operands[k]
  BY <1>2
<1> HIDE DEF left
<1>4. ASSUME NEW k \in DOMAIN left PROVE left[k] < out + 1
  <2>1. k \in 1 .. (n - consumed + 1)
    BY <1>3
  <2>2. CASE k = n - consumed + 1
    BY <2>2, <1>3
  <2>3. CASE k # n - consumed + 1
    <3>1. k \in 1 .. (n - consumed) /\ k \in DOMAIN operands
      BY <2>1, <2>3, <1>1
    <3>2. operands[k] < out /\ left[k] = operands[k] /\ operands[k] \in Nat
      BY <3>1, <1>1, <1>3
    <3> QED BY <3>2
  <2> QED BY <2>2, <2>3
<1> QED BY <1>3, <1>4 DEF left, rest, Left, Below

\* How many operands a node consumes and leaves.
Consumes(e) == IF e.node = "bin" THEN 2 ELSE IF e.node = "unary" THEN 1 ELSE 0

Produced(s, blk, c, x, tab, consumed) ==
  Node(Emit(AllocValue(s.fn, c), blk, x), tab, Left(s.operands, consumed, NextValue(s.fn)))

\* The table afterwards: a constant without a value becomes a variable's slot.
TableWith(s, c, x, tab) ==
  \/ tab = s.table
  \/ \E v : tab = SetVariable(s.table, v, NextValue(s.fn)) /\ c = None /\ x.op = "Const"

\* A node that produces a value.
LEMMA ProduceNode ==
  ASSUME NEW s, Evaluated(s), NEW blk \in 0 .. Len(s.fn.blocks) - 1,
         NEW consumed \in 0 .. Len(s.operands),
         NEW c \in Values, NEW x \in Instr,
         x.output = NextValue(s.fn), Below(x.inputs, Len(s.fn.values)),
         Straight(x), Constant(c, x),
         NEW tab, TableWith(s, c, x, tab)
  PROVE  /\ Evaluated(Produced(s, blk, c, x, tab, consumed))
         /\ Advances(s, Produced(s, blk, c, x, tab, consumed))
         /\ Len(Produced(s, blk, c, x, tab, consumed).operands) = Len(s.operands) - consumed + 1
<1> DEFINE out == NextValue(s.fn)
           g == Emit(AllocValue(s.fn, c), blk, x)
           left == Left(s.operands, consumed, out)
           t == Node(g, tab, left)
<1> SUFFICES Evaluated(t) /\ Advances(s, t) /\ Len(t.operands) = Len(s.operands) - consumed + 1
  BY DEF Produced
<1>1. /\ Growing(s.fn) /\ TableSound(s.fn, s.table) /\ s.operands \in Seq(Nat)
      /\ Below(s.operands, Len(s.fn.values))
      /\ out = Len(s.fn.values) /\ out \in Nat
  BY FnParts DEF Evaluated, Growing, NextValue
<1>2. /\ Growing(g) /\ Kept(s.fn, g)
      /\ Len(g.blocks) = Len(s.fn.blocks) /\ Len(g.values) = out + 1
      /\ c = None /\ ~Computes(x) => Slot(g, out)
  BY <1>1, ProduceKeeps
<1>3. left \in Seq(Nat) /\ Len(left) = Len(s.operands) - consumed + 1 /\ Below(left, out + 1)
  BY <1>1, OperandsLeft
<1> HIDE DEF g, left
<1>4. TableSound(g, s.table)
  BY <1>1, <1>2, TableKept
<1>5. TableSound(g, tab) /\ DOMAIN s.table \subseteq DOMAIN tab
  <2>1. CASE tab = s.table
    BY <2>1, <1>4
  <2>2. CASE \E v : tab = SetVariable(s.table, v, out) /\ c = None /\ x.op = "Const"
    <3>1. Slot(g, out)
      BY <2>2, <1>2 DEF Computes
    <3> HIDE DEF out
    <3>2. PICK v : tab = SetVariable(s.table, v, out)
      BY <2>2
    <3> QED BY <3>1, <3>2, <1>4, VariableSet
  <2> QED BY <2>1, <2>2 DEF TableWith
<1>6. t.fn = g /\ t.table = tab /\ t.operands = left
  BY DEF Node
<1> HIDE DEF t
<1>7. t = Node(t.fn, t.table, t.operands)
  BY <1>6 DEF t
<1> QED BY <1>2, <1>3, <1>5, <1>6, <1>7 DEF Evaluated, Advances

LEMMA LowerNodeKeeps ==
  ASSUME NEW s, Evaluated(s), NEW blk \in 0 .. Len(s.fn.blocks) - 1,
         NEW e, IsNode(e), Consumes(e) <= Len(s.operands)
  PROVE  /\ Evaluated(LowerNode(s, blk, e)) /\ Advances(s, LowerNode(s, blk, e))
         /\ Len(LowerNode(s, blk, e).operands) = Len(s.operands) - Consumes(e) + 1
<1> DEFINE t == LowerNode(s, blk, e)
           out == NextValue(s.fn)
           n == Len(s.operands)
           Good == Evaluated(t) /\ Advances(s, t) /\ Len(t.operands) = n - Consumes(e) + 1
<1> SUFFICES Good
  OBVIOUS
<1>0. None \in Values
  BY DEF Values, Optional
<1>1. /\ s = Node(s.fn, s.table, s.operands) /\ TableSound(s.fn, s.table)
      /\ Growing(s.fn) /\ s.operands \in Seq(Nat) /\ n \in Nat /\ DOMAIN s.operands = 1 .. n
      /\ \A k \in 1 .. n : s.operands[k] \in Nat /\ s.operands[k] < Len(s.fn.values)
      /\ out = Len(s.fn.values) /\ out \in Nat
  BY FnParts DEF Evaluated, Growing, NextValue, Below
<1>2. CASE e.node = "const" /\ e.value \in RegValue
  <2> DEFINE x == MkConst(out, e.value)
  <2>1. /\ x \in Instr /\ x.output = out /\ x.inputs = <<>> /\ Straight(x)
        /\ x.op = "Const" /\ x.constVal = e.value
    BY <1>1, <1>2, Instructions
  <2>2. t = Produced(s, blk, e.value, x, s.table, 0)
    BY <1>2 DEF LowerNode, Produced, Left
  <2>3. e.value \in Values /\ 0 \in 0 .. n /\ Consumes(e) = 0
    BY <1>1, <1>2 DEF Values, Optional, Consumes
  <2>4. Below(x.inputs, Len(s.fn.values)) /\ Constant(e.value, x) /\ TableWith(s, e.value, x, s.table)
    BY <2>1 DEF Below, Constant, TableWith
  <2> HIDE DEF x, t
  <2>5. Evaluated(t) /\ Advances(s, t) /\ Len(t.operands) = n - 0 + 1
    BY <2>1, <2>2, <2>3, <2>4, ProduceNode
  <2> QED BY <2>3, <2>5, <1>1
<1>3. CASE e.node = "var" /\ e.variable.init \in RegValue /\ e.variable.name \notin DOMAIN s.table
  <2> DEFINE x == MkConst(out, e.variable.init)
             tab == SetVariable(s.table, e.variable.name, out)
  <2>1. /\ x \in Instr /\ x.output = out /\ x.inputs = <<>> /\ Straight(x)
        /\ x.op = "Const"
    BY <1>1, <1>3, Instructions
  <2>2. t = Produced(s, blk, None, x, tab, 0)
    BY <1>3 DEF LowerNode, Produced, Left
  <2>3. 0 \in 0 .. n /\ Consumes(e) = 0
    BY <1>1, <1>3 DEF Consumes
  <2>4. Below(x.inputs, Len(s.fn.values)) /\ Constant(None, x)
    BY <2>1 DEF Below, Constant
  <2>5. TableWith(s, None, x, tab)
    BY <2>1 DEF TableWith
  <2> HIDE DEF x, t, tab
  <2>6. Evaluated(t) /\ Advances(s, t) /\ Len(t.operands) = n - 0 + 1
    BY <1>0, <2>1, <2>2, <2>3, <2>4, <2>5, ProduceNode
  <2> QED BY <2>3, <2>6, <1>1
<1>4. CASE e.node = "var" /\ e.variable.name \in DOMAIN s.table
  <2> DEFINE slot == s.table[e.variable.name]
  <2>1. t = [s EXCEPT !.operands = Append(@, slot)]
    BY <1>4 DEF LowerNode
  <2>2. slot \in Nat /\ slot < Len(s.fn.values)
    BY <1>1, <1>4 DEF TableSound, Slot
  <2>3. Consumes(e) = 0
    BY <1>4 DEF Consumes
  <2> HIDE DEF t, slot, n
  <2>4. t.fn = s.fn /\ t.table = s.table /\ t.operands = Append(s.operands, slot)
    BY <2>1, <1>1 DEF Node
  <2>5. t = Node(t.fn, t.table, t.operands)
    BY <2>1, <2>4, <1>1 DEF Node
  <2>6. t.operands \in Seq(Nat) /\ Len(t.operands) = n + 1 /\ Below(t.operands, Len(t.fn.values))
    BY <1>1, <2>2, <2>4 DEF n, Below
  <2>7. Evaluated(t)
    BY <1>1, <2>4, <2>5, <2>6 DEF Evaluated
  <2>8. Advances(s, t)
    BY <2>4, AdvancesReflexive DEF Advances
  <2> QED BY <1>1, <2>3, <2>6, <2>7, <2>8
<1>5. CASE e.node = "bin" /\ e.op \in BinaryOp
  <2> DEFINE l == s.operands[n - 1]
             r == s.operands[n]
             x == MkBinary(e.op, out, l, r)
  <2>0. /\ Consumes(e) = 2 /\ 2 \in 0 .. n
        /\ l \in Nat /\ r \in Nat /\ l < Len(s.fn.values) /\ r < Len(s.fn.values)
    BY <1>1, <1>5, SMTT(30) DEF Consumes
  <2>1. t = Produced(s, blk, None, x, s.table, 2)
    BY <1>5 DEF LowerNode, Produced, Left
  <2> HIDE DEF l, r
  <2>2. /\ x \in Instr /\ x.output = out /\ x.inputs = <<l, r>> /\ Straight(x)
    BY <1>1, <1>5, <2>0, Instructions
  <2>3. Below(x.inputs, Len(s.fn.values)) /\ Constant(None, x) /\ TableWith(s, None, x, s.table)
    BY <2>0, <2>2 DEF Below, Constant, TableWith
  <2> HIDE DEF x, t
  <2>4. Evaluated(t) /\ Advances(s, t) /\ Len(t.operands) = n - 2 + 1
    BY <1>0, <2>0, <2>1, <2>2, <2>3, ProduceNode
  <2> QED BY <2>0, <2>4, <1>1
<1>6. CASE e.node = "unary"
  <2> DEFINE op == IF e.op = "Neg" THEN "Neg" ELSE "Not"
             v == s.operands[n]
             x == MkUnary(op, out, v)
  <2>0. /\ Consumes(e) = 1 /\ 1 \in 0 .. n /\ op \in UnaryOp \cup {"Copy"}
        /\ v \in Nat /\ v < Len(s.fn.values)
    BY <1>1, <1>6 DEF Consumes, UnaryOp
  <2>1. t = Produced(s, blk, None, x, s.table, 1)
    BY <1>6 DEF LowerNode, Produced, Left
  <2> HIDE DEF op, v
  <2>2. /\ x \in Instr /\ x.output = out /\ x.inputs = <<v>> /\ Straight(x)
    BY <1>1, <2>0, Instructions
  <2>3. Below(x.inputs, Len(s.fn.values)) /\ Constant(None, x) /\ TableWith(s, None, x, s.table)
    BY <2>0, <2>2 DEF Below, Constant, TableWith
  <2> HIDE DEF x, t
  <2>4. Evaluated(t) /\ Advances(s, t) /\ Len(t.operands) = n - 1 + 1
    BY <1>0, <2>0, <2>1, <2>2, <2>3, ProduceNode
  <2> QED BY <2>0, <2>4, <1>1
<1> HIDE DEF Good
<1> QED BY <1>2, <1>3, <1>4, <1>5, <1>6 DEF IsNode

\* The least-number principle, for sets.
LEMMA LeastElement ==
  ASSUME NEW T \in SUBSET Nat, T # {}
  PROVE  \E x \in T : \A y \in T : x <= y
<1> DEFINE R == {ss \in Nat \X Nat : ss[1] < ss[2]}
<1>1. IsWellFoundedOn(R, Nat)
  BY NatLessThanWellFounded, Zenon DEF OpToRel
<1>2. PICK x \in T : \A y \in T : <<y, x>> \notin R
  BY <1>1, WFMin
<1>3. \A y \in T : <<y, x>> \notin R => x <= y
  OBVIOUS
<1> QED BY <1>2, <1>3

\* The loop over the nodes of an expression is a function of how many were
\* lowered.
Lowered(s, blk, nodes, after, m) ==
  after = [n \in 0 .. m |-> IF n = 0 THEN s ELSE LowerNode(after[n - 1], blk, nodes[n])]

LEMMA LoweredExists ==
  ASSUME NEW s, NEW blk, NEW nodes, NEW m \in Nat
  PROVE  \E after : Lowered(s, blk, nodes, after, m)
<1> DEFINE Has(k) == \E after : Lowered(s, blk, nodes, after, k)
           Lacking == {k \in Nat : ~Has(k)}
<1>1. Has(0)
  <2> DEFINE f == [n \in 0 .. 0 |-> s]
  <2>1. f = [n \in 0 .. 0 |-> IF n = 0 THEN s ELSE LowerNode(f[n - 1], blk, nodes[n])]
    OBVIOUS
  <2> HIDE DEF f
  <2> QED BY <2>1 DEF Lowered
<1>2. ASSUME NEW k \in Nat \ {0}, Has(k - 1) PROVE Has(k)
  <2>1. PICK g : Lowered(s, blk, nodes, g, k - 1)
    BY <1>2
  <2> DEFINE h == [n \in 0 .. k |-> IF n = k THEN LowerNode(g[k - 1], blk, nodes[k]) ELSE g[n]]
  <2>2. ASSUME NEW n \in 0 .. k
        PROVE  h[n] = IF n = 0 THEN s ELSE LowerNode(h[n - 1], blk, nodes[n])
    <3>1. CASE n = k
      <4>1. k - 1 \in 0 .. k /\ k - 1 # k
        OBVIOUS
      <4>2. h[k - 1] = g[k - 1]
        BY <4>1
      <4>3. h[n] = LowerNode(g[k - 1], blk, nodes[k])
        BY <3>1
      <4> QED BY <4>2, <4>3, <3>1
    <3>2. CASE n # k
      <4>1. n \in 0 .. (k - 1) /\ h[n] = g[n]
        BY <3>2
      <4> HIDE DEF h
      <4>2. g[n] = IF n = 0 THEN s ELSE LowerNode(g[n - 1], blk, nodes[n])
        BY <2>1, <4>1 DEF Lowered
      <4>3. n # 0 => h[n - 1] = g[n - 1]
        BY <3>2 DEF h
      <4> QED BY <4>1, <4>2, <4>3
    <3> QED BY <3>1, <3>2
  <2>3. h = [n \in 0 .. k |-> h[n]]
    OBVIOUS
  <2> HIDE DEF h
  <2>4. h = [n \in 0 .. k |-> IF n = 0 THEN s ELSE LowerNode(h[n - 1], blk, nodes[n])]
    BY <2>2, <2>3
  <2> QED BY <2>4 DEF Lowered
<1> HIDE DEF Has
<1>3. CASE Lacking = {}
  BY <1>3 DEF Has
<1>4. CASE Lacking # {}
  <2>1. PICK k \in Lacking : \A j \in Lacking : k <= j
    BY <1>4, LeastElement
  <2>2. k \in Nat /\ ~Has(k) /\ k # 0
    BY <1>1, <2>1
  <2>3. k - 1 \notin Lacking
    BY <2>1, <2>2
  <2> QED BY <1>2, <2>2, <2>3
<1> QED BY <1>3, <1>4

Steps(s, blk, nodes, after) ==
  /\ LowerExpression(s, blk, nodes) = after[Len(nodes)] /\ after[0] = s
  /\ \A n \in 1 .. Len(nodes) : after[n] = LowerNode(after[n - 1], blk, nodes[n])

LEMMA LowerExpressionSteps ==
  ASSUME NEW s, NEW blk, NEW nodes, Len(nodes) \in Nat
  PROVE  \E after : Steps(s, blk, nodes, after)
<1> DEFINE m == Len(nodes)
           it == CHOOSE g : g = [n \in 0 .. m |-> IF n = 0 THEN s ELSE LowerNode(g[n - 1], blk, nodes[n])]
<1>1. LowerExpression(s, blk, nodes) = it[m]
  BY DEF LowerExpression
<1>2. it = CHOOSE g : Lowered(s, blk, nodes, g, m)
  BY DEF Lowered
<1> HIDE DEF it, m
<1>3. m \in Nat
  BY DEF m
<1>4. Lowered(s, blk, nodes, it, m)
  BY <1>2, <1>3, LoweredExists
<1>5. it[0] = s /\ \A n \in 1 .. m : it[n] = LowerNode(it[n - 1], blk, nodes[n])
  BY <1>3, <1>4 DEF Lowered
<1> QED BY <1>1, <1>5 DEF m, Steps

\* The nodes of some kinds among the first k.
NodesOf(nodes, kinds, k) == {j \in 1 .. k : nodes[j].node \in kinds}

LEMMA CountStep ==
  ASSUME NEW nodes, NEW kinds, NEW n \in Nat \ {0}
  PROVE  /\ Cardinality(NodesOf(nodes, kinds, n - 1)) \in Nat
         /\ Cardinality(NodesOf(nodes, kinds, n)) =
              Cardinality(NodesOf(nodes, kinds, n - 1)) + IF nodes[n].node \in kinds THEN 1 ELSE 0
<1> DEFINE S(k) == NodesOf(nodes, kinds, k)
<1>1. ASSUME NEW k \in Nat PROVE IsFiniteSet(S(k)) /\ Cardinality(S(k)) \in Nat
  <2>1. IsFiniteSet(1 .. k) /\ S(k) \subseteq 1 .. k
    BY FS_Interval DEF NodesOf
  <2> HIDE DEF S
  <2>2. IsFiniteSet(S(k))
    BY <2>1, FS_Subset
  <2> QED BY <2>2, FS_CardinalityType
<1>2. n - 1 \in Nat /\ n \in Nat
  OBVIOUS
<1>3. CASE nodes[n].node \in kinds
  <2>1. S(n) = S(n - 1) \cup {n} /\ n \notin S(n - 1)
    BY <1>3 DEF NodesOf
  <2> HIDE DEF S
  <2>2. Cardinality(S(n)) = Cardinality(S(n - 1)) + 1
    BY <1>1, <1>2, <2>1, FS_AddElement
  <2> QED BY <1>1, <1>2, <1>3, <2>2 DEF S
<1>4. CASE nodes[n].node \notin kinds
  <2>1. S(n) = S(n - 1)
    BY <1>4 DEF NodesOf
  <2> HIDE DEF S
  <2>2. Cardinality(S(n)) = Cardinality(S(n - 1)) + 0 /\ Cardinality(S(n - 1)) \in Nat
    BY <1>1, <1>2, <2>1
  <2> QED BY <1>4, <2>2 DEF S
<1> QED BY <1>3, <1>4

\* The operands counted by the last node lowered.
LEMMA OperandsStep ==
  ASSUME NEW nodes, NEW n \in Nat \ {0}, IsNode(nodes[n])
  PROVE  /\ Operands(nodes, n) = Operands(nodes, n - 1) - Consumes(nodes[n]) + 1
         /\ Operands(nodes, n - 1) \in Int
<1> DEFINE l(k) == Cardinality(NodesOf(nodes, {"const", "var"}, k))
           b(k) == Cardinality(NodesOf(nodes, {"bin"}, k))
<1>1. l(n - 1) \in Nat /\ l(n) = l(n - 1) + IF nodes[n].node \in {"const", "var"} THEN 1 ELSE 0
  BY CountStep
<1>2. b(n - 1) \in Nat /\ b(n) = b(n - 1) + IF nodes[n].node \in {"bin"} THEN 1 ELSE 0
  BY CountStep
<1>3. ASSUME NEW k PROVE Operands(nodes, k) = l(k) - b(k)
  <2>1. {j \in 1 .. k : nodes[j].node = "bin"} = NodesOf(nodes, {"bin"}, k)
    BY DEF NodesOf
  <2> QED BY <2>1 DEF Operands, NodesOf
<1> HIDE DEF l, b
<1> QED BY <1>1, <1>2, <1>3 DEF IsNode, Consumes

LEMMA NoOperands ==
  ASSUME NEW nodes
  PROVE  Operands(nodes, 0) = 0
<1>1. {k \in 1 .. 0 : nodes[k].node \in {"const", "var"}} = {} /\ {k \in 1 .. 0 : nodes[k].node = "bin"} = {}
  OBVIOUS
<1> QED BY <1>1, FS_EmptySet DEF Operands

\* An expression's trees leave an operand each.
LEMMA LowerExpressionKeeps ==
  ASSUME NEW s, Evaluated(s), s.operands = <<>>, NEW blk \in 0 .. Len(s.fn.blocks) - 1,
         NEW nodes, NEW trees, IsForest(nodes, trees)
  PROVE  /\ Evaluated(LowerExpression(s, blk, nodes)) /\ Advances(s, LowerExpression(s, blk, nodes))
         /\ Len(LowerExpression(s, blk, nodes).operands) = trees
<1> DEFINE m == Len(nodes)
<1>1. m \in Nat /\ DOMAIN nodes = 1 .. m /\ Operands(nodes, m) = trees
  BY DEF IsForest
<1>2. \A n \in 1 .. m : IsNode(nodes[n]) /\ Operands(nodes, n) >= 1
  BY <1>1 DEF IsForest
<1>3. PICK after : Steps(s, blk, nodes, after)
  BY <1>1, LowerExpressionSteps
<1> HIDE DEF m
<1> DEFINE Good(n) == /\ Evaluated(after[n]) /\ Advances(s, after[n])
                      /\ Len(after[n].operands) = Operands(nodes, n)
           Bad == {n \in 0 .. m : ~Good(n)}
<1>4. Good(0)
  BY <1>3, NoOperands, AdvancesReflexive DEF Steps
<1>5. ASSUME NEW n \in 1 .. m, Good(n - 1) PROVE Good(n)
  <2> DEFINE prev == after[n - 1]
             e == nodes[n]
  <2>1. Evaluated(prev) /\ Advances(s, prev) /\ Len(prev.operands) = Operands(nodes, n - 1)
    BY <1>5
  <2>2. n \in Nat \ {0} /\ IsNode(e) /\ Operands(nodes, n) >= 1
    BY <1>1, <1>2
  <2>3. /\ Operands(nodes, n) = Operands(nodes, n - 1) - Consumes(e) + 1
        /\ Operands(nodes, n - 1) \in Int
    BY <2>2, OperandsStep
  <2>4. after[n] = LowerNode(prev, blk, e)
    BY <1>3 DEF Steps, m
  <2>5. blk \in 0 .. Len(prev.fn.blocks) - 1
    BY <2>1 DEF Advances
  <2> HIDE DEF prev, e
  <2>6. Consumes(e) <= Len(prev.operands) /\ Consumes(e) \in Nat
    BY <2>1, <2>2, <2>3 DEF Consumes
  <2>7. /\ Evaluated(after[n]) /\ Advances(prev, after[n])
        /\ Len(after[n].operands) = Len(prev.operands) - Consumes(e) + 1
    BY <2>1, <2>2, <2>4, <2>5, <2>6, LowerNodeKeeps
  <2>8. Advances(s, after[n])
    BY <2>1, <2>7, AdvancesTransitive
  <2> QED BY <2>1, <2>3, <2>7, <2>8
<1> HIDE DEF Good
<1>6. CASE Bad = {}
  <2>1. Good(m)
    BY <1>1, <1>6
  <2> QED BY <2>1, <1>1, <1>3 DEF Good, Steps, m
<1>7. CASE Bad # {}
  <2>1. Bad \in SUBSET Nat
    OBVIOUS
  <2>2. PICK n \in Bad : \A k \in Bad : n <= k
    BY <1>7, <2>1, LeastElement
  <2>3. n \in 1 .. m /\ ~Good(n)
    BY <1>4, <2>2
  <2>4. n - 1 \in 0 .. m /\ n - 1 \notin Bad
    BY <1>1, <2>2, <2>3
  <2> QED BY <1>5, <2>3, <2>4
<1> QED BY <1>6, <1>7

\* The value of a single expression.
LEMMA ResultIsValue ==
  ASSUME NEW s, Evaluated(s), Len(s.operands) = 1
  PROVE  Result(s) \in Nat /\ Result(s) < Len(s.fn.values)
  BY DEF Evaluated, Result, Below

\* Where lowering an expression begins.
LEMMA StartOfExpression ==
  ASSUME NEW fn, NEW tab, Growing(fn), TableSound(fn, tab)
  PROVE  LET s == Node(fn, tab, <<>>)
         IN  Evaluated(s) /\ s.fn = fn /\ s.table = tab /\ s.operands = <<>>
  BY DEF Evaluated, Node, Below

\* What emitting an instruction without an output keeps.
LEMMA EmitSilent ==
  ASSUME NEW fn, Growing(fn), NEW blk \in 0 .. Len(fn.blocks) - 1, NEW x \in Instr,
         InstrSound(fn, x), x.output = None
  PROVE  /\ Growing(Emit(fn, blk, x)) /\ Kept(fn, Emit(fn, blk, x))
         /\ Len(Emit(fn, blk, x).blocks) = Len(fn.blocks)
         /\ Emit(fn, blk, x).values = fn.values
         /\ IsTerminator(x) => Terminated(Emit(fn, blk, x).blocks[blk + 1])
<1> DEFINE g == Emit(fn, blk, x)
<1>1. ~Computes(x)
  BY DEF Computes
<1>2. /\ Growing(g) /\ g.name = fn.name /\ g.values = fn.values
      /\ Len(g.blocks) = Len(fn.blocks) /\ DOMAIN g.blocks = DOMAIN fn.blocks
      /\ \A b \in DOMAIN fn.blocks : Terminated(fn.blocks[b]) => Terminated(g.blocks[b])
      /\ IsTerminator(x) => Terminated(g.blocks[blk + 1])
      /\ \A v \in Nat : Slot(fn, v) /\ (x.output # v \/ ~Computes(x)) => Slot(g, v)
  BY <1>1, EmitKeeps
<1>3. Len(fn.blocks) \in Nat /\ Len(fn.values) \in Nat
  BY FnParts DEF Growing
<1> HIDE DEF g
<1>4. Kept(fn, g)
  BY <1>1, <1>2, <1>3 DEF Kept
<1> QED BY <1>2, <1>4 DEF g

\* What lowering something, on behalf of a statement, keeps.
Grows(fn, tab, g, tab2) ==
  /\ Growing(g) /\ Kept(fn, g) /\ Len(g.blocks) = Len(fn.blocks)
  /\ TableSound(g, tab2) /\ DOMAIN tab \subseteq DOMAIN tab2

LEMMA GrowsTransitive ==
  ASSUME NEW f, NEW g, NEW h, NEW t, NEW u, NEW v, Growing(f), Grows(f, t, g, u), Grows(g, u, h, v)
  PROVE  Grows(f, t, h, v)
  BY KeptTransitive DEF Grows, Growing

\* An expression lowered from the start.
LEMMA ExpressionGrows ==
  ASSUME NEW fn, NEW tab, Growing(fn), TableSound(fn, tab),
         NEW blk \in 0 .. Len(fn.blocks) - 1, NEW nodes, NEW trees, IsForest(nodes, trees)
  PROVE  LET t == LowerExpression(Node(fn, tab, <<>>), blk, nodes)
         IN  /\ Evaluated(t) /\ Len(t.operands) = trees
             /\ Grows(fn, tab, t.fn, t.table)
<1> DEFINE s == Node(fn, tab, <<>>)
           t == LowerExpression(s, blk, nodes)
<1>1. Evaluated(s) /\ s.fn = fn /\ s.table = tab /\ s.operands = <<>>
  BY StartOfExpression
<1> HIDE DEF s
<1>2. Evaluated(t) /\ Advances(s, t) /\ Len(t.operands) = trees
  BY <1>1, LowerExpressionKeeps
<1> HIDE DEF t
<1>3. Grows(fn, tab, t.fn, t.table)
  BY <1>1, <1>2 DEF Advances, Evaluated, Grows
<1> QED BY <1>2, <1>3 DEF t, s

LEMMA ConditionGrows ==
  ASSUME NEW fn, NEW tab, Growing(fn), TableSound(fn, tab),
         NEW blk \in 0 .. Len(fn.blocks) - 1, NEW cond, IsCondition(cond),
         NEW then \in 0 .. Len(fn.blocks) - 1, NEW else \in 0 .. Len(fn.blocks) - 1
  PROVE  LET t == LowerCondition(fn, tab, blk, cond, then, else)
         IN  /\ Grows(fn, tab, t.fn, t.table)
             /\ Terminated(t.fn.blocks[blk + 1])
<1> DEFINE left  == LowerExpression(Node(fn, tab, <<>>), blk, cond.left)
           right == LowerExpression(Node(left.fn, left.table, <<>>), blk, cond.right)
           out   == NextValue(right.fn)
           cmp   == MkCmp(cond.kind, out, Result(left), Result(right))
           g     == Emit(AllocValue(right.fn, None), blk, cmp)
           br    == MkBrTrue(out, then, else)
           h     == Emit(g, blk, br)
           t     == LowerCondition(fn, tab, blk, cond, then, else)
<1> SUFFICES Grows(fn, tab, t.fn, t.table) /\ Terminated(t.fn.blocks[blk + 1])
  OBVIOUS
<1>1. t.fn = h /\ t.table = right.table
  BY DEF LowerCondition, Node
<1>2. IsForest(cond.left, 1) /\ IsForest(cond.right, 1) /\ cond.kind \in CmpKind
  BY DEF IsCondition, IsExpression
<1> HIDE DEF t
<1>3. Evaluated(left) /\ Len(left.operands) = 1 /\ Grows(fn, tab, left.fn, left.table)
  BY <1>2, ExpressionGrows
<1> HIDE DEF left
<1>4. /\ Evaluated(right) /\ Len(right.operands) = 1
      /\ Grows(left.fn, left.table, right.fn, right.table)
  <2>1. Growing(left.fn) /\ TableSound(left.fn, left.table) /\ blk \in 0 .. Len(left.fn.blocks) - 1
    BY <1>3 DEF Grows
  <2> QED BY <1>2, <2>1, ExpressionGrows
<1> HIDE DEF right
<1>5. Grows(fn, tab, right.fn, right.table)
  BY <1>3, <1>4, GrowsTransitive
<1>6. /\ Growing(right.fn) /\ TableSound(right.fn, right.table) /\ Len(right.fn.blocks) = Len(fn.blocks)
      /\ blk \in 0 .. Len(right.fn.blocks) - 1
      /\ out = Len(right.fn.values) /\ out \in Nat
  BY <1>5, FnParts DEF Grows, Growing, NextValue
<1>7. /\ Result(left) \in Nat /\ Result(left) < out /\ Result(right) \in Nat /\ Result(right) < out
  <2>1. Result(left) \in Nat /\ Result(left) < Len(left.fn.values)
    BY <1>3, ResultIsValue
  <2>2. Result(right) \in Nat /\ Result(right) < Len(right.fn.values)
    BY <1>4, ResultIsValue
  <2>3. Len(left.fn.values) <= Len(right.fn.values) /\ Len(left.fn.values) \in Nat
    BY <1>3, <1>4, FnParts DEF Grows, Kept, Growing
  <2> QED BY <2>1, <2>2, <2>3, <1>6
<1>8. /\ cmp \in Instr /\ cmp.output = out /\ Straight(cmp)
  <2>1. cond.kind \in CmpKind /\ out \in Nat /\ Result(left) \in Nat /\ Result(right) \in Nat
    BY <1>2, <1>6, <1>7
  <2>2. cmp = MkCmp(cond.kind, out, Result(left), Result(right))
    OBVIOUS
  <2> HIDE DEF out, cmp
  <2>3. cmp \in Instr
    BY <2>1, <2>2, Comparison
  <2>4. cmp.output = out
    BY <2>2 DEF MkCmp, MkBinary, Blank
  <2>5. Straight(cmp)
    BY <2>1, <2>2, Comparison
  <2> QED BY <2>3, <2>4, <2>5
<1>9. /\ Below(cmp.inputs, Len(right.fn.values)) /\ Constant(None, cmp) /\ None \in Values
  <2>1. cmp = MkCmp(cond.kind, out, Result(left), Result(right))
    OBVIOUS
  <2> HIDE DEF cmp
  <2>2. cmp.inputs = <<Result(left), Result(right)>>
    BY <2>1 DEF MkCmp, MkBinary, Blank
  <2> QED BY <1>6, <1>7, <2>2 DEF Below, Constant, Values, Optional
<1> HIDE DEF cmp
<1>10. /\ Growing(g) /\ Kept(right.fn, g)
       /\ Len(g.blocks) = Len(right.fn.blocks) /\ Len(g.values) = out + 1
  BY <1>6, <1>8, <1>9, ProduceKeeps, SMTT(30)
<1>11. /\ br \in Instr /\ br.output = None /\ br.inputs = <<out>>
       /\ Targets(br) = {then, else} /\ IsTerminator(br)
  <2>1. <<out>> \in Seq(Nat) /\ then \in Nat /\ else \in Nat
    BY <1>6, FnParts DEF Growing
  <2> HIDE DEF out
  <2> QED BY <2>1, NoneAssumption DEF MkBrTrue, Blank, Instr, IRInstr, IROp, Optional, Targets, IsTerminator
<1> HIDE DEF br, g
<1>12. InstrSound(g, br)
  BY <1>6, <1>10, <1>11 DEF InstrSound
<1>13. /\ Growing(h) /\ Kept(g, h) /\ Len(h.blocks) = Len(g.blocks)
       /\ Terminated(h.blocks[blk + 1])
  BY <1>6, <1>10, <1>11, <1>12, EmitSilent
<1> HIDE DEF h
<1>14. Kept(right.fn, h)
  BY <1>6, <1>10, <1>13, KeptTransitive DEF Growing
<1>15. TableSound(h, right.table)
  BY <1>6, <1>14, TableKept
<1>16. Grows(right.fn, right.table, h, right.table)
  BY <1>10, <1>13, <1>14, <1>15 DEF Grows
<1>17. Grows(fn, tab, h, right.table)
  BY <1>5, <1>16, GrowsTransitive
<1> QED BY <1>1, <1>13, <1>17

(***************************************************************************)
(* Variables.                                                              *)
(***************************************************************************)
\* A value that is yet to be allocated is written nowhere.
LEMMA UnwrittenYet ==
  ASSUME NEW fn, FnSound(fn), NEW v \in Nat, Len(fn.values) <= v
  PROVE  Unwritten(fn, v)
<1> SUFFICES ASSUME NEW b \in DOMAIN fn.blocks, NEW i \in DOMAIN fn.blocks[b].instrs
             PROVE  InstrAt(fn, b, i).output # v
  BY DEF Unwritten
<1>1. InstrSound(fn, InstrAt(fn, b, i)) /\ Len(fn.values) \in Nat
  BY FnParts
<1> QED BY <1>1, NoneAssumption DEF InstrSound

\* A variable has a slot once it is declared.
LEMMA DeclaredKeeps ==
  ASSUME NEW fn, Growing(fn), Len(fn.blocks) = 1, NEW v, v.init \in RegValue
  PROVE  /\ Growing(Declared(fn, v).fn) /\ Kept(fn, Declared(fn, v).fn)
         /\ Len(Declared(fn, v).fn.blocks) = 1
         /\ Slot(Declared(fn, v).fn, Declared(fn, v).slot)
<1> DEFINE const == NextValue(fn)
           slot  == const + 1
           one   == AllocValue(fn, v.init)
           two   == AllocValue(one, None)
           x     == MkConst(const, v.init)
           y     == MkCopy(slot, const)
           three == Emit(two, 0, x)
           four  == Emit(three, 0, y)
           only  == AllocValue(fn, None)
<1>1. /\ FnSound(fn) /\ const = Len(fn.values) /\ const \in Nat /\ slot \in Nat
      /\ None \in Values /\ v.init \in Values
  BY FnParts DEF Growing, NextValue, Values, Optional
<1>2. CASE v.name \in ImmediatelyAssigned(Function.statements)
  <2>1. Declared(fn, v).fn = only /\ Declared(fn, v).slot = const
    BY <1>2 DEF Declared
  <2>2. /\ Growing(only) /\ Kept(fn, only) /\ only.blocks = fn.blocks
        /\ Len(only.values) = const + 1 /\ only.values[const + 1] = None
    BY <1>1, AllocValueKeeps
  <2> HIDE DEF only, const
  <2>3. Unwritten(fn, const)
    BY <1>1, UnwrittenYet
  <2>4. NotComputed(only, const)
    BY <2>2, <2>3 DEF NotComputed, Unwritten, InstrAt
  <2>5. Slot(only, const)
    BY <1>1, <2>2, <2>4 DEF Slot
  <2> QED BY <2>1, <2>2, <2>5
<1>3. CASE v.name \notin ImmediatelyAssigned(Function.statements)
  <2>1. Declared(fn, v).fn = four /\ Declared(fn, v).slot = slot
    BY <1>3 DEF Declared
  <2>2. /\ Growing(one) /\ Kept(fn, one) /\ one.blocks = fn.blocks
        /\ Len(one.values) = const + 1 /\ one.values[const + 1] = v.init
    BY <1>1, AllocValueKeeps
  <2> HIDE DEF one, const
  <2>3. /\ Growing(two) /\ Kept(one, two) /\ two.blocks = one.blocks
        /\ Len(two.values) = Len(one.values) + 1
        /\ two.values[Len(one.values) + 1] = None
        /\ \A k \in 1 .. Len(one.values) : two.values[k] = one.values[k]
    BY <1>1, <2>2, AllocValueKeeps
  <2> HIDE DEF two
  <2>4. /\ Len(two.values) = slot + 1 /\ two.values[slot + 1] = None
        /\ two.values[const + 1] = v.init /\ two.blocks = fn.blocks
    BY <1>1, <2>2, <2>3
  <2>5. Unwritten(two, const) /\ Unwritten(two, slot)
    <3>1. Unwritten(fn, const) /\ Unwritten(fn, slot)
      BY <1>1, UnwrittenYet
    <3> QED BY <3>1, <2>4 DEF Unwritten, InstrAt
  <2>6. NotComputed(two, const) /\ NotComputed(two, slot)
    BY <2>5 DEF Unwritten, NotComputed
  <2>7. Slot(two, slot)
    BY <1>1, <2>4, <2>6 DEF Slot
  <2>8. /\ x \in Instr /\ x.output = const /\ x.inputs = <<>> /\ Targets(x) = {}
        /\ x.op = "Const" /\ x.constVal = v.init
    BY <1>1, Instructions DEF Straight
  <2>9. y \in Instr /\ y.output = slot /\ y.inputs = <<const>> /\ Targets(y) = {} /\ y.op = "Copy"
    BY <1>1, Instructions DEF MkCopy, Straight
  <2> HIDE DEF x, y, slot
  <2>10. InstrSound(two, x) /\ ~Computes(x) /\ NotComputed(two, x.output)
    <3>1. DOMAIN x.inputs = {}
      BY <2>8
    <3>2. x.output < Len(two.values)
      BY <1>1, <2>4, <2>8 DEF slot
    <3>3. two.values[x.output + 1] = v.init
      BY <2>4, <2>8
    <3> QED BY <2>6, <2>8, <3>1, <3>2, <3>3 DEF InstrSound, Computes
  <2>11. 0 \in 0 .. Len(two.blocks) - 1
    <3>1. two.blocks = fn.blocks
      BY <2>4
    <3>2. Len(two.blocks) = 1
      BY <3>1
    <3> QED BY <3>2
  <2>12. /\ Growing(three) /\ three.name = two.name /\ three.values = two.values
         /\ Len(three.blocks) = Len(two.blocks) /\ DOMAIN three.blocks = DOMAIN two.blocks
         /\ \A b \in DOMAIN two.blocks : Terminated(two.blocks[b]) => Terminated(three.blocks[b])
         /\ \A w \in Nat : Slot(two, w) /\ (x.output # w \/ ~Computes(x)) => Slot(three, w)
    BY <2>3, <2>8, <2>10, <2>11, EmitKeeps
  <2> HIDE DEF three
  <2>13. Slot(three, slot)
    BY <1>1, <2>7, <2>10, <2>12
  <2>14. InstrSound(three, y) /\ ~Computes(y) /\ NotComputed(three, y.output)
    <3>1. three.values[y.output + 1] = None /\ y.output < Len(three.values)
      BY <1>1, <2>4, <2>9, <2>12
    <3>2. \A k \in DOMAIN y.inputs : y.inputs[k] < Len(three.values)
      BY <1>1, <2>4, <2>9, <2>12 DEF slot
    <3> QED BY <2>9, <2>13, <3>1, <3>2 DEF InstrSound, Computes, Slot
  <2>15. 0 \in 0 .. Len(three.blocks) - 1
    BY <2>4, <2>12
  <2>16. /\ Growing(four) /\ four.name = three.name /\ four.values = three.values
         /\ Len(four.blocks) = Len(three.blocks) /\ DOMAIN four.blocks = DOMAIN three.blocks
         /\ \A b \in DOMAIN three.blocks : Terminated(three.blocks[b]) => Terminated(four.blocks[b])
         /\ \A w \in Nat : Slot(three, w) /\ (y.output # w \/ ~Computes(y)) => Slot(four, w)
    BY <2>9, <2>12, <2>14, <2>15, EmitKeeps
  <2> HIDE DEF four
  <2>17. Slot(four, slot)
    BY <1>1, <2>13, <2>14, <2>16
  <2>18. /\ Len(two.blocks) \in Nat /\ Len(two.values) \in Nat
    BY <2>3, FnParts DEF Growing
  <2>19. Kept(two, three) /\ Kept(three, four)
    BY <2>10, <2>12, <2>14, <2>16, <2>18 DEF Kept
  <2>20. Kept(fn, four)
    <3>1. FnSound(one) /\ FnSound(two) /\ FnSound(three) /\ FnSound(four)
      BY <2>2, <2>3, <2>12, <2>16 DEF Growing
    <3>2. Kept(fn, two)
      BY <1>1, <2>2, <2>3, <3>1, KeptTransitive
    <3>3. Kept(two, four)
      BY <2>19, <3>1, KeptTransitive
    <3> QED BY <1>1, <3>1, <3>2, <3>3, KeptTransitive
  <2> QED BY <2>1, <2>4, <2>12, <2>16, <2>17, <2>20
<1> QED BY <1>2, <1>3

(***************************************************************************)
(* The functions the DSL builds.                                           *)
(***************************************************************************)
AnyVariable  == [name : VarNames, init : InitValues]
AnyCondition == UNION {Conditions(vs) : vs \in SUBSET AnyVariable}
BodyKind     == {"function", "while", "then", "else"}

\* Bodies under construction whose statements are of a set.
BodyOf(S) ==
  [kind : BodyKind, cond : AnyCondition \cup {None}, thenStmts : Seq(S), stmts : Seq(S)]

Outermost(bs) ==
  \A k \in DOMAIN bs : IF k = 1 THEN bs[k].kind = "function"
                       ELSE bs[k].kind # "function" /\ bs[k].cond \in AnyCondition

DslInv ==
  /\ variables \in Seq(AnyVariable)
  /\ bodies # <<>> /\ Outermost(bodies)
  /\ \E S : Closed(S, VariableNames(variables)) /\ bodies \in Seq(BodyOf(S))

\* A function of the DSL: its statements are of a set closed under bodies.
FunctionOK(f) ==
  /\ f.name \in Name
  /\ Len(f.variables) \in Nat /\ DOMAIN f.variables = 1 .. Len(f.variables)
  /\ \A k \in DOMAIN f.variables : f.variables[k].init \in RegValue
  /\ \E S : Closed(S, VariableNames(f.variables)) /\ f.statements \in Seq(S)

LEMMA SeqMonotone ==
  ASSUME NEW S, NEW T, S \subseteq T
  PROVE  \A s \in Seq(S) : s \in Seq(T)
<1> SUFFICES ASSUME NEW s \in Seq(S) PROVE s \in Seq(T)
  OBVIOUS
<1>1. Len(s) \in Nat /\ s \in [1 .. Len(s) -> S]
  OBVIOUS
<1>2. s \in [1 .. Len(s) -> T]
  BY <1>1
<1> QED BY <1>1, <1>2

\* A statement stays right when there are more statements and more variables.
LEMMA StatementMonotone ==
  ASSUME NEW S, NEW T, S \subseteq T, NEW names, NEW more, names \subseteq more,
         NEW stmt, StatementOK(stmt, S, names)
  PROVE  StatementOK(stmt, T, more)
<1>1. \A s \in Seq(S) : s \in Seq(T)
  BY SeqMonotone
<1> QED BY <1>1 DEF StatementOK

\* A statement more, of statements already there.
LEMMA ClosedWith ==
  ASSUME NEW S, NEW names, Closed(S, names), NEW stmt, StatementOK(stmt, S, names)
  PROVE  Closed(S \cup {stmt}, names)
<1> SUFFICES ASSUME NEW x \in S \cup {stmt} PROVE StatementOK(x, S \cup {stmt}, names)
  BY DEF Closed
<1>1. StatementOK(x, S, names)
  BY DEF Closed
<1> QED BY <1>1, StatementMonotone

LEMMA ClosedForMore ==
  ASSUME NEW S, NEW names, NEW more, Closed(S, names), names \subseteq more
  PROVE  Closed(S, more)
  BY StatementMonotone DEF Closed

LEMMA BodiesMonotone ==
  ASSUME NEW S, NEW T, S \subseteq T
  PROVE  \A bs \in Seq(BodyOf(S)) : bs \in Seq(BodyOf(T))
<1>1. \A s \in Seq(S) : s \in Seq(T)
  BY SeqMonotone
<1>2. BodyOf(S) \subseteq BodyOf(T)
  BY <1>1 DEF BodyOf
<1> QED BY <1>2, SeqMonotone

\* A statement is pushed onto the innermost body.
LEMMA PushKeeps ==
  ASSUME NEW S, NEW bs \in Seq(BodyOf(S)), bs # <<>>, Outermost(bs), NEW stmt \in S
  PROVE  /\ PushStmt(bs, stmt) \in Seq(BodyOf(S)) /\ PushStmt(bs, stmt) # <<>>
         /\ Outermost(PushStmt(bs, stmt))
<1> DEFINE n == Len(bs)
           last == [bs[n] EXCEPT !.stmts = Append(@, stmt)]
           new == [bs EXCEPT ![n] = last]
<1>1. n \in Nat \ {0} /\ DOMAIN bs = 1 .. n /\ bs[n] \in BodyOf(S) /\ n = Len(bs)
  OBVIOUS
<1> HIDE DEF n
<1>2. PushStmt(bs, stmt) = new
  BY <1>1 DEF PushStmt
<1>3. last \in BodyOf(S) /\ last.kind = bs[n].kind /\ last.cond = bs[n].cond
  <2>1. Append(bs[n].stmts, stmt) \in Seq(S)
    BY <1>1 DEF BodyOf
  <2> QED BY <1>1, <2>1 DEF BodyOf
<1> HIDE DEF last
<1>4. /\ new \in Seq(BodyOf(S)) /\ DOMAIN new = DOMAIN bs /\ Len(new) = n
      /\ \A k \in DOMAIN bs : new[k] = IF k = n THEN last ELSE bs[k]
  BY <1>1, <1>3
<1> HIDE DEF new
<1>5. new # <<>>
  BY <1>1, <1>4
<1>6. \A k \in DOMAIN bs : new[k].kind = bs[k].kind /\ new[k].cond = bs[k].cond
  BY <1>3, <1>4
<1>7. Outermost(new)
  BY <1>4, <1>6 DEF Outermost
<1> QED BY <1>2, <1>4, <1>5, <1>7

LEMMA Given ==
  /\ None \notin RegValue /\ InitValues \subseteq RegValue /\ Callees \subseteq STRING
  /\ \A vs \in SUBSET AnyVariable :
       /\ \A e \in Expressions(vs) : IsExpression(e)
       /\ Conditions(vs) \subseteq AnyCondition
  /\ \A c \in AnyCondition : IsCondition(c)
  BY LoweringAssumption DEF AnyVariable, AnyCondition

LEMMA KnownVariables ==
  ASSUME DslInv
  PROVE  /\ Known \in SUBSET AnyVariable
         /\ \A v \in Known : v.name \in VariableNames(variables)
         /\ \A k \in DOMAIN variables : variables[k].init \in RegValue
<1>1. \A k \in DOMAIN variables : variables[k] \in AnyVariable
  BY DEF DslInv
<1>2. ASSUME NEW k \in DOMAIN variables PROVE variables[k].init \in RegValue
  BY <1>1, Given DEF AnyVariable
<1>3. Known \in SUBSET AnyVariable
  BY <1>1 DEF Known
<1>4. ASSUME NEW v \in Known PROVE v.name \in VariableNames(variables)
  BY DEF Known, VariableNames
<1> QED BY <1>2, <1>3, <1>4

\* The bodies around the innermost one.
LEMMA EnclosingBodies ==
  ASSUME NEW S, bodies \in Seq(BodyOf(S)), Outermost(bodies), bodies # <<>>,
         Current.kind # "function"
  PROVE  LET outer == SubSeq(bodies, 1, Len(bodies) - 1)
         IN  outer \in Seq(BodyOf(S)) /\ outer # <<>> /\ Outermost(outer)
<1> DEFINE n == Len(bodies)
           outer == SubSeq(bodies, 1, n - 1)
<1>1. n \in Nat \ {0} /\ DOMAIN bodies = 1 .. n /\ n = Len(bodies)
  OBVIOUS
<1>2. n # 1
  BY <1>1 DEF Outermost, Current
<1> HIDE DEF n
<1>3. /\ outer \in Seq(BodyOf(S)) /\ Len(outer) = n - 1 /\ DOMAIN outer = 1 .. (n - 1)
      /\ \A k \in 1 .. (n - 1) : outer[k] = bodies[k]
  BY <1>1, <1>2
<1> HIDE DEF outer
<1>4. outer # <<>>
  BY <1>1, <1>2, <1>3
<1>5. Outermost(outer)
  BY <1>1, <1>3 DEF Outermost
<1> QED BY <1>3, <1>4, <1>5 DEF outer, n

LEMMA PushSound ==
  ASSUME DslInv, NEW stmt, Push(stmt),
         \A S : StatementOK(stmt, S, VariableNames(variables))
  PROVE  DslInv'
<1>1. /\ variables' = variables /\ bodies' = PushStmt(bodies, stmt)
      /\ variables \in Seq(AnyVariable) /\ bodies # <<>> /\ Outermost(bodies)
  BY DEF Push, DslInv
<1> DEFINE names == VariableNames(variables)
<1>2. PICK S : Closed(S, names) /\ bodies \in Seq(BodyOf(S))
  BY DEF DslInv
<1> DEFINE T == S \cup {stmt}
<1>3. Closed(T, names)
  BY <1>2, ClosedWith
<1>4. stmt \in T /\ S \subseteq T
  OBVIOUS
<1> HIDE DEF T, names
<1>5. bodies \in Seq(BodyOf(T))
  BY <1>2, <1>4, BodiesMonotone
<1>6. bodies' \in Seq(BodyOf(T)) /\ bodies' # <<>> /\ Outermost(bodies')
  BY <1>1, <1>4, <1>5, PushKeeps
<1> QED BY <1>1, <1>3, <1>6 DEF DslInv, names

\* A control statement takes its place in the body around it.
LEMMA CloseSound ==
  ASSUME DslInv, NEW stmt, Current.kind # "function", bodies' = CloseWith(stmt), variables' = variables,
         \A S : bodies \in Seq(BodyOf(S)) => StatementOK(stmt, S, VariableNames(variables))
  PROVE  DslInv'
<1> DEFINE outer == SubSeq(bodies, 1, Len(bodies) - 1)
           names == VariableNames(variables)
<1>1. /\ variables' = variables /\ bodies' = PushStmt(outer, stmt)
      /\ variables \in Seq(AnyVariable) /\ bodies # <<>> /\ Outermost(bodies)
  BY DEF DslInv, CloseWith
<1>2. PICK S : Closed(S, names) /\ bodies \in Seq(BodyOf(S))
  BY DEF DslInv
<1> DEFINE T == S \cup {stmt}
<1>3. Closed(T, names)
  BY <1>2, ClosedWith
<1>4. stmt \in T /\ S \subseteq T
  OBVIOUS
<1> HIDE DEF T, names
<1>5. bodies \in Seq(BodyOf(T))
  BY <1>2, <1>4, BodiesMonotone
<1>6. outer \in Seq(BodyOf(T)) /\ outer # <<>> /\ Outermost(outer)
  BY <1>1, <1>5, EnclosingBodies
<1> HIDE DEF outer
<1>7. bodies' \in Seq(BodyOf(T)) /\ bodies' # <<>> /\ Outermost(bodies')
  BY <1>1, <1>4, <1>6, PushKeeps
<1> QED BY <1>1, <1>3, <1>7 DEF DslInv, names

LEMMA OpenSound ==
  ASSUME DslInv, NEW kind \in BodyKind \ {"function"}, NEW cond \in AnyCondition,
         Open(Body(kind, cond, <<>>))
  PROVE  DslInv'
<1> DEFINE body == Body(kind, cond, <<>>)
           new == Append(bodies, body)
<1>1. /\ variables' = variables /\ bodies' = new
      /\ variables \in Seq(AnyVariable) /\ bodies # <<>> /\ Outermost(bodies)
  BY DEF Open, DslInv
<1>2. PICK S : Closed(S, VariableNames(variables)) /\ bodies \in Seq(BodyOf(S))
  BY DEF DslInv
<1>3. body \in BodyOf(S) /\ body.kind = kind /\ body.cond = cond
  BY DEF Body, BodyOf
<1> HIDE DEF body
<1>4. /\ new \in Seq(BodyOf(S)) /\ Len(new) = Len(bodies) + 1 /\ Len(bodies) \in Nat \ {0}
      /\ DOMAIN new = 1 .. (Len(bodies) + 1) /\ new[Len(bodies) + 1] = body
      /\ \A k \in 1 .. Len(bodies) : new[k] = bodies[k]
      /\ DOMAIN bodies = 1 .. Len(bodies)
  BY <1>1, <1>2, <1>3
<1> HIDE DEF new
<1>5. new # <<>>
  BY <1>4
<1>6. Outermost(new)
  <2> SUFFICES ASSUME NEW k \in DOMAIN new
               PROVE  IF k = 1 THEN new[k].kind = "function"
                      ELSE new[k].kind # "function" /\ new[k].cond \in AnyCondition
    BY DEF Outermost
  <2>1. CASE k = Len(bodies) + 1
    BY <1>3, <1>4, <2>1
  <2>2. CASE k # Len(bodies) + 1
    <3>1. k \in DOMAIN bodies /\ new[k] = bodies[k]
      BY <1>4, <2>2
    <3> QED BY <1>1, <3>1 DEF Outermost
  <2> QED BY <2>1, <2>2
<1> QED BY <1>1, <1>2, <1>4, <1>5, <1>6 DEF DslInv

LEMMA CreateVariableSound ==
  ASSUME DslInv, NEW name \in VarNames, NEW init \in InitValues, CreateVariable(name, init)
  PROVE  DslInv'
<1> DEFINE v == Variable(name, init)
<1>1. v \in AnyVariable
  BY DEF AnyVariable, Variable
<1> HIDE DEF v
<1>2. /\ variables' = Append(variables, v) /\ bodies' = bodies /\ variables \in Seq(AnyVariable)
  BY DEF CreateVariable, DslInv, v
<1>3. variables' \in Seq(AnyVariable)
  BY <1>1, <1>2
<1>4. VariableNames(variables) \subseteq VariableNames(variables')
  <2> SUFFICES ASSUME NEW k \in DOMAIN variables
               PROVE  variables[k].name \in VariableNames(variables')
    BY DEF VariableNames
  <2>1. k \in DOMAIN variables' /\ variables'[k] = variables[k]
    BY <1>1, <1>2
  <2> QED BY <2>1 DEF VariableNames
<1>5. PICK S : Closed(S, VariableNames(variables)) /\ bodies \in Seq(BodyOf(S))
  BY DEF DslInv
<1>6. Closed(S, VariableNames(variables'))
  BY <1>4, <1>5, ClosedForMore
<1>7. bodies # <<>> /\ Outermost(bodies)
  BY DEF DslInv
<1> QED BY <1>2, <1>3, <1>5, <1>6, <1>7 DEF DslInv

LEMMA ElseBodySound ==
  ASSUME DslInv, ElseBody
  PROVE  DslInv'
<1> DEFINE n == Len(bodies)
           last == Body("else", bodies[n].cond, bodies[n].stmts)
           new == [bodies EXCEPT ![n] = last]
<1>1. /\ variables' = variables /\ bodies' = new
      /\ variables \in Seq(AnyVariable) /\ bodies # <<>> /\ Outermost(bodies)
      /\ bodies[n].kind = "then"
  BY DEF ElseBody, DslInv, Current
<1>2. PICK S : Closed(S, VariableNames(variables)) /\ bodies \in Seq(BodyOf(S))
  BY DEF DslInv
<1>3. n \in Nat \ {0} /\ DOMAIN bodies = 1 .. n /\ n = Len(bodies) /\ bodies[n] \in BodyOf(S)
  BY <1>1, <1>2
<1> HIDE DEF n
<1>4. n # 1 /\ bodies[n].cond \in AnyCondition
  BY <1>1, <1>3 DEF Outermost
<1>5. last \in BodyOf(S) /\ last.kind = "else" /\ last.cond = bodies[n].cond
  BY <1>3, <1>4 DEF BodyOf, BodyKind, Body
<1> HIDE DEF last
<1>6. /\ new \in Seq(BodyOf(S)) /\ DOMAIN new = DOMAIN bodies /\ Len(new) = n
      /\ \A k \in DOMAIN bodies : new[k] = IF k = n THEN last ELSE bodies[k]
  BY <1>2, <1>3, <1>5
<1> HIDE DEF new
<1>7. new # <<>>
  BY <1>3, <1>6
<1>8. Outermost(new)
  BY <1>1, <1>4, <1>5, <1>6 DEF Outermost
<1> QED BY <1>1, <1>2, <1>6, <1>7, <1>8 DEF DslInv

LEMMA DslStep == DslInv /\ DslNext => DslInv'
<1> SUFFICES ASSUME DslInv, DslNext PROVE DslInv'
  OBVIOUS
<1> DEFINE names == VariableNames(variables)
<1>1. ASSUME NEW name \in VarNames, NEW init \in InitValues, CreateVariable(name, init) PROVE DslInv'
  BY <1>1, CreateVariableSound
<1>2. ASSUME NEW target \in Known, NEW value \in Expressions(Known), Assign(target, value) PROVE DslInv'
  <2> DEFINE stmt == AssignStmt(target, value)
  <2>1. target.name \in names /\ IsExpression(value)
    BY Given, KnownVariables
  <2>2. \A S : StatementOK(stmt, S, names)
    BY <2>1 DEF StatementOK, AssignStmt
  <2>3. Push(stmt)
    BY <1>2 DEF Assign
  <2> HIDE DEF stmt
  <2> QED BY <2>2, <2>3, PushSound
<1>3. ASSUME NEW cond \in Conditions(Known), WhileLoop(cond) PROVE DslInv'
  <2>1. cond \in AnyCondition
    BY Given, KnownVariables
  <2> QED BY <1>3, <2>1, OpenSound DEF WhileLoop, BodyKind
<1>4. ASSUME EndWhile PROVE DslInv'
  <2> DEFINE stmt == WhileStmt(Current.cond, Current.stmts)
  <2>1. ASSUME NEW S, bodies \in Seq(BodyOf(S)) PROVE StatementOK(stmt, S, names)
    <3>1. Current \in BodyOf(S) /\ IsCondition(Current.cond)
      BY <1>4, <2>1, Given DEF DslInv, Outermost, Current, EndWhile
    <3> QED BY <3>1 DEF StatementOK, WhileStmt, BodyOf
  <2>2. Current.kind # "function" /\ bodies' = CloseWith(stmt) /\ variables' = variables
    BY <1>4 DEF EndWhile
  <2> HIDE DEF stmt
  <2> QED BY <2>1, <2>2, CloseSound
<1>5. ASSUME NEW cond \in Conditions(Known), IfElse(cond) PROVE DslInv'
  <2>1. cond \in AnyCondition
    BY Given, KnownVariables
  <2> QED BY <1>5, <2>1, OpenSound DEF IfElse, BodyKind
<1>6. ASSUME ElseBody PROVE DslInv'
  BY <1>6, ElseBodySound
<1>7. ASSUME EndIf PROVE DslInv'
  <2> DEFINE stmt == IfStmt(Current.cond, Current.thenStmts, Current.stmts)
  <2>1. ASSUME NEW S, bodies \in Seq(BodyOf(S)) PROVE StatementOK(stmt, S, names)
    <3>1. Current \in BodyOf(S) /\ IsCondition(Current.cond)
      BY <1>7, <2>1, Given DEF DslInv, Outermost, Current, EndIf
    <3> QED BY <3>1 DEF StatementOK, IfStmt, BodyOf
  <2>2. Current.kind # "function" /\ bodies' = CloseWith(stmt) /\ variables' = variables
    BY <1>7 DEF EndIf
  <2> HIDE DEF stmt
  <2> QED BY <2>1, <2>2, CloseSound
<1>8. ASSUME NEW value \in Expressions(Known) \cup {None}, Ret(value) PROVE DslInv'
  <2> DEFINE stmt == ReturnStmt(value)
  <2>1. value = None \/ IsExpression(value)
    BY Given, KnownVariables
  <2>2. \A S : StatementOK(stmt, S, names)
    BY <2>1 DEF StatementOK, ReturnStmt
  <2>3. Push(stmt)
    BY <1>8 DEF Ret
  <2> HIDE DEF stmt
  <2> QED BY <2>2, <2>3, PushSound
<1>9. ASSUME NEW callee \in Callees, CallFn(callee, <<>>) PROVE DslInv'
  <2> DEFINE stmt == CallStmt(callee, <<>>)
  <2>1. callee \in STRING /\ IsForest(FlattenSeq(<<>>), Len(<<>>))
    <3>1. FlattenSeq(<<>>) = <<>>
      BY DEF FlattenSeq
    <3>2. Operands(<<>>, 0) = 0 /\ Len(<<>>) = 0 /\ <<>> \in Seq(ToSet(<<>>)) /\ DOMAIN <<>> = {}
      BY NoOperands
    <3> QED BY <3>1, <3>2, Given DEF IsForest
  <2>2. \A S : StatementOK(stmt, S, names)
    BY <2>1 DEF StatementOK, CallStmt
  <2>3. Push(stmt)
    BY <1>9 DEF CallFn
  <2> HIDE DEF stmt
  <2> QED BY <2>2, <2>3, PushSound
<1> QED BY <1>1, <1>2, <1>3, <1>4, <1>5, <1>6, <1>7, <1>8, <1>9 DEF DslNext

(***************************************************************************)
(* The invariant of the lowering.                                          *)
(***************************************************************************)
\* At most one block falls off its end.
OneOpenEnd(fn) ==
  \A b, c \in DOMAIN fn.blocks : Terminated(fn.blocks[b]) \/ Terminated(fn.blocks[c]) \/ b = c

Indexes == {RebuildBlockIndex(bs) : bs \in Seq(Block)}

\* What a function is once it is lowered.
LoweredFunctions ==
  {fn \in [name : Name, blocks : Seq(Block), values : Seq(Values), blockIndex : Indexes] :
     FnSound(fn) /\ OneOpenEnd(fn) /\ fn.blockIndex = RebuildBlockIndex(fn.blocks)}

InputInv ==
  /\ Len(input) \in Nat /\ DOMAIN input = 1 .. Len(input)
  /\ \A k \in DOMAIN input : FunctionOK(input[k])

\* Bodies whose statements are of a set.
PendingOf(S) ==
  [stmts : Seq(S), kind : BodyKind, target : Optional(Nat), after : Optional(Nat), else : Seq(S)]

IsBlockOf(fn, id) == id \in 0 .. Len(fn.blocks) - 1

\* The outermost body is the function's; the others lead to blocks.
EndsInBlocks(ws, fn) ==
  \A k \in DOMAIN ws :
    IF k = 1 THEN ws[k].kind = "function" /\ ws[k].after = None
    ELSE ws[k].kind # "function" /\ IsBlockOf(fn, ws[k].target) /\ IsBlockOf(fn, ws[k].after)

\* The bodies being lowered, with statements of a set that assign to variables
\* that have a slot.
Works(S, tab, ws, fn) ==
  /\ ws # <<>> /\ ws \in Seq(PendingOf(S)) /\ EndsInBlocks(ws, fn)
  /\ Closed(S, DOMAIN tab)

WorkInv == \E S : Works(S, table, work, ir)

\* A block without a terminator is one where the lowering goes on.
GoesOn(fn, blk, ws) ==
  \A b \in DOMAIN fn.blocks :
    Terminated(fn.blocks[b]) \/ b - 1 = blk \/ \E k \in DOMAIN ws : b - 1 \in Expected(ws[k])

DeclareInv ==
  /\ Len(ir.blocks) = 1 /\ block = 0 /\ declared <= Len(Function.variables)
  /\ \A k \in 1 .. declared : Function.variables[k].name \in DOMAIN table

\* A lowered function has the name of the function it was made from.
NamesInv ==
  /\ \A k \in DOMAIN module : module[k].name = input[k].name
  /\ phase \in {"declare", "statements"} => ir.name = Function.name

LoweringInv ==
  /\ DslInv /\ InputInv
  /\ module \in Seq(LoweredFunctions)
  /\ phase \in Phase /\ declared \in Nat /\ block \in Nat
  /\ phase \in {"begin", "declare", "statements"} => Len(module) < Len(input)
  /\ NamesInv
  /\ phase \in {"declare", "statements"} =>
       Growing(ir) /\ TableSound(ir, table) /\ IsBlockOf(ir, block)
  /\ phase = "declare" => DeclareInv
  /\ phase = "statements" => WorkInv /\ GoesOn(ir, block, work)

LEMMA InitLowering == LoweringInit => LoweringInv
<1> SUFFICES ASSUME LoweringInit PROVE LoweringInv
  OBVIOUS
<1> USE DEF LoweringInit, Idle
<1>1. DslInv
  <2> DEFINE body == Body("function", None, <<>>)
  <2>1. body \in BodyOf({}) /\ body.kind = "function"
    BY DEF Body, BodyOf, BodyKind
  <2> HIDE DEF body
  <2>2. /\ variables = <<>> /\ bodies = <<body>>
    BY DEF DslInit, body
  <2>3. /\ variables \in Seq(AnyVariable) /\ bodies \in Seq(BodyOf({})) /\ bodies # <<>>
    BY <2>1, <2>2
  <2>4. Outermost(bodies)
    BY <2>1, <2>2 DEF Outermost
  <2>5. Closed({}, VariableNames(variables))
    BY DEF Closed
  <2> QED BY <2>3, <2>4, <2>5 DEF DslInv
<1>2. InputInv
  BY DEF InputInv
<1>3. NamesInv
  BY DEF NamesInv
<1> QED BY <1>1, <1>2, <1>3 DEF LoweringInv, Phase

LEMMA DslLowering == LoweringInv /\ phase = "dsl" /\ DslNext /\ UNCHANGED loweringVars => LoweringInv'
<1> SUFFICES ASSUME LoweringInv, phase = "dsl", DslNext, UNCHANGED loweringVars PROVE LoweringInv'
  OBVIOUS
<1>1. DslInv'
  BY DslStep DEF LoweringInv
<1>2. NamesInv'
  BY DEF LoweringInv, loweringVars, NamesInv
<1> QED BY <1>1, <1>2 DEF LoweringInv, loweringVars, InputInv, Phase

\* The DSL's functions are what the lowering is given.
LEMMA BuildLowering == LoweringInv /\ Build => LoweringInv'
<1> SUFFICES ASSUME LoweringInv, Build PROVE LoweringInv'
  OBVIOUS
<1> DEFINE built == Built("main")
<1>1. /\ input' = Append(OtherFunctions, built) /\ module' = <<>> /\ phase' = "begin"
      /\ UNCHANGED <<dslVars, ir, table, declared, work, block>>
      /\ DslInv /\ declared \in Nat /\ block \in Nat
  BY DEF Build, LoweringInv
<1>2. FunctionOK(built)
  <2>1. /\ built.name = "main" /\ built.variables = variables /\ built.statements = bodies[1].stmts
    BY DEF Built
  <2>2. PICK S : Closed(S, VariableNames(variables)) /\ bodies \in Seq(BodyOf(S))
    BY <1>1 DEF DslInv
  <2>3. bodies[1] \in BodyOf(S)
    BY <1>1, <2>2 DEF DslInv
  <2>4. bodies[1].stmts \in Seq(S)
    BY <2>3 DEF BodyOf
  <2>5. /\ Len(variables) \in Nat /\ DOMAIN variables = 1 .. Len(variables)
        /\ \A k \in DOMAIN variables : variables[k].init \in RegValue
    BY <1>1, KnownVariables DEF DslInv
  <2> HIDE DEF built
  <2>6. \E R : Closed(R, VariableNames(built.variables)) /\ built.statements \in Seq(R)
    BY <2>1, <2>2, <2>4
  <2>7. built.name \in Name
    BY <2>1 DEF Name
  <2>8. /\ Len(built.variables) \in Nat /\ DOMAIN built.variables = 1 .. Len(built.variables)
        /\ \A k \in DOMAIN built.variables : built.variables[k].init \in RegValue
    <3>1. built.variables = variables
      BY <2>1
    <3> QED BY <2>5, <3>1
  <2> QED BY <2>6, <2>7, <2>8 DEF FunctionOK
<1>3. /\ OtherFunctions \in Seq(ToSet(OtherFunctions))
      /\ \A k \in DOMAIN OtherFunctions : FunctionOK(OtherFunctions[k])
  <2>1. OtherFunctions \in Seq(ToSet(OtherFunctions)) /\ \A f \in ToSet(OtherFunctions) : IsFunction(f)
    BY LoweringAssumption
  <2>2. ASSUME NEW f, IsFunction(f) PROVE FunctionOK(f)
    <3> DEFINE S == ToSet(AllStatements(f.statements))
               V == ToSet(f.variables)
    <3>1. /\ f.name \in STRING /\ f.variables \in Seq(V)
          /\ \A k \in DOMAIN f.variables : f.variables[k].init \in RegValue
          /\ f.statements \in Seq(S) /\ Closed(S, VariableNames(f.variables))
      BY <2>2 DEF IsFunction
    <3> HIDE DEF S, V
    <3> QED BY <3>1 DEF FunctionOK, Name
  <2>3. \A k \in DOMAIN OtherFunctions : OtherFunctions[k] \in ToSet(OtherFunctions)
    BY DEF ToSet
  <2> QED BY <2>1, <2>2, <2>3
<1> HIDE DEF built
<1> DEFINE n == Len(OtherFunctions)
           T == ToSet(OtherFunctions) \cup {built}
<1>4. OtherFunctions \in Seq(T) /\ built \in T
  BY <1>3, SeqMonotone
<1> HIDE DEF T
<1>5. /\ n \in Nat /\ Len(input') = n + 1 /\ DOMAIN input' = 1 .. (n + 1)
      /\ input'[n + 1] = built /\ DOMAIN OtherFunctions = 1 .. n
      /\ \A k \in 1 .. n : input'[k] = OtherFunctions[k]
  BY <1>1, <1>4
<1> HIDE DEF n
<1>6. \A k \in DOMAIN input' : FunctionOK(input'[k])
  <2> SUFFICES ASSUME NEW k \in 1 .. (n + 1) PROVE FunctionOK(input'[k])
    BY <1>5
  <2>1. CASE k = n + 1
    BY <2>1, <1>2, <1>5
  <2>2. CASE k # n + 1
    BY <2>2, <1>3, <1>5
  <2> QED BY <2>1, <2>2
<1>7. InputInv'
  BY <1>5, <1>6 DEF InputInv
<1>8. DslInv'
  BY <1>1 DEF DslInv, dslVars
<1>9. module' \in Seq(LoweredFunctions) /\ Len(module') = 0 /\ Len(input') > 0
  BY <1>1, <1>5
<1>10. NamesInv'
  BY <1>1 DEF NamesInv
<1> QED BY <1>1, <1>7, <1>8, <1>9, <1>10 DEF LoweringInv, Phase

LEMMA BeginFunctionLowering == LoweringInv /\ BeginFunction => LoweringInv'
<1> SUFFICES ASSUME LoweringInv, BeginFunction PROVE LoweringInv'
  OBVIOUS
<1> DEFINE empty == [name |-> Function.name, blocks |-> <<>>, values |-> <<>>]
<1>1. /\ DslInv /\ InputInv /\ module \in Seq(LoweredFunctions) /\ Len(module) < Len(input)
      /\ ir' = AllocBlock(empty) /\ table' = <<>> /\ declared' = 0 /\ block' = 0
      /\ phase' = "declare" /\ UNCHANGED <<dslVars, input, module, work>>
  BY DEF LoweringInv, BeginFunction
<1>2. FunctionOK(Function)
  BY <1>1 DEF InputInv, Function
<1>3. Growing(empty) /\ Len(empty.blocks) = 0
  <2>1. empty \in FunctionRecord
    BY <1>2 DEF FunctionOK, FunctionRecord
  <2>2. /\ empty.name \in Name /\ empty.blocks = <<>> /\ empty.values = <<>>
    BY <1>2 DEF FunctionOK
  <2> HIDE DEF empty
  <2>3. FnSound(empty)
    BY <2>2 DEF FnSound, IdsCount, InstrsSound, WritesOnce
  <2> QED BY <2>1, <2>2, <2>3 DEF Growing
<1> HIDE DEF empty
<1> DEFINE g == AllocBlock(empty)
<1>4. Growing(ir') /\ Len(ir'.blocks) = 1
  <2>1. Growing(g) /\ Len(g.blocks) = Len(empty.blocks) + 1
    BY <1>3, AllocBlockKeeps
  <2>2. ir' = g
    BY <1>1
  <2> HIDE DEF g
  <2> QED BY <1>3, <2>1, <2>2
<1>5. TableSound(ir', table')
  BY <1>1 DEF TableSound
<1>6. IsBlockOf(ir', block')
  BY <1>1, <1>4 DEF IsBlockOf
<1>7. DeclareInv'
  <2>1. Len(Function.variables) \in Nat /\ Function' = Function
    BY <1>1, <1>2 DEF FunctionOK, Function
  <2> QED BY <1>1, <1>4, <2>1 DEF DeclareInv
<1>8. DslInv' /\ InputInv'
  BY <1>1 DEF DslInv, dslVars, InputInv
<1>9. NamesInv'
  <2>1. empty.name = Function.name /\ empty.blocks = <<>> /\ empty.values = <<>>
    BY DEF empty
  <2>2. ir'.name = Function.name /\ Function' = Function
    BY <1>1, <2>1 DEF AllocBlock, Function, empty
  <2> QED BY <1>1, <2>2 DEF NamesInv, LoweringInv
<1> QED BY <1>1, <1>4, <1>5, <1>6, <1>7, <1>8, <1>9 DEF LoweringInv, Phase

\* What every step of the lowering leaves alone.
LEMMA InputKept ==
  ASSUME LoweringInv, UNCHANGED <<dslVars, input, module>>
  PROVE  DslInv' /\ InputInv' /\ module' \in Seq(LoweredFunctions) /\ Function' = Function
<1>1. DslInv /\ InputInv /\ module \in Seq(LoweredFunctions)
  BY DEF LoweringInv
<1>2. DslInv'
  BY <1>1 DEF DslInv, dslVars
<1>3. InputInv'
  BY <1>1 DEF InputInv
<1> QED BY <1>1, <1>2, <1>3 DEF Function

LEMMA NameKept ==
  ASSUME LoweringInv, phase \in {"declare", "statements"}, ir'.name = ir.name,
         UNCHANGED <<dslVars, input, module>>
  PROVE  NamesInv'
BY InputKept DEF LoweringInv, NamesInv

LEMMA FunctionGiven ==
  ASSUME LoweringInv, phase \in {"declare", "statements"}
  PROVE  FunctionOK(Function)
<1>1. InputInv /\ module \in Seq(LoweredFunctions) /\ Len(module) < Len(input)
  BY DEF LoweringInv
<1> QED BY <1>1 DEF InputInv, Function

LEMMA DeclareVariableLowering == LoweringInv /\ DeclareVariable => LoweringInv'
<1> SUFFICES ASSUME LoweringInv, DeclareVariable PROVE LoweringInv'
  OBVIOUS
<1> DEFINE v == Function.variables[declared + 1]
           d == Declared(ir, v)
<1>1. /\ phase = "declare" /\ declared < Len(Function.variables)
      /\ ir' = d.fn /\ table' = SetVariable(table, v.name, d.slot) /\ declared' = declared + 1
      /\ UNCHANGED <<dslVars, input, module, work, block, phase>>
  BY DEF DeclareVariable
<1>2. /\ Growing(ir) /\ TableSound(ir, table) /\ DeclareInv /\ declared \in Nat /\ block \in Nat
      /\ Len(module) < Len(input)
  BY <1>1 DEF LoweringInv
<1>3. /\ Len(Function.variables) \in Nat /\ v.init \in RegValue
  BY <1>1, <1>2, FunctionGiven DEF FunctionOK
<1> HIDE DEF v
<1>4. /\ Growing(d.fn) /\ Kept(ir, d.fn) /\ Len(d.fn.blocks) = 1 /\ Slot(d.fn, d.slot)
  BY <1>2, <1>3, DeclaredKeeps DEF DeclareInv
<1> HIDE DEF d
<1>5. TableSound(d.fn, table)
  BY <1>2, <1>4, TableKept
<1>6. TableSound(ir', table') /\ DOMAIN table \subseteq DOMAIN table' /\ v.name \in DOMAIN table'
  BY <1>1, <1>4, <1>5, VariableSet
<1>7. IsBlockOf(ir', block')
  BY <1>1, <1>2, <1>4 DEF IsBlockOf, DeclareInv
<1>8. DslInv' /\ InputInv' /\ module' \in Seq(LoweredFunctions) /\ Function' = Function
  BY <1>1, InputKept
<1>9. ASSUME NEW k \in 1 .. declared' PROVE Function.variables[k].name \in DOMAIN table'
  <2>1. CASE k = declared + 1
    BY <2>1, <1>6 DEF v
  <2>2. CASE k # declared + 1
    <3>1. k \in 1 .. declared
      BY <2>2, <1>1, <1>2
    <3> QED BY <3>1, <1>2, <1>6 DEF DeclareInv
  <2> QED BY <2>1, <2>2
<1>10. DeclareInv'
  <2>1. Len(ir'.blocks) = 1 /\ block' = 0 /\ declared' <= Len(Function'.variables)
    BY <1>1, <1>2, <1>3, <1>4, <1>8 DEF DeclareInv
  <2> QED BY <2>1, <1>8, <1>9 DEF DeclareInv
<1>11. NamesInv'
  BY <1>1, <1>4, NameKept DEF Kept
<1> QED BY <1>1, <1>2, <1>4, <1>6, <1>7, <1>8, <1>10, <1>11 DEF LoweringInv, Phase

LEMMA BeginStatementsLowering == LoweringInv /\ BeginStatements => LoweringInv'
<1> SUFFICES ASSUME LoweringInv, BeginStatements PROVE LoweringInv'
  OBVIOUS
<1> DEFINE w == Pending(Function.statements, "function", None, None, <<>>)
<1>1. /\ phase = "declare" /\ declared = Len(Function.variables)
      /\ work' = <<w>> /\ phase' = "statements"
      /\ UNCHANGED <<dslVars, input, module, ir, table, declared, block>>
  BY DEF BeginStatements
<1>2. /\ Growing(ir) /\ TableSound(ir, table) /\ DeclareInv /\ declared \in Nat /\ block \in Nat
      /\ Len(module) < Len(input) /\ IsBlockOf(ir, block)
  BY <1>1 DEF LoweringInv
<1>3. DslInv' /\ InputInv' /\ module' \in Seq(LoweredFunctions)
  BY <1>1, InputKept
<1>4. /\ DOMAIN Function.variables = 1 .. declared
      /\ \E S : Closed(S, VariableNames(Function.variables)) /\ Function.statements \in Seq(S)
  BY <1>1, FunctionGiven DEF FunctionOK
<1>5. VariableNames(Function.variables) \subseteq DOMAIN table
  BY <1>2, <1>4 DEF DeclareInv, VariableNames
<1>6. PICK S : Closed(S, VariableNames(Function.variables)) /\ Function.statements \in Seq(S)
  BY <1>4
<1>7. Closed(S, DOMAIN table)
  BY <1>5, <1>6, ClosedForMore
<1>8. w \in PendingOf(S) /\ w.kind = "function" /\ w.after = None
  BY <1>6 DEF Pending, PendingOf, BodyKind, Optional
<1> HIDE DEF w
<1>9. /\ work' \in Seq(PendingOf(S)) /\ work' # <<>> /\ DOMAIN work' = {1} /\ work'[1] = w
  BY <1>1, <1>8
<1>10. EndsInBlocks(work', ir')
  BY <1>8, <1>9 DEF EndsInBlocks
<1>11. WorkInv'
  BY <1>1, <1>7, <1>9, <1>10 DEF WorkInv, Works
<1>12. GoesOn(ir', block', work')
  <2>1. DOMAIN ir.blocks = 1 .. 1 /\ block = 0
    BY <1>2, FnParts DEF DeclareInv, Growing
  <2> QED BY <1>1, <2>1 DEF GoesOn
<1>13. NamesInv'
  BY <1>1, NameKept
<1> QED BY <1>1, <1>2, <1>3, <1>11, <1>12, <1>13 DEF LoweringInv, Phase

\* The innermost body without the statement that is lowered next.
LEMMA NextStatement ==
  ASSUME NEW S, Works(S, table, work, ir), NEW kind, Lowers(kind)
  PROVE  /\ StatementOK(Head(Innermost.stmts), S, DOMAIN table)
         /\ Head(Innermost.stmts).kind = kind
         /\ Works(S, table, WithoutHead, ir) /\ Len(WithoutHead) = Len(work)
         /\ DOMAIN WithoutHead = DOMAIN work
         /\ \A k \in DOMAIN work : Expected(WithoutHead[k]) = Expected(work[k])
<1> DEFINE n == Len(work)
           w == Innermost
           v == [w EXCEPT !.stmts = Tail(@)]
           new == [work EXCEPT ![n] = v]
<1>1. work # <<>> /\ work \in Seq(PendingOf(S)) /\ EndsInBlocks(work, ir) /\ Closed(S, DOMAIN table)
  BY DEF Works
<1>2. n \in Nat \ {0} /\ DOMAIN work = 1 .. n /\ w = work[n] /\ w \in PendingOf(S) /\ n = Len(work)
  BY <1>1 DEF Innermost
<1> HIDE DEF n, w
<1>3. w.stmts \in Seq(S) /\ w.stmts # <<>> /\ Head(w.stmts).kind = kind
  BY <1>2 DEF Lowers, PendingOf, w
<1>4. Head(w.stmts) \in S /\ Tail(w.stmts) \in Seq(S)
  BY <1>3
<1>5. StatementOK(Head(w.stmts), S, DOMAIN table)
  BY <1>1, <1>4 DEF Closed
<1>6. /\ v \in PendingOf(S) /\ v.kind = w.kind /\ v.target = w.target /\ v.after = w.after
  BY <1>2, <1>4 DEF PendingOf
<1>7. WithoutHead = new
  BY <1>2 DEF WithoutHead
<1> HIDE DEF v
<1>8. /\ new \in Seq(PendingOf(S)) /\ DOMAIN new = DOMAIN work /\ Len(new) = n
      /\ \A k \in DOMAIN work : new[k] = IF k = n THEN v ELSE work[k]
  BY <1>1, <1>2, <1>6
<1> HIDE DEF new
<1>9. new # <<>>
  BY <1>2, <1>8
<1>10. \A k \in DOMAIN work :
         new[k].kind = work[k].kind /\ new[k].target = work[k].target /\ new[k].after = work[k].after
  BY <1>2, <1>6, <1>8
<1>11. EndsInBlocks(new, ir)
  BY <1>1, <1>8, <1>10 DEF EndsInBlocks
<1>12. \A k \in DOMAIN work : Expected(new[k]) = Expected(work[k])
  BY <1>10 DEF Expected
<1> QED BY <1>1, <1>2, <1>3, <1>5, <1>7, <1>8, <1>9, <1>11, <1>12 DEF Works, w

\* A statement is lowered into the block that is current.
LEMMA StatementLowered ==
  ASSUME LoweringInv, NEW kind, Lowers(kind), Grows(ir, table, ir', table'), work' = WithoutHead,
         UNCHANGED <<dslVars, input, module, declared, block, phase>>
  PROVE  LoweringInv'
<1>1. /\ phase = "statements" /\ Growing(ir) /\ declared \in Nat /\ block \in Nat
      /\ Len(module) < Len(input) /\ IsBlockOf(ir, block) /\ WorkInv /\ GoesOn(ir, block, work)
  BY DEF LoweringInv, Lowers
<1>2. DslInv' /\ InputInv' /\ module' \in Seq(LoweredFunctions)
  BY InputKept
<1>3. /\ Growing(ir') /\ Kept(ir, ir') /\ Len(ir'.blocks) = Len(ir.blocks)
      /\ TableSound(ir', table') /\ DOMAIN table \subseteq DOMAIN table'
  BY DEF Grows
<1>4. PICK S : Works(S, table, work, ir)
  BY <1>1 DEF WorkInv
<1>5. /\ Works(S, table, WithoutHead, ir) /\ DOMAIN WithoutHead = DOMAIN work
      /\ \A k \in DOMAIN work : Expected(WithoutHead[k]) = Expected(work[k])
  BY <1>4, NextStatement
<1>6. Closed(S, DOMAIN table')
  BY <1>3, <1>5, ClosedForMore DEF Works
<1>7. WorkInv'
  <2>1. Works(S, table', work', ir')
    BY <1>3, <1>5, <1>6 DEF Works, EndsInBlocks, IsBlockOf
  <2> QED BY <2>1 DEF WorkInv
<1>8. GoesOn(ir', block', work')
  <2>1. DOMAIN ir'.blocks = DOMAIN ir.blocks
    BY <1>1, <1>3, FnParts DEF Growing
  <2> SUFFICES ASSUME NEW b \in DOMAIN ir.blocks, ~Terminated(ir'.blocks[b]), b - 1 # block
               PROVE  \E k \in DOMAIN work' : b - 1 \in Expected(work'[k])
    BY <2>1 DEF GoesOn
  <2>2. ~Terminated(ir.blocks[b])
    BY <1>3 DEF Kept
  <2>3. PICK k \in DOMAIN work : b - 1 \in Expected(work[k])
    BY <1>1, <2>2 DEF GoesOn
  <2> QED BY <1>5, <2>3
<1>9. IsBlockOf(ir', block')
  BY <1>1, <1>3 DEF IsBlockOf
<1>10. NamesInv'
  BY <1>1, <1>3, NameKept DEF Kept
<1> QED BY <1>1, <1>2, <1>3, <1>7, <1>8, <1>9, <1>10 DEF LoweringInv, Phase

\* The current block, where the statements of the innermost body go.
LEMMA CurrentBlock ==
  ASSUME LoweringInv, NEW kind, Lowers(kind)
  PROVE  /\ Growing(ir) /\ TableSound(ir, table) /\ block \in 0 .. Len(ir.blocks) - 1
         /\ Head(Innermost.stmts).kind = kind
         /\ \E S : StatementOK(Head(Innermost.stmts), S, DOMAIN table)
<1>1. /\ Growing(ir) /\ TableSound(ir, table) /\ IsBlockOf(ir, block) /\ WorkInv
  BY DEF LoweringInv, Lowers
<1>2. PICK S : Works(S, table, work, ir)
  BY <1>1 DEF WorkInv
<1>3. StatementOK(Head(Innermost.stmts), S, DOMAIN table) /\ Head(Innermost.stmts).kind = kind
  BY <1>2, NextStatement
<1> QED BY <1>1, <1>3 DEF IsBlockOf

\* An instruction without an output.
LEMMA SilentGrows ==
  ASSUME NEW fn, NEW tab, Growing(fn), TableSound(fn, tab), NEW blk \in 0 .. Len(fn.blocks) - 1,
         NEW x \in Instr, InstrSound(fn, x), x.output = None
  PROVE  Grows(fn, tab, Emit(fn, blk, x), tab)
<1> DEFINE g == Emit(fn, blk, x)
<1>1. Growing(g) /\ Kept(fn, g) /\ Len(g.blocks) = Len(fn.blocks)
  BY EmitSilent
<1> HIDE DEF g
<1>2. TableSound(g, tab)
  BY <1>1, TableKept
<1> QED BY <1>1, <1>2 DEF Grows, g

\* A copy to the slot of a variable.
LEMMA CopyGrows ==
  ASSUME NEW fn, NEW tab, Growing(fn), TableSound(fn, tab), NEW blk \in 0 .. Len(fn.blocks) - 1,
         NEW name \in DOMAIN tab, NEW v \in Nat, v < Len(fn.values)
  PROVE  Grows(fn, tab, Emit(fn, blk, MkCopy(tab[name], v)), tab)
<1> DEFINE slot == tab[name]
           x == MkCopy(slot, v)
           g == Emit(fn, blk, x)
<1>1. /\ Slot(fn, slot) /\ Len(fn.values) \in Nat /\ Len(fn.blocks) \in Nat
  BY FnParts DEF TableSound, Growing
<1> HIDE DEF slot
<1>2. slot \in Nat /\ slot < Len(fn.values) /\ fn.values[slot + 1] = None /\ NotComputed(fn, slot)
  BY <1>1 DEF Slot
<1>3. x \in Instr /\ x.output = slot /\ x.inputs = <<v>> /\ Straight(x) /\ x.op = "Copy"
  <2>1. x = MkUnary("Copy", slot, v) /\ <<v>> \in Seq(Nat)
    BY DEF MkCopy
  <2> QED BY <1>2, <2>1 DEF MkUnary, Blank, Instr, IRInstr, IROp, Optional, Targets, Straight
<1> HIDE DEF x
<1>4. ~Computes(x) /\ NotComputed(fn, x.output)
  BY <1>2, <1>3 DEF Computes
<1>5. InstrSound(fn, x)
  BY <1>2, <1>3 DEF InstrSound, Straight
<1>6. /\ Growing(g) /\ g.name = fn.name /\ g.values = fn.values
      /\ Len(g.blocks) = Len(fn.blocks) /\ DOMAIN g.blocks = DOMAIN fn.blocks
      /\ \A b \in DOMAIN fn.blocks : Terminated(fn.blocks[b]) => Terminated(g.blocks[b])
      /\ \A w \in Nat : Slot(fn, w) /\ (x.output # w \/ ~Computes(x)) => Slot(g, w)
  BY <1>3, <1>4, <1>5, EmitKeeps
<1> HIDE DEF g
<1>7. Kept(fn, g)
  BY <1>1, <1>4, <1>6 DEF Kept
<1>8. TableSound(g, tab)
  BY <1>7, TableKept
<1>9. Grows(fn, tab, g, tab)
  BY <1>6, <1>7, <1>8 DEF Grows
<1> QED BY <1>9 DEF g, x, slot

LEMMA AssignLowering == LoweringInv /\ LowerAssign => LoweringInv'
<1> SUFFICES ASSUME LoweringInv, LowerAssign PROVE LoweringInv'
  OBVIOUS
<1> DEFINE stmt == Head(Innermost.stmts)
           s == LowerExpression(Node(ir, table, <<>>), block, stmt.value)
           g == Emit(s.fn, block, MkCopy(s.table[stmt.target.name], Result(s)))
<1>1. /\ Lowers("assign") /\ ir' = g /\ table' = s.table /\ work' = WithoutHead
      /\ UNCHANGED <<dslVars, input, module, declared, block, phase>>
  BY DEF LowerAssign
<1>2. /\ Growing(ir) /\ TableSound(ir, table) /\ block \in 0 .. Len(ir.blocks) - 1
      /\ stmt.kind = "assign"
      /\ \E S : StatementOK(stmt, S, DOMAIN table)
  BY <1>1, CurrentBlock
<1>3. stmt.target.name \in DOMAIN table /\ IsForest(stmt.value, 1)
  BY <1>2 DEF StatementOK, IsExpression
<1> HIDE DEF stmt
<1>4. Evaluated(s) /\ Len(s.operands) = 1 /\ Grows(ir, table, s.fn, s.table)
  BY <1>2, <1>3, ExpressionGrows
<1> HIDE DEF s
<1>5. Result(s) \in Nat /\ Result(s) < Len(s.fn.values)
  BY <1>4, ResultIsValue
<1>6. /\ Growing(s.fn) /\ TableSound(s.fn, s.table) /\ block \in 0 .. Len(s.fn.blocks) - 1
      /\ stmt.target.name \in DOMAIN s.table
  BY <1>2, <1>3, <1>4 DEF Grows
<1>7. Grows(s.fn, s.table, g, s.table)
  BY <1>5, <1>6, CopyGrows
<1> HIDE DEF g
<1>8. Grows(ir, table, ir', table')
  BY <1>1, <1>2, <1>4, <1>7, GrowsTransitive
<1> QED BY <1>1, <1>8, StatementLowered

LEMMA ReturnLowering == LoweringInv /\ LowerReturn => LoweringInv'
<1> SUFFICES ASSUME LoweringInv, LowerReturn PROVE LoweringInv'
  OBVIOUS
<1> DEFINE value == Head(Innermost.stmts).value
           nodes == IF value = None THEN <<>> ELSE value
           s == LowerExpression(Node(ir, table, <<>>), block, nodes)
           args == IF value = None THEN <<>> ELSE <<Result(s)>>
           x == MkRet(args)
           g == Emit(s.fn, block, x)
           trees == IF value = None THEN 0 ELSE 1
<1>1. /\ Lowers("return") /\ ir' = g /\ table' = s.table /\ work' = WithoutHead
      /\ UNCHANGED <<dslVars, input, module, declared, block, phase>>
  BY DEF LowerReturn
<1>2. /\ Growing(ir) /\ TableSound(ir, table) /\ block \in 0 .. Len(ir.blocks) - 1
      /\ Head(Innermost.stmts).kind = "return"
      /\ \E S : StatementOK(Head(Innermost.stmts), S, DOMAIN table)
  BY <1>1, CurrentBlock
<1>3. value = None \/ IsForest(value, 1)
  BY <1>2 DEF StatementOK, IsExpression
<1> HIDE DEF value
<1>4. IsForest(nodes, trees)
  <2>1. CASE value = None
    <3>1. Operands(<<>>, 0) = 0 /\ Len(<<>>) = 0 /\ <<>> \in Seq(ToSet(<<>>)) /\ DOMAIN <<>> = {}
      BY NoOperands
    <3> QED BY <2>1, <3>1 DEF IsForest
  <2>2. CASE value # None
    BY <1>3, <2>2
  <2> QED BY <2>1, <2>2
<1> HIDE DEF nodes
<1>5. Evaluated(s) /\ Len(s.operands) = trees /\ Grows(ir, table, s.fn, s.table)
  BY <1>2, <1>4, ExpressionGrows
<1> HIDE DEF s
<1>6. /\ Growing(s.fn) /\ TableSound(s.fn, s.table) /\ block \in 0 .. Len(s.fn.blocks) - 1
  BY <1>2, <1>5 DEF Grows
<1>7. args \in Seq(Nat) /\ Below(args, Len(s.fn.values))
  <2>1. CASE value = None
    BY <2>1 DEF Below
  <2>2. CASE value # None
    <3>1. Result(s) \in Nat /\ Result(s) < Len(s.fn.values)
      BY <1>5, <2>2, ResultIsValue
    <3> QED BY <3>1, <2>2 DEF Below
  <2> QED BY <2>1, <2>2
<1> HIDE DEF args
<1>8. /\ x \in Instr /\ x.output = None /\ x.inputs = args /\ Targets(x) = {}
  BY <1>7 DEF MkRet, Blank, Instr, IRInstr, IROp, Optional, Targets
<1> HIDE DEF x
<1>9. InstrSound(s.fn, x)
  BY <1>7, <1>8 DEF InstrSound, Below
<1>10. Grows(s.fn, s.table, g, s.table)
  BY <1>6, <1>8, <1>9, SilentGrows
<1> HIDE DEF g
<1>11. Grows(ir, table, ir', table')
  BY <1>1, <1>2, <1>5, <1>10, GrowsTransitive
<1> QED BY <1>1, <1>11, StatementLowered

LEMMA CallLowering == LoweringInv /\ LowerCall => LoweringInv'
<1> SUFFICES ASSUME LoweringInv, LowerCall PROVE LoweringInv'
  OBVIOUS
<1> DEFINE stmt == Head(Innermost.stmts)
           nodes == FlattenSeq(stmt.args)
           s == LowerExpression(Node(ir, table, <<>>), block, nodes)
           x == MkCall(stmt.callee, s.operands)
           g == Emit(s.fn, block, x)
<1>1. /\ Lowers("call") /\ ir' = g /\ table' = s.table /\ work' = WithoutHead
      /\ UNCHANGED <<dslVars, input, module, declared, block, phase>>
  BY DEF LowerCall
<1>2. /\ Growing(ir) /\ TableSound(ir, table) /\ block \in 0 .. Len(ir.blocks) - 1
      /\ stmt.kind = "call"
      /\ \E S : StatementOK(stmt, S, DOMAIN table)
  BY <1>1, CurrentBlock
<1>3. stmt.callee \in STRING /\ IsForest(nodes, Len(stmt.args))
  BY <1>2 DEF StatementOK
<1> HIDE DEF stmt, nodes
<1>4. Evaluated(s) /\ Grows(ir, table, s.fn, s.table)
  BY <1>2, <1>3, ExpressionGrows
<1> HIDE DEF s
<1>5. /\ Growing(s.fn) /\ TableSound(s.fn, s.table) /\ block \in 0 .. Len(s.fn.blocks) - 1
  BY <1>2, <1>4 DEF Grows
<1>6. s.operands \in Seq(Nat) /\ Below(s.operands, Len(s.fn.values))
  BY <1>4 DEF Evaluated
<1>7. /\ x \in Instr /\ x.output = None /\ x.inputs = s.operands /\ Targets(x) = {}
  BY <1>3, <1>6 DEF MkCall, Blank, Instr, IRInstr, IROp, Optional, Targets
<1> HIDE DEF x
<1>8. InstrSound(s.fn, x)
  BY <1>6, <1>7 DEF InstrSound, Below
<1>9. Grows(s.fn, s.table, g, s.table)
  BY <1>5, <1>7, <1>8, SilentGrows
<1> HIDE DEF g
<1>10. Grows(ir, table, ir', table')
  BY <1>1, <1>2, <1>4, <1>9, GrowsTransitive
<1> QED BY <1>1, <1>10, StatementLowered

\* The blocks of a control statement.
ThreeBlocks(fn) == AllocBlock(AllocBlock(AllocBlock(fn)))

LEMMA ThreeBlocksKept ==
  ASSUME NEW fn, NEW tab, Growing(fn), TableSound(fn, tab)
  PROVE  /\ Growing(ThreeBlocks(fn)) /\ Kept(fn, ThreeBlocks(fn))
         /\ Len(ThreeBlocks(fn).blocks) = Len(fn.blocks) + 3
         /\ TableSound(ThreeBlocks(fn), tab)
<1> DEFINE f == AllocBlock(fn)
           g == AllocBlock(f)
           h == AllocBlock(g)
<1>1. Growing(f) /\ Kept(fn, f) /\ Len(f.blocks) = Len(fn.blocks) + 1
  BY AllocBlockKeeps
<1> HIDE DEF f
<1>2. Growing(g) /\ Kept(f, g) /\ Len(g.blocks) = Len(f.blocks) + 1
  BY <1>1, AllocBlockKeeps
<1> HIDE DEF g
<1>3. Growing(h) /\ Kept(g, h) /\ Len(h.blocks) = Len(g.blocks) + 1
  BY <1>2, AllocBlockKeeps
<1> HIDE DEF h
<1>4. FnSound(fn) /\ FnSound(f) /\ FnSound(g) /\ FnSound(h)
  BY <1>1, <1>2, <1>3 DEF Growing
<1>5. Kept(fn, g)
  BY <1>1, <1>2, <1>4, KeptTransitive
<1>6. Kept(fn, h)
  BY <1>3, <1>4, <1>5, KeptTransitive
<1>7. Len(h.blocks) = Len(fn.blocks) + 3
  <2>1. Len(fn.blocks) \in Nat
    BY FnParts DEF Growing
  <2> QED BY <2>1, <1>1, <1>2, <1>3
<1>8. TableSound(h, tab)
  BY <1>6, TableKept
<1>9. ThreeBlocks(fn) = h
  BY DEF ThreeBlocks, f, g, h
<1> QED BY <1>3, <1>6, <1>7, <1>8, <1>9

\* A control statement opens a body: the block before it is terminated, and of
\* its blocks each is terminated, current, or one where the lowering goes on.
LEMMA BodyOpened ==
  ASSUME LoweringInv, NEW kind, Lowers(kind),
         NEW S, Works(S, table, work, ir), NEW w \in PendingOf(S), w.kind \in {"while", "then"},
         IsBlockOf(ir', w.target), IsBlockOf(ir', w.after),
         Growing(ir'), Kept(ir, ir'), Len(ir'.blocks) = Len(ir.blocks) + 3,
         TableSound(ir', table'), DOMAIN table \subseteq DOMAIN table',
         Terminated(ir'.blocks[block + 1]), IsBlockOf(ir', block'),
         \A id \in Len(ir.blocks) .. Len(ir.blocks) + 2 :
           Terminated(ir'.blocks[id + 1]) \/ id = block' \/ id \in Expected(w),
         work' = Append(WithoutHead, w), UNCHANGED <<dslVars, input, module, declared, phase>>
  PROVE  LoweringInv'
<1> DEFINE n == Len(work)
<1>1. /\ phase = "statements" /\ Growing(ir) /\ declared \in Nat /\ block \in Nat
      /\ Len(module) < Len(input) /\ GoesOn(ir, block, work)
  BY DEF LoweringInv, Lowers
<1>2. DslInv' /\ InputInv' /\ module' \in Seq(LoweredFunctions)
  BY InputKept
<1>3. /\ Works(S, table, WithoutHead, ir) /\ Len(WithoutHead) = n
      /\ DOMAIN WithoutHead = DOMAIN work
      /\ \A k \in DOMAIN work : Expected(WithoutHead[k]) = Expected(work[k])
  BY NextStatement
<1>4. /\ WithoutHead # <<>> /\ WithoutHead \in Seq(PendingOf(S)) /\ EndsInBlocks(WithoutHead, ir)
      /\ Closed(S, DOMAIN table)
  BY <1>3 DEF Works
<1>5. n \in Nat \ {0} /\ DOMAIN WithoutHead = 1 .. n
  BY <1>3, <1>4
<1> HIDE DEF n
<1>6. /\ work' \in Seq(PendingOf(S)) /\ DOMAIN work' = 1 .. (n + 1) /\ Len(work') = n + 1
      /\ work'[n + 1] = w
      /\ \A k \in 1 .. n : work'[k] = WithoutHead[k]
  BY <1>3, <1>4, <1>5
<1>7. work' # <<>>
  BY <1>5, <1>6
<1>8. /\ Len(ir.blocks) \in Nat /\ DOMAIN ir.blocks = 1 .. Len(ir.blocks)
      /\ DOMAIN ir'.blocks = 1 .. (Len(ir.blocks) + 3)
  BY <1>1, FnParts DEF Growing
<1>9. EndsInBlocks(work', ir')
  <2> SUFFICES ASSUME NEW k \in 1 .. (n + 1)
               PROVE  IF k = 1 THEN work'[k].kind = "function" /\ work'[k].after = None
                      ELSE /\ work'[k].kind # "function"
                           /\ IsBlockOf(ir', work'[k].target) /\ IsBlockOf(ir', work'[k].after)
    BY <1>6 DEF EndsInBlocks
  <2>1. CASE k = n + 1
    BY <2>1, <1>5, <1>6
  <2>2. CASE k # n + 1
    <3>1. k \in 1 .. n /\ work'[k] = WithoutHead[k]
      BY <2>2, <1>5, <1>6
    <3>2. IF k = 1 THEN WithoutHead[k].kind = "function" /\ WithoutHead[k].after = None
          ELSE /\ WithoutHead[k].kind # "function"
               /\ IsBlockOf(ir, WithoutHead[k].target) /\ IsBlockOf(ir, WithoutHead[k].after)
      BY <3>1, <1>4, <1>5 DEF EndsInBlocks
    <3>3. \A id : IsBlockOf(ir, id) => IsBlockOf(ir', id)
      BY <1>8 DEF IsBlockOf
    <3> QED BY <3>1, <3>2, <3>3
  <2> QED BY <2>1, <2>2
<1>10. Closed(S, DOMAIN table')
  BY <1>4, ClosedForMore
<1>11. WorkInv'
  BY <1>6, <1>7, <1>9, <1>10 DEF WorkInv, Works
<1>12. GoesOn(ir', block', work')
  <2> SUFFICES ASSUME NEW b \in 1 .. (Len(ir.blocks) + 3),
                      ~Terminated(ir'.blocks[b]), b - 1 # block'
               PROVE  \E k \in DOMAIN work' : b - 1 \in Expected(work'[k])
    BY <1>8 DEF GoesOn
  <2>1. CASE b \in 1 .. Len(ir.blocks)
    <3>1. ~Terminated(ir.blocks[b])
      BY <2>1, <1>8 DEF Kept
    <3>2. b - 1 # block
      BY <2>1, <1>1
    <3>3. PICK k \in DOMAIN work : b - 1 \in Expected(work[k])
      BY <2>1, <3>1, <3>2, <1>1, <1>8 DEF GoesOn
    <3>4. k \in 1 .. n /\ Expected(WithoutHead[k]) = Expected(work[k])
      BY <1>3, <1>5
    <3>5. k \in DOMAIN work' /\ work'[k] = WithoutHead[k]
      BY <3>4, <1>5, <1>6
    <3> QED BY <3>3, <3>4, <3>5
  <2>2. CASE b \notin 1 .. Len(ir.blocks)
    <3> DEFINE id == b - 1
    <3>1. id \in Len(ir.blocks) .. Len(ir.blocks) + 2 /\ id + 1 = b
      BY <2>2, <1>8
    <3> HIDE DEF id
    <3>2. Terminated(ir'.blocks[id + 1]) \/ id = block' \/ id \in Expected(w)
      BY <3>1
    <3>3. id \in Expected(w)
      BY <3>1, <3>2 DEF id
    <3>4. n + 1 \in DOMAIN work' /\ work'[n + 1] = w
      BY <1>5, <1>6
    <3> QED BY <3>3, <3>4 DEF id
  <2> QED BY <2>1, <2>2
<1>13. block' \in Nat
  BY <1>8 DEF IsBlockOf
<1>14. NamesInv'
  BY <1>1, NameKept DEF Kept
<1> QED BY <1>1, <1>2, <1>11, <1>12, <1>13, <1>14 DEF LoweringInv, Phase

LEMMA JumpParts ==
  ASSUME NEW id \in Nat
  PROVE  /\ MkJmp(id) \in Instr /\ MkJmp(id).output = None /\ MkJmp(id).inputs = <<>>
         /\ Targets(MkJmp(id)) = {id} /\ IsTerminator(MkJmp(id))
<1>1. <<>> \in Seq(Nat) /\ id # None
  BY NoneAssumption
<1> QED BY <1>1 DEF MkJmp, Blank, Instr, IRInstr, IROp, Optional, Targets, IsTerminator

LEMMA WhileLowering == LoweringInv /\ LowerWhile => LoweringInv'
<1> SUFFICES ASSUME LoweringInv, LowerWhile PROVE LoweringInv'
  OBVIOUS
<1> DEFINE stmt == Head(Innermost.stmts)
           cond == NextBlock(ir)
           body == cond + 1
           f == ThreeBlocks(ir)
           x == MkJmp(cond)
           g == Emit(f, block, x)
           s == LowerCondition(g, table, cond, stmt.cond, body, body + 1)
           w == Pending(stmt.body, "while", cond, body + 1, <<>>)
<1>1. /\ Lowers("while") /\ ir' = s.fn /\ table' = s.table
      /\ work' = Append(WithoutHead, w) /\ block' = body
      /\ UNCHANGED <<dslVars, input, module, declared, phase>>
  BY DEF LowerWhile, ThreeBlocks
<1>2. /\ Growing(ir) /\ TableSound(ir, table) /\ block \in 0 .. Len(ir.blocks) - 1
  BY <1>1, CurrentBlock
<1>3. PICK S : Works(S, table, work, ir)
  BY <1>1 DEF LoweringInv, WorkInv, Lowers
<1>4. StatementOK(stmt, S, DOMAIN table) /\ stmt.kind = "while"
  BY <1>1, <1>3, NextStatement
<1>5. IsCondition(stmt.cond) /\ stmt.body \in Seq(S)
  BY <1>4 DEF StatementOK
<1> HIDE DEF stmt
<1>6. cond = Len(ir.blocks) /\ cond \in Nat /\ cond + 3 = Len(ir.blocks) + 3
  BY <1>2, FnParts DEF NextBlock, Growing
<1>7. Growing(f) /\ Kept(ir, f) /\ Len(f.blocks) = cond + 3 /\ TableSound(f, table)
  BY <1>2, <1>6, ThreeBlocksKept
<1> HIDE DEF f, cond
<1>8. x \in Instr /\ x.output = None /\ x.inputs = <<>> /\ Targets(x) = {cond} /\ IsTerminator(x)
  BY <1>6, JumpParts
<1> HIDE DEF x
<1>9. block \in 0 .. Len(f.blocks) - 1 /\ cond \in 0 .. Len(f.blocks) - 1
  BY <1>2, <1>6, <1>7
<1>10. InstrSound(f, x)
  BY <1>8, <1>9 DEF InstrSound
<1>11. /\ Growing(g) /\ Kept(f, g) /\ Len(g.blocks) = Len(f.blocks)
       /\ Terminated(g.blocks[block + 1])
  BY <1>7, <1>8, <1>9, <1>10, EmitSilent
<1> HIDE DEF g
<1>12. TableSound(g, table)
  BY <1>7, <1>11, TableKept
<1>13. /\ cond \in 0 .. Len(g.blocks) - 1 /\ body \in 0 .. Len(g.blocks) - 1
       /\ body + 1 \in 0 .. Len(g.blocks) - 1
  BY <1>6, <1>7, <1>11
<1>14. Grows(g, table, s.fn, s.table) /\ Terminated(s.fn.blocks[cond + 1])
  BY <1>5, <1>11, <1>12, <1>13, ConditionGrows
<1> HIDE DEF s
<1>15. /\ Growing(s.fn) /\ Kept(g, s.fn) /\ Len(s.fn.blocks) = Len(g.blocks)
       /\ TableSound(s.fn, s.table) /\ DOMAIN table \subseteq DOMAIN s.table
  BY <1>14 DEF Grows
<1>16. Kept(ir, s.fn)
  <2>1. FnSound(ir) /\ FnSound(f) /\ FnSound(g) /\ FnSound(s.fn)
    BY <1>2, <1>7, <1>11, <1>15 DEF Growing
  <2>2. Kept(ir, g)
    BY <1>7, <1>11, <2>1, KeptTransitive
  <2> QED BY <1>15, <2>1, <2>2, KeptTransitive
<1>17. Terminated(s.fn.blocks[block + 1])
  <2>1. block + 1 \in DOMAIN g.blocks
    BY <1>9, <1>11, FnParts DEF Growing
  <2> QED BY <1>11, <1>15, <2>1 DEF Kept
<1>18. /\ w \in PendingOf(S) /\ w.kind = "while" /\ w.target = cond /\ w.after = cond + 2
  <2>1. cond \in Nat /\ body + 1 = cond + 2 /\ cond + 2 \in Nat
    BY <1>6
  <2> HIDE DEF body
  <2> QED BY <1>5, <2>1 DEF Pending, PendingOf, BodyKind, Optional
<1> HIDE DEF w
<1>19. IsBlockOf(s.fn, w.target) /\ IsBlockOf(s.fn, w.after) /\ IsBlockOf(s.fn, body)
  BY <1>6, <1>7, <1>11, <1>15, <1>18 DEF IsBlockOf
<1>20. ASSUME NEW id \in Len(ir.blocks) .. Len(ir.blocks) + 2
       PROVE  Terminated(s.fn.blocks[id + 1]) \/ id = body \/ id \in Expected(w)
  <2>1. id = cond \/ id = body \/ id = cond + 2
    BY <1>6
  <2> QED BY <2>1, <1>14, <1>18 DEF Expected
<1>21. Len(s.fn.blocks) = Len(ir.blocks) + 3
  BY <1>6, <1>7, <1>11, <1>15
<1> HIDE DEF body
<1> QED BY <1>1, <1>3, <1>15, <1>16, <1>17, <1>18, <1>19, <1>20, <1>21, BodyOpened

LEMMA IfLowering == LoweringInv /\ LowerIf => LoweringInv'
<1> SUFFICES ASSUME LoweringInv, LowerIf PROVE LoweringInv'
  OBVIOUS
<1> DEFINE stmt == Head(Innermost.stmts)
           then == NextBlock(ir)
           f == ThreeBlocks(ir)
           s == LowerCondition(f, table, block, stmt.cond, then, then + 1)
           w == Pending(stmt.thenBody, "then", then + 2, then + 1, stmt.elseBody)
<1>1. /\ Lowers("if") /\ ir' = s.fn /\ table' = s.table
      /\ work' = Append(WithoutHead, w) /\ block' = then
      /\ UNCHANGED <<dslVars, input, module, declared, phase>>
  BY DEF LowerIf, ThreeBlocks
<1>2. /\ Growing(ir) /\ TableSound(ir, table) /\ block \in 0 .. Len(ir.blocks) - 1
  BY <1>1, CurrentBlock
<1>3. PICK S : Works(S, table, work, ir)
  BY <1>1 DEF LoweringInv, WorkInv, Lowers
<1>4. StatementOK(stmt, S, DOMAIN table) /\ stmt.kind = "if"
  BY <1>1, <1>3, NextStatement
<1>5. IsCondition(stmt.cond) /\ stmt.thenBody \in Seq(S) /\ stmt.elseBody \in Seq(S)
  BY <1>4 DEF StatementOK
<1> HIDE DEF stmt
<1>6. then = Len(ir.blocks) /\ then \in Nat
  BY <1>2, FnParts DEF NextBlock, Growing
<1>7. Growing(f) /\ Kept(ir, f) /\ Len(f.blocks) = then + 3 /\ TableSound(f, table)
  BY <1>2, <1>6, ThreeBlocksKept
<1> HIDE DEF f, then
<1>8. /\ block \in 0 .. Len(f.blocks) - 1 /\ then \in 0 .. Len(f.blocks) - 1
      /\ then + 1 \in 0 .. Len(f.blocks) - 1
  BY <1>2, <1>6, <1>7
<1>9. Grows(f, table, s.fn, s.table) /\ Terminated(s.fn.blocks[block + 1])
  BY <1>5, <1>7, <1>8, ConditionGrows
<1> HIDE DEF s
<1>10. /\ Growing(s.fn) /\ Kept(f, s.fn) /\ Len(s.fn.blocks) = Len(f.blocks)
       /\ TableSound(s.fn, s.table) /\ DOMAIN table \subseteq DOMAIN s.table
  BY <1>9 DEF Grows
<1>11. Kept(ir, s.fn)
  BY <1>2, <1>7, <1>10, KeptTransitive DEF Growing
<1>12. /\ w \in PendingOf(S) /\ w.kind = "then" /\ w.target = then + 2 /\ w.after = then + 1
  <2>1. then + 1 \in Nat /\ then + 2 \in Nat
    BY <1>6
  <2> QED BY <1>5, <2>1 DEF Pending, PendingOf, BodyKind, Optional
<1> HIDE DEF w
<1>13. IsBlockOf(s.fn, w.target) /\ IsBlockOf(s.fn, w.after) /\ IsBlockOf(s.fn, then)
  BY <1>6, <1>7, <1>10, <1>12 DEF IsBlockOf
<1>14. ASSUME NEW id \in Len(ir.blocks) .. Len(ir.blocks) + 2
       PROVE  Terminated(s.fn.blocks[id + 1]) \/ id = then \/ id \in Expected(w)
  <2>1. id = then \/ id = then + 1 \/ id = then + 2
    BY <1>6
  <2> QED BY <2>1, <1>12 DEF Expected
<1>15. Len(s.fn.blocks) = Len(ir.blocks) + 3
  BY <1>6, <1>7, <1>10
<1> QED BY <1>1, <1>3, <1>9, <1>10, <1>11, <1>12, <1>13, <1>14, <1>15, BodyOpened

\* A body ends with a jump, and the lowering goes on in the block after it.
LEMMA EndBodyLowering == LoweringInv /\ EndBody => LoweringInv'
<1> SUFFICES ASSUME LoweringInv, EndBody PROVE LoweringInv'
  OBVIOUS
<1> DEFINE w == Innermost
           n == Len(work)
           x == MkJmp(w.target)
           g == Emit(ir, block, x)
           else == Pending(w.else, "else", w.target, w.target, <<>>)
           rest == SubSeq(work, 1, n - 1)
           replaced == [work EXCEPT ![n] = else]
<1>1. /\ phase = "statements" /\ w.kind # "function"
      /\ ir' = g /\ block' = w.after
      /\ work' = IF w.kind = "then" THEN replaced ELSE rest
      /\ UNCHANGED <<dslVars, input, module, table, declared, phase>>
  BY DEF EndBody, Innermost
<1>2. /\ Growing(ir) /\ TableSound(ir, table) /\ block \in 0 .. Len(ir.blocks) - 1
      /\ declared \in Nat /\ Len(module) < Len(input) /\ WorkInv /\ GoesOn(ir, block, work)
  BY <1>1 DEF LoweringInv, IsBlockOf
<1>3. DslInv' /\ InputInv' /\ module' \in Seq(LoweredFunctions)
  BY <1>1, InputKept
<1>4. PICK S : Works(S, table, work, ir)
  BY <1>2 DEF WorkInv
<1>5. work # <<>> /\ work \in Seq(PendingOf(S)) /\ EndsInBlocks(work, ir) /\ Closed(S, DOMAIN table)
  BY <1>4 DEF Works
<1>6. n \in Nat \ {0} /\ DOMAIN work = 1 .. n /\ w = work[n] /\ w \in PendingOf(S) /\ n = Len(work)
  BY <1>5 DEF Innermost
<1> HIDE DEF n, w
<1>7. n # 1 /\ IsBlockOf(ir, w.target) /\ IsBlockOf(ir, w.after)
  BY <1>1, <1>5, <1>6 DEF EndsInBlocks
<1>8. Len(ir.blocks) \in Nat /\ DOMAIN ir.blocks = 1 .. Len(ir.blocks)
  BY <1>2, FnParts DEF Growing
<1>9. w.target \in 0 .. Len(ir.blocks) - 1 /\ w.after \in 0 .. Len(ir.blocks) - 1
      /\ w.target \in Nat /\ w.after \in Nat
  BY <1>7, <1>8 DEF IsBlockOf
<1>10. x \in Instr /\ x.output = None /\ x.inputs = <<>> /\ Targets(x) = {w.target} /\ IsTerminator(x)
  BY <1>9, JumpParts
<1> HIDE DEF x
<1>11. InstrSound(ir, x)
  BY <1>9, <1>10 DEF InstrSound
<1>12. /\ Growing(g) /\ Kept(ir, g) /\ Len(g.blocks) = Len(ir.blocks)
       /\ Terminated(g.blocks[block + 1])
  BY <1>2, <1>10, <1>11, EmitSilent
<1> HIDE DEF g
<1>13. TableSound(g, table)
  BY <1>2, <1>12, TableKept
<1>14. DOMAIN g.blocks = DOMAIN ir.blocks
  BY <1>8, <1>12, FnParts DEF Growing
<1>15. EndsInBlocks(work, g)
  BY <1>5, <1>12 DEF EndsInBlocks, IsBlockOf
<1>16. ASSUME NEW b \in DOMAIN g.blocks, ~Terminated(g.blocks[b])
       PROVE  \E k \in DOMAIN work : b - 1 \in Expected(work[k])
  <2>1. ~Terminated(ir.blocks[b]) /\ b \in 1 .. Len(ir.blocks)
    BY <1>8, <1>12, <1>14, <1>16 DEF Kept
  <2>2. b # block + 1
    BY <1>12, <1>16
  <2>3. b - 1 # block
    BY <2>1, <2>2, <1>2
  <2> QED BY <2>1, <2>3, <1>2, <1>8 DEF GoesOn
<1>17. block' \in Nat /\ IsBlockOf(ir', block')
  BY <1>1, <1>7, <1>9, <1>12 DEF IsBlockOf
<1>20. NamesInv'
  BY <1>1, <1>12, NameKept DEF Kept
<1>18. CASE w.kind = "then"
  <2>1. else \in PendingOf(S) /\ else.kind = "else" /\ else.target = w.target /\ else.after = w.target
    BY <1>6, <1>9 DEF Pending, PendingOf, BodyKind, Optional
  <2> HIDE DEF else
  <2>2. /\ replaced \in Seq(PendingOf(S)) /\ DOMAIN replaced = DOMAIN work /\ Len(replaced) = n
        /\ \A k \in DOMAIN work : replaced[k] = IF k = n THEN else ELSE work[k]
    BY <1>5, <1>6, <2>1
  <2>3. work' = replaced
    BY <1>1, <1>18
  <2> HIDE DEF replaced
  <2>4. replaced # <<>>
    BY <1>6, <2>2
  <2>5. EndsInBlocks(replaced, g)
    <3> SUFFICES ASSUME NEW k \in DOMAIN work
                 PROVE  IF k = 1 THEN replaced[k].kind = "function" /\ replaced[k].after = None
                        ELSE /\ replaced[k].kind # "function"
                             /\ IsBlockOf(g, replaced[k].target) /\ IsBlockOf(g, replaced[k].after)
      BY <2>2 DEF EndsInBlocks
    <3>1. CASE k = n
      BY <3>1, <1>7, <1>12, <2>1, <2>2 DEF IsBlockOf
    <3>2. CASE k # n
      BY <3>2, <1>15, <2>2 DEF EndsInBlocks
    <3> QED BY <3>1, <3>2
  <2>6. WorkInv'
    BY <1>1, <1>5, <2>2, <2>3, <2>4, <2>5 DEF WorkInv, Works
  <2>7. GoesOn(ir', block', work')
    <3> SUFFICES ASSUME NEW b \in DOMAIN g.blocks, ~Terminated(g.blocks[b]), b - 1 # w.after
                 PROVE  \E k \in DOMAIN replaced : b - 1 \in Expected(replaced[k])
      BY <1>1, <2>3 DEF GoesOn
    <3>1. PICK k \in DOMAIN work : b - 1 \in Expected(work[k])
      BY <1>16
    <3>2. b - 1 \in Expected(replaced[k])
      <4>1. CASE k = n
        <5>1. b - 1 = w.target
          BY <3>1, <4>1, <1>6 DEF Expected
        <5>2. replaced[k] = else
          BY <4>1, <2>2
        <5> QED BY <5>1, <5>2, <2>1 DEF Expected
      <4>2. CASE k # n
        BY <3>1, <4>2, <2>2
      <4> QED BY <4>1, <4>2
    <3> QED BY <3>1, <3>2, <2>2
  <2> QED BY <1>1, <1>2, <1>3, <1>12, <1>13, <1>17, <1>20, <2>6, <2>7 DEF LoweringInv, Phase
<1>19. CASE w.kind # "then"
  <2>1. /\ rest \in Seq(PendingOf(S)) /\ Len(rest) = n - 1 /\ DOMAIN rest = 1 .. (n - 1)
        /\ \A k \in 1 .. (n - 1) : rest[k] = work[k]
    BY <1>5, <1>6
  <2>2. work' = rest
    BY <1>1, <1>19
  <2> HIDE DEF rest
  <2>3. rest # <<>>
    BY <1>6, <1>7, <2>1
  <2>4. EndsInBlocks(rest, g)
    BY <1>6, <1>15, <2>1 DEF EndsInBlocks
  <2>5. WorkInv'
    BY <1>1, <1>5, <2>1, <2>2, <2>3, <2>4 DEF WorkInv, Works
  <2>6. GoesOn(ir', block', work')
    <3> SUFFICES ASSUME NEW b \in DOMAIN g.blocks, ~Terminated(g.blocks[b]), b - 1 # w.after
                 PROVE  \E k \in DOMAIN rest : b - 1 \in Expected(rest[k])
      BY <1>1, <2>2 DEF GoesOn
    <3>1. PICK k \in DOMAIN work : b - 1 \in Expected(work[k])
      BY <1>16
    <3>2. k # n
      BY <3>1, <1>6, <1>19 DEF Expected
    <3>3. k \in 1 .. (n - 1)
      BY <3>1, <3>2, <1>6
    <3> QED BY <3>1, <3>3, <2>1
  <2> QED BY <1>1, <1>2, <1>3, <1>12, <1>13, <1>17, <1>20, <2>5, <2>6 DEF LoweringInv, Phase
<1> QED BY <1>18, <1>19

\* The function's own body ends: one block at most is left open, the current.
LEMMA EndFunctionLowering == LoweringInv /\ EndFunction => LoweringInv'
<1> SUFFICES ASSUME LoweringInv, EndFunction PROVE LoweringInv'
  OBVIOUS
<1> DEFINE fn == [name |-> ir.name, blocks |-> ir.blocks, values |-> ir.values,
                  blockIndex |-> RebuildBlockIndex(ir.blocks)]
<1>1. /\ phase = "statements" /\ Innermost.kind = "function"
      /\ module' = Append(module, fn) /\ work' = <<>>
      /\ phase' = IF Len(module') = Len(input) THEN "built" ELSE "begin"
      /\ UNCHANGED <<dslVars, input, ir, table, declared, block>>
  BY DEF EndFunction
<1>2. /\ DslInv /\ InputInv /\ module \in Seq(LoweredFunctions)
      /\ Growing(ir) /\ IsBlockOf(ir, block) /\ declared \in Nat /\ block \in Nat
      /\ Len(module) < Len(input) /\ WorkInv /\ GoesOn(ir, block, work)
  BY <1>1 DEF LoweringInv
<1>3. PICK S : Works(S, table, work, ir)
  BY <1>2 DEF WorkInv
<1>4. DOMAIN work = {1} /\ work[1].kind = "function" /\ work[1].after = None
  <2>1. work # <<>> /\ work \in Seq(PendingOf(S)) /\ EndsInBlocks(work, ir)
    BY <1>3 DEF Works
  <2>2. Len(work) \in Nat \ {0} /\ DOMAIN work = 1 .. Len(work)
    BY <2>1
  <2>3. Len(work) = 1
    BY <1>1, <2>1, <2>2 DEF EndsInBlocks, Innermost
  <2> QED BY <2>1, <2>2, <2>3 DEF EndsInBlocks
<1>5. FnSound(ir) /\ DOMAIN ir.blocks \subseteq Nat
  BY <1>2, FnParts DEF Growing
<1>6. ASSUME NEW b \in DOMAIN ir.blocks PROVE Terminated(ir.blocks[b]) \/ b - 1 = block
  <2>1. ASSUME NEW k \in DOMAIN work, b - 1 \in Expected(work[k]) PROVE FALSE
    <3>1. b - 1 = None
      BY <2>1, <1>4 DEF Expected
    <3>2. b \in 1 .. Len(ir.blocks)
      BY <1>5, FnParts
    <3>3. b - 1 \in Nat
      BY <3>2
    <3> QED BY <3>1, <3>3, NoneAssumption
  <2> QED BY <2>1, <1>2 DEF GoesOn
<1>7. OneOpenEnd(ir)
  BY <1>5, <1>6, <1>2 DEF OneOpenEnd
<1>8. /\ fn.name = ir.name /\ fn.blocks = ir.blocks /\ fn.values = ir.values
      /\ fn.blockIndex = RebuildBlockIndex(ir.blocks)
  OBVIOUS
<1>9. fn \in LoweredFunctions
  <2>1. fn \in [name : Name, blocks : Seq(Block), values : Seq(Values), blockIndex : Indexes]
    BY <1>5 DEF FnSound, Indexes
  <2> HIDE DEF fn
  <2>2. FnSound(fn)
    <3>1. fn.name \in Name /\ fn.blocks \in Seq(Block) /\ fn.values \in Seq(Values) /\ IdsCount(fn)
      BY <1>5, <1>8 DEF FnSound, IdsCount
    <3>2. InstrsSound(fn)
      <4>1. \A x : InstrSound(fn, x) <=> InstrSound(ir, x)
        BY <1>8 DEF InstrSound
      <4>2. InstrsSound(ir)
        BY <1>5 DEF FnSound
      <4> QED BY <1>8, <4>1, <4>2 DEF InstrsSound, InstrAt
    <3>3. WritesOnce(fn)
      BY <1>5, <1>8 DEF FnSound, WritesOnce, InstrAt
    <3> QED BY <3>1, <3>2, <3>3 DEF FnSound
  <2>3. OneOpenEnd(fn)
    BY <1>7, <1>8 DEF OneOpenEnd
  <2> QED BY <2>1, <2>2, <2>3, <1>8 DEF LoweredFunctions
<1> HIDE DEF fn
<1>10. module' \in Seq(LoweredFunctions) /\ Len(module') = Len(module) + 1 /\ Len(module) \in Nat
  BY <1>1, <1>2, <1>9
<1>11. phase' = "begin" => Len(module') < Len(input')
  <2>1. Len(input) \in Nat /\ Len(module) < Len(input)
    BY <1>2 DEF InputInv
  <2>2. Len(module') <= Len(input) /\ Len(module') \in Nat
    BY <2>1, <1>10
  <2>3. phase' = "begin" => Len(module') # Len(input)
    BY <1>1
  <2>4. input' = input
    BY <1>1
  <2> QED BY <2>1, <2>2, <2>3, <2>4
<1>12. DslInv' /\ InputInv'
  BY <1>1, <1>2 DEF DslInv, dslVars, InputInv
<1>13. phase' \in {"built", "begin"}
  BY <1>1
<1>14. NamesInv'
  <2>1. fn.name = input[Len(module) + 1].name
    BY <1>1, <1>8 DEF LoweringInv, NamesInv, Function
  <2>2. module \in Seq(LoweredFunctions) /\ module' = Append(module, fn) /\ input' = input
    BY <1>1, <1>2
  <2>3. \A k \in DOMAIN module : module[k].name = input[k].name
    BY DEF LoweringInv, NamesInv
  <2>4. \A k \in DOMAIN module' : k \in DOMAIN module \/ k = Len(module) + 1
    BY <2>2, <1>10
  <2>5. module'[Len(module) + 1] = fn /\ \A k \in DOMAIN module : module'[k] = module[k]
    BY <2>2, <1>9
  <2> QED BY <2>1, <2>2, <2>3, <2>4, <2>5, <1>13 DEF NamesInv
<1> QED BY <1>1, <1>2, <1>10, <1>11, <1>12, <1>13, <1>14 DEF LoweringInv, Phase

LEMMA LoweringStutter == LoweringInv /\ UNCHANGED <<dslVars, loweringVars>> => LoweringInv'
<1> SUFFICES ASSUME LoweringInv, UNCHANGED <<dslVars, loweringVars>> PROVE LoweringInv'
  OBVIOUS
<1>1. UNCHANGED <<dslVars, input, module, ir, table, declared, work, block, phase>>
  BY DEF loweringVars
<1>2. DslInv' /\ InputInv' /\ module' \in Seq(LoweredFunctions) /\ Function' = Function
  BY <1>1, InputKept
<1>3. (phase = "declare" => DeclareInv) => (phase' = "declare" => DeclareInv')
  BY <1>1, <1>2 DEF DeclareInv
<1>4. WorkInv => WorkInv'
  BY <1>1 DEF WorkInv
<1>5. NamesInv'
  BY <1>1, <1>2 DEF LoweringInv, NamesInv
<1> QED BY <1>1, <1>2, <1>3, <1>4, <1>5 DEF LoweringInv

LEMMA NextLowering == LoweringInv /\ [LoweringNext]_<<dslVars, loweringVars>> => LoweringInv'
<1> SUFFICES ASSUME LoweringInv, [LoweringNext]_<<dslVars, loweringVars>> PROVE LoweringInv'
  OBVIOUS
<1>1. CASE phase = "dsl" /\ DslNext /\ UNCHANGED loweringVars
  BY <1>1, DslLowering
<1>2. CASE Build
  BY <1>2, BuildLowering
<1>3. CASE BeginFunction
  BY <1>3, BeginFunctionLowering
<1>4. CASE DeclareVariable
  BY <1>4, DeclareVariableLowering
<1>5. CASE BeginStatements
  BY <1>5, BeginStatementsLowering
<1>6. CASE LowerAssign
  BY <1>6, AssignLowering
<1>7. CASE LowerReturn
  BY <1>7, ReturnLowering
<1>8. CASE LowerCall
  BY <1>8, CallLowering
<1>9. CASE LowerWhile
  BY <1>9, WhileLowering
<1>10. CASE LowerIf
  BY <1>10, IfLowering
<1>11. CASE EndBody
  BY <1>11, EndBodyLowering
<1>12. CASE EndFunction
  BY <1>12, EndFunctionLowering
<1>13. CASE UNCHANGED <<dslVars, loweringVars>>
  BY <1>13, LoweringStutter
<1> QED BY <1>1, <1>2, <1>3, <1>4, <1>5, <1>6, <1>7, <1>8, <1>9, <1>10, <1>11, <1>12, <1>13
        DEF LoweringNext, LoweringStep

LEMMA SpecLowering == LoweringSpec => []LoweringInv
<1>1. LoweringInit => LoweringInv
  BY InitLowering
<1>2. LoweringInv /\ [LoweringNext]_<<dslVars, loweringVars>> => LoweringInv'
  BY NextLowering
<1> QED BY <1>1, <1>2, PTL DEF LoweringSpec

\* What there is of a function, lowered or in progress.
LEMMA IRFunctionSound ==
  ASSUME LoweringInv, NEW fn \in IRFunctions
  PROVE  FnSound(fn)
<1>1. module \in Seq(LoweredFunctions) /\ (InProgress => Growing(ir))
  BY DEF LoweringInv, InProgress
<1>2. CASE fn = ir /\ InProgress
  BY <1>1, <1>2 DEF Growing
<1>3. CASE fn \in {module[k] : k \in DOMAIN module}
  <2>1. fn \in LoweredFunctions
    BY <1>1, <1>3
  <2> QED BY <2>1 DEF LoweredFunctions
<1> QED BY <1>2, <1>3 DEF IRFunctions

LEMMA InstrOf ==
  ASSUME NEW fn, FnSound(fn), NEW x \in InstrsOf(fn)
  PROVE  x \in Instr /\ InstrSound(fn, x)
<1>1. PICK b \in DOMAIN fn.blocks : \E i \in DOMAIN fn.blocks[b].instrs : x = fn.blocks[b].instrs[i]
  BY DEF InstrsOf
<1>2. PICK i \in DOMAIN fn.blocks[b].instrs : x = InstrAt(fn, b, i)
  BY <1>1 DEF InstrAt
<1> QED BY <1>2, FnParts

\* What the lowering emits is IR as IRTypes.hpp describes it, and every value
\* it names was allocated, whatever the functions of the program are.
THEOREM LoweredIsTyped == LoweringSpec => []LoweringTypeOK
<1>1. LoweringInv => LoweringTypeOK
  <2> SUFFICES ASSUME LoweringInv PROVE LoweringTypeOK
    OBVIOUS
  <2>1. phase \in Phase /\ block \in Nat /\ declared \in Nat
    BY DEF LoweringInv
  <2>2. ASSUME InProgress PROVE block < Len(ir.blocks)
    <3>1. Growing(ir) /\ IsBlockOf(ir, block)
      BY <2>2 DEF LoweringInv, InProgress
    <3>2. Len(ir.blocks) \in Nat
      BY <3>1, FnParts DEF Growing
    <3> QED BY <3>1, <3>2 DEF IsBlockOf
  <2>3. ASSUME NEW fn \in IRFunctions
        PROVE  /\ fn.blocks \in Seq(IRBlock(RegValue)) /\ fn.values \in Seq(Optional(RegValue))
               /\ \A instr \in InstrsOf(fn) :
                    /\ \A k \in DOMAIN instr.inputs : instr.inputs[k] < Len(fn.values)
                    /\ instr.output # None => instr.output < Len(fn.values)
    <3>1. FnSound(fn)
      BY IRFunctionSound
    <3>2. \A instr \in InstrsOf(fn) : InstrSound(fn, instr)
      BY <3>1, InstrOf
    <3> QED BY <3>1, <3>2 DEF FnSound, InstrSound, Block, Values
  <2> QED BY <2>1, <2>2, <2>3 DEF LoweringTypeOK
<1> QED BY <1>1, SpecLowering, PTL

\* Every branch that the lowering emits leads to a block of the function, under
\* the id that is the block's index.
THEOREM LoweredBranchesLand == LoweringSpec => []LoweredTargetsExist
<1>1. LoweringInv => LoweredTargetsExist
  <2> SUFFICES ASSUME LoweringInv, NEW fn \in IRFunctions
               PROVE  /\ \A b \in DOMAIN fn.blocks : fn.blocks[b].id = b - 1
                      /\ \A instr \in InstrsOf(fn) : \A t \in Targets(instr) : t \in 0 .. Len(fn.blocks) - 1
    BY DEF LoweredTargetsExist
  <2>1. FnSound(fn)
    BY IRFunctionSound
  <2>2. \A instr \in InstrsOf(fn) : InstrSound(fn, instr)
    BY <2>1, InstrOf
  <2> QED BY <2>1, <2>2 DEF FnSound, IdsCount, InstrSound
<1> QED BY <1>1, SpecLowering, PTL

\* Control falls off the end of a block only where a function ends.
THEOREM LoweredFallsThroughOnce == LoweringSpec => []NoFallThrough
<1>1. LoweringInv => NoFallThrough
  <2> SUFFICES ASSUME LoweringInv PROVE NoFallThrough
    OBVIOUS
  <2>1. ASSUME InProgress, NEW b \in DOMAIN ir.blocks
        PROVE  \/ Terminated(ir.blocks[b]) \/ b - 1 = block
               \/ \E k \in DOMAIN work : b - 1 \in Expected(work[k])
    <3>1. CASE phase = "declare"
      <4>1. Growing(ir) /\ DeclareInv
        BY <3>1 DEF LoweringInv
      <4>2. DOMAIN ir.blocks = 1 .. 1 /\ block = 0
        BY <4>1, FnParts DEF Growing, DeclareInv
      <4> QED BY <4>2
    <3>2. CASE phase = "statements"
      BY <3>2 DEF LoweringInv, GoesOn
    <3> QED BY <2>1, <3>1, <3>2 DEF InProgress
  <2>2. ASSUME NEW k \in DOMAIN module PROVE OneOpenEnd(module[k])
    <3>1. module \in Seq(LoweredFunctions)
      BY DEF LoweringInv
    <3>2. module[k] \in LoweredFunctions
      BY <3>1
    <3> QED BY <3>2 DEF LoweredFunctions
  <2> QED BY <2>1, <2>2 DEF NoFallThrough, OneOpenEnd
<1> QED BY <1>1, SpecLowering, PTL

\* A value with a constant is written as that constant and as nothing else.
THEOREM LoweredConstantsAreConstants == LoweringSpec => []VariablesHaveNoConstant
<1>1. LoweringInv => VariablesHaveNoConstant
  <2> SUFFICES ASSUME LoweringInv, NEW fn \in IRFunctions, NEW instr \in InstrsOf(fn),
                      instr.output # None, fn.values[instr.output + 1] # None
               PROVE  instr.op = "Const" /\ instr.constVal = fn.values[instr.output + 1]
    BY DEF VariablesHaveNoConstant
  <2>1. FnSound(fn)
    BY IRFunctionSound
  <2>2. InstrSound(fn, instr)
    BY <2>1, InstrOf
  <2> QED BY <2>2 DEF InstrSound
<1> QED BY <1>1, SpecLowering, PTL

(***************************************************************************)
(* What the optimizer is handed.                                           *)
(***************************************************************************)
NoFold(op, kind, l, r) == {}
NoFold1(op, v) == None
NotInt(v) == FALSE

\* The optimizer's terms for a module of lowered functions.
Handed == INSTANCE Optimizer WITH
  Programs <- {}, PassLists <- {}, MaxRuns <- 0,
  FoldBinary <- NoFold, FoldUnary1 <- NoFold1, IsInt <- NotInt, IsTrue <- NotInt,
  source <- module, functions <- module, passes <- <<>>, fired <- <<>>, runs <- 0,
  current <- 1, pass <- 1, changed <- FALSE, touched <- FALSE, cursor <- <<1, 1>>,
  used <- {}, reached <- {}, worklist <- <<>>, phase <- "start"

LEMMA HandedSound ==
  ASSUME NEW fn \in LoweredFunctions
  PROVE  /\ Handed!WellTyped(fn) /\ Handed!ConstantIsDefinition(fn) /\ Handed!SingleWriter(fn)
         /\ Handed!UniqueIds(fn) /\ \A b \in DOMAIN fn.blocks : Handed!BranchesLand(fn, b)
<1>1. FnSound(fn)
  BY DEF LoweredFunctions
<1>2. /\ Len(fn.blocks) \in Nat /\ DOMAIN fn.blocks = 1 .. Len(fn.blocks) /\ Len(fn.values) \in Nat
      /\ \A b \in DOMAIN fn.blocks :
           /\ fn.blocks[b].id = b - 1
           /\ \A i \in DOMAIN fn.blocks[b].instrs :
                InstrAt(fn, b, i) \in Instr /\ InstrSound(fn, InstrAt(fn, b, i))
  BY <1>1, FnParts
<1>3. Handed!WellTyped(fn)
  <2>1. fn.blocks \in Seq(Handed!IRBlock(RegValue)) /\ fn.values \in Seq(Handed!Optional(RegValue))
    <3>1. Handed!IRBlock(RegValue) = Block
      BY DEF Block, IRBlock, IRInstr, IROp, BinaryOp, UnaryOp, CmpKind, Optional,
             Handed!IRBlock, Handed!IRInstr, Handed!IROp, Handed!BinaryOp, Handed!UnaryOp,
             Handed!CmpKind, Handed!Optional
    <3>2. Handed!Optional(RegValue) = Values
      BY DEF Values, Optional, Handed!Optional
    <3> QED BY <1>1, <3>1, <3>2 DEF FnSound
  <2>2. ASSUME NEW b \in DOMAIN fn.blocks, NEW i \in DOMAIN fn.blocks[b].instrs,
               InstrAt(fn, b, i).output # None
        PROVE  InstrAt(fn, b, i).output < Len(fn.values)
    BY <1>2, <2>2 DEF InstrSound
  <2> QED BY <2>1, <2>2 DEF Handed!WellTyped, Handed!InstrAt, InstrAt
<1>4. Handed!ConstantIsDefinition(fn)
  BY <1>2 DEF Handed!ConstantIsDefinition, Handed!Constant, Handed!InstrAt, InstrAt, InstrSound
<1>5. Handed!SingleWriter(fn)
  BY <1>1 DEF Handed!SingleWriter, Handed!FoldableOp, Handed!InstrAt, InstrAt, FnSound, WritesOnce, Computes
<1>6. Handed!UniqueIds(fn)
  BY <1>2 DEF Handed!UniqueIds
<1>7. \A b \in DOMAIN fn.blocks : Handed!BranchesLand(fn, b)
  <2> SUFFICES ASSUME NEW b \in DOMAIN fn.blocks, NEW i \in DOMAIN fn.blocks[b].instrs,
                      NEW id \in Targets(InstrAt(fn, b, i))
               PROVE  \E c \in DOMAIN fn.blocks : fn.blocks[c].id = id
    BY DEF Handed!BranchesLand, Handed!IsBlockId, Handed!InstrAt, InstrAt, Handed!Targets, Targets
  <2>1. id \in 0 .. Len(fn.blocks) - 1
    BY <1>2 DEF InstrSound
  <2>2. id + 1 \in DOMAIN fn.blocks /\ fn.blocks[id + 1].id = id
    BY <1>2, <2>1
  <2> QED BY <2>2
<1> QED BY <1>3, <1>4, <1>5, <1>6, <1>7

\* What the optimizer assumes of a module (OptimizerAssumption) holds of every
\* module the lowering makes, of any functions: its ids are unique, its branches
\* land, and what an operation computes is written once and has no constant
\* until the optimizer finds one.
THEOREM LoweredIsOptimizable ==
  LoweringSpec =>
    [](\A k \in DOMAIN module :
         /\ Handed!WellTyped(module[k]) /\ Handed!ConstantIsDefinition(module[k])
         /\ Handed!SingleWriter(module[k]) /\ Handed!UniqueIds(module[k])
         /\ \A b \in DOMAIN module[k].blocks : Handed!BranchesLand(module[k], b)
         /\ module[k].blockIndex = RebuildBlockIndex(module[k].blocks))
<1> DEFINE Sound == \A k \in DOMAIN module :
         /\ Handed!WellTyped(module[k]) /\ Handed!ConstantIsDefinition(module[k])
         /\ Handed!SingleWriter(module[k]) /\ Handed!UniqueIds(module[k])
         /\ \A b \in DOMAIN module[k].blocks : Handed!BranchesLand(module[k], b)
         /\ module[k].blockIndex = RebuildBlockIndex(module[k].blocks)
<1>1. LoweringInv => Sound
  <2> SUFFICES ASSUME LoweringInv, NEW k \in DOMAIN module
               PROVE  /\ Handed!WellTyped(module[k]) /\ Handed!ConstantIsDefinition(module[k])
                      /\ Handed!SingleWriter(module[k]) /\ Handed!UniqueIds(module[k])
                      /\ \A b \in DOMAIN module[k].blocks : Handed!BranchesLand(module[k], b)
                      /\ module[k].blockIndex = RebuildBlockIndex(module[k].blocks)
    OBVIOUS
  <2>1. module \in Seq(LoweredFunctions)
    BY DEF LoweringInv
  <2>2. module[k] \in LoweredFunctions
    BY <2>1
  <2>3. module[k].blockIndex = RebuildBlockIndex(module[k].blocks)
    BY <2>2 DEF LoweredFunctions
  <2> QED BY <2>2, <2>3, HandedSound
<1> QED BY <1>1, SpecLowering, PTL
=============================================================================
