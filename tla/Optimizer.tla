----------------------------- MODULE Optimizer -----------------------------
(***************************************************************************)
(* The optimizer (Optimizer.cpp and the four passes it registers): each    *)
(* function of a module is rewritten in place by the passes of the chosen  *)
(* level, over and over until a whole round changes nothing.               *)
(*                                                                         *)
(* A pass is a loop over instructions, or over blocks, that rewrites what  *)
(* later iterations read.  Each iteration is an action, so the invariants  *)
(* speak of a function half rewritten as well.                             *)
(*                                                                         *)
(* Definitions named Faulty... are slips the code could have made; nothing *)
(* uses them but the mutation runs, to show that a property can fail.      *)
(***************************************************************************)
EXTENDS IR, FiniteSets

CONSTANTS Programs,  \* the modules to optimize: sequences of functions
          PassLists, \* the pass lists to optimize them with
          MaxRuns,   \* bound: how often the optimizer is run on a module
          RegValue,  \* constants, and the operations on them
          FoldBinary(_, _, _, _), FoldUnary1(_, _), IsInt(_), IsTrue(_)

VARIABLES source,    \* the module as it was before the first run (not in the code)
          functions, \* the module's functions, with their block index
          passes,    \* m_passes
          fired,     \* m_lastFiredPasses
          runs,      \* how often the optimizer was run
          current,   \* the function being optimized
          pass,      \* its pass that runs, or is about to
          changed,   \* a pass of this round has reported a change
          touched,   \* the running pass has changed the function
          cursor,    \* the block and the instruction the running pass looks at
          used,      \* dead-code elimination: usedValueIds
          reached, worklist, \* unreachable-block elimination: ids found, ids to visit
          phase      \* what the optimizer is doing

vars == <<source, functions, passes, fired, runs, current, pass, changed, touched, cursor,
          used, reached, worklist, phase>>

\* setLevel.  Experimental has the passes of Aggressive.
NoPasses    == <<>>
Basic       == <<"constant-folding", "dead-code-elim">>
Aggressive  == Basic \o <<"unreachable-block-elim", "jump-simplification">>
Levels      == {NoPasses, Basic, Aggressive}
PassNames   == {"constant-folding", "dead-code-elim", "unreachable-block-elim",
                "jump-simplification"}

Phase == {"start", "visit", "worklist", "done", "killed"}

---------------------------------------------------------------------------
HasInstr(f, b, i) == b \in DOMAIN f.blocks /\ i \in DOMAIN f.blocks[b].instrs
InstrAt(f, b, i)  == f.blocks[b].instrs[i]
Constant(f, id)   == IF id < Len(f.values) THEN f.values[id + 1] ELSE None
IsBlockId(f, id)  == \E b \in DOMAIN f.blocks : f.blocks[b].id = id

\* The sequence without its k-th element.
Without(seq, k) ==
  [j \in 1 .. Len(seq) - 1 |-> IF j < k THEN seq[j] ELSE seq[j + 1]]

---------------------------------------------------------------------------
\* ConstantFolding: the constants an instruction may be replaced by, None if
\* it is left alone.
FoldableOp == {"Add", "Sub", "Mul", "Div", "Mod", "And", "Or", "Xor", "Neg", "Not", "Cmp"}

Folded(f, instr) ==
  LET operand(k) == Constant(f, instr.inputs[k])
      all == instr.inputs # <<>> /\ \A k \in DOMAIN instr.inputs : operand(k) # None
  IN  IF ~all \/ instr.output = None \/ instr.op \notin FoldableOp THEN {None}
      ELSE IF Len(instr.inputs) = 1 THEN {FoldUnary1(instr.op, operand(1))}
      ELSE IF Len(instr.inputs) = 2 /\ IsInt(operand(1)) /\ IsInt(operand(2))
           THEN FoldBinary(instr.op, instr.cmpKind, operand(1), operand(2))
      ELSE {None}

FaultyFoldInstr(f, b, i, c) ==
  LET instr == InstrAt(f, b, i)
      const == [instr EXCEPT !.op = "Const", !.constVal = c, !.inputs = <<>>]
  IN  [f EXCEPT !.blocks[b].instrs[i] = const, !.values[instr.inputs[1] + 1] = c]

\* A binary instruction loses its comparison kind, too.
FoldInstr(f, b, i, c) ==
  LET instr == InstrAt(f, b, i)
      const == [instr EXCEPT !.op = "Const", !.constVal = c, !.inputs = <<>>,
                             !.cmpKind = IF Len(instr.inputs) = 2 THEN None ELSE @]
  IN  [f EXCEPT !.blocks[b].instrs[i] = const, !.values[instr.output + 1] = c]

FaultyUsedValueIds(f) ==
  UNION { {f.blocks[b].instrs[i].inputs[1] :
             i \in {j \in DOMAIN f.blocks[b].instrs : f.blocks[b].instrs[j].inputs # <<>>}} :
          b \in DOMAIN f.blocks }

\* DeadCodeElim: the ids some instruction reads, and the instructions whose
\* output none of them does.
UsedValueIds(f) ==
  UNION { UNION { {f.blocks[b].instrs[i].inputs[k] : k \in DOMAIN f.blocks[b].instrs[i].inputs} :
                  i \in DOMAIN f.blocks[b].instrs } : b \in DOMAIN f.blocks }

NonElidableOp == {"Ret", "Jmp", "BrTrue", "Call", "Store"}

IsDead(instr, usedIds) ==
  instr.output # None /\ instr.op \notin NonElidableOp /\ instr.output \notin usedIds

\* JumpSimplification: a branch on a constant becomes a jump.
IsDecided(f, instr) ==
  instr.op = "BrTrue" /\ instr.inputs # <<>> /\ Constant(f, instr.inputs[1]) # None

FaultyDecideStaysBranch(f, instr) ==
  [instr EXCEPT !.falseTarget = None,
                !.trueTarget = IF IsTrue(Constant(f, instr.inputs[1])) THEN @ ELSE instr.falseTarget]

FaultyDecide(f, instr) ==
  [instr EXCEPT !.op = "Jmp", !.falseTarget = None, !.inputs = <<>>]

Decide(f, instr) ==
  [instr EXCEPT !.op = "Jmp", !.falseTarget = None, !.inputs = <<>>,
                !.trueTarget = IF IsTrue(Constant(f, instr.inputs[1])) THEN @ ELSE instr.falseTarget]

---------------------------------------------------------------------------
Init ==
  /\ source \in Programs /\ functions = source
  /\ passes \in PassLists
  /\ fired = <<>> /\ runs = 1
  /\ current = 1 /\ pass = 1 /\ changed = FALSE /\ touched = FALSE
  /\ cursor = <<1, 1>> /\ used = {} /\ reached = {} /\ worklist = {}
  /\ phase = IF source = <<>> THEN "done" ELSE "start"

Fn == functions[current]
B  == cursor[1]
I  == cursor[2]

Running(name) == phase = "visit" /\ passes[pass] = name

\* The running pass rewrites the function to f, and looks at pos next.
Rewrite(f, pos) ==
  /\ functions' = [functions EXCEPT ![current] = f]
  /\ touched' = TRUE /\ cursor' = pos
  /\ UNCHANGED <<source, passes, fired, runs, current, pass, changed, used, reached, worklist,
                 phase>>

SkipTo(pos) ==
  /\ cursor' = pos
  /\ UNCHANGED <<source, functions, passes, fired, runs, current, pass, changed, touched, used,
                 reached, worklist, phase>>

FaultyWorklistSeed(f) == {f.blocks[b].id : b \in DOMAIN f.blocks \cap {Len(f.blocks)}}

\* Reachability starts from the first block, if there is one.
WorklistSeed(f) == {f.blocks[b].id : b \in DOMAIN f.blocks \cap {1}}

\* runFixpoint calls the next pass of the round; a pass computes what its loop
\* needs before it rewrites anything.
StartPass ==
  /\ phase = "start" /\ pass \in DOMAIN passes
  /\ cursor' = <<1, 1>> /\ touched' = FALSE
  /\ used' = UsedValueIds(Fn)
  /\ reached' = WorklistSeed(Fn)
  /\ worklist' = reached'
  /\ phase' = IF passes[pass] = "unreachable-block-elim" THEN "worklist" ELSE "visit"
  /\ UNCHANGED <<source, functions, passes, fired, runs, current, pass, changed>>

FoldConstant ==
  /\ Running("constant-folding") /\ HasInstr(Fn, B, I)
  /\ \E c \in Folded(Fn, InstrAt(Fn, B, I)) :
       CASE c = None -> SkipTo(<<B, I + 1>>)
         [] c = Trap -> /\ phase' = "killed"
                        /\ UNCHANGED <<source, functions, passes, fired, runs, current, pass,
                                       changed, touched, cursor, used, reached, worklist>>
         [] OTHER    -> Rewrite(FoldInstr(Fn, B, I, c), <<B, I + 1>>)

EraseDeadInstr ==
  /\ Running("dead-code-elim") /\ HasInstr(Fn, B, I)
  /\ IF IsDead(InstrAt(Fn, B, I), used)
     THEN Rewrite([Fn EXCEPT !.blocks[B].instrs = Without(@, I)], cursor)
     ELSE SkipTo(<<B, I + 1>>)

SimplifyJump ==
  /\ Running("jump-simplification") /\ HasInstr(Fn, B, I)
  /\ IF IsDecided(Fn, InstrAt(Fn, B, I))
     THEN Rewrite([Fn EXCEPT !.blocks[B].instrs[I] = Decide(Fn, @)], <<B, I + 1>>)
     ELSE SkipTo(<<B, I + 1>>)

NextBlock ==
  /\ phase = "visit" /\ passes[pass] # "unreachable-block-elim"
  /\ B \in DOMAIN Fn.blocks /\ I \notin DOMAIN Fn.blocks[B].instrs
  /\ SkipTo(<<B + 1, 1>>)

FaultyBlockTargets(f, b) ==
  {f.blocks[b].instrs[i].trueTarget : i \in DOMAIN f.blocks[b].instrs} \ {None}

\* The ids any instruction of a block names, terminator or not.
BlockTargets(f, b) == UNION {Targets(f.blocks[b].instrs[i]) : i \in DOMAIN f.blocks[b].instrs}

\* findReachableBlockIds takes an id from its worklist.  The order of the
\* vector it is kept in does not matter, and is left out.
VisitReachable(id) ==
  LET b     == FindBlock(Fn, id)
      found == IF b = 0 THEN {} ELSE BlockTargets(Fn, b) \ reached
  IN  /\ phase = "worklist" /\ id \in worklist
      /\ reached' = reached \cup found
      /\ worklist' = (worklist \ {id}) \cup found
      /\ UNCHANGED <<source, functions, passes, fired, runs, current, pass, changed, touched,
                     cursor, used, phase>>

WorklistEmpty ==
  /\ phase = "worklist" /\ worklist = {}
  /\ phase' = "visit"
  /\ UNCHANGED <<source, functions, passes, fired, runs, current, pass, changed, touched,
                 cursor, used, reached, worklist>>

EraseUnreachableBlock ==
  /\ Running("unreachable-block-elim") /\ B \in DOMAIN Fn.blocks
  /\ IF Fn.blocks[B].id \in reached
     THEN SkipTo(<<B + 1, 1>>)
     ELSE Rewrite([Fn EXCEPT !.blocks = Without(@, B)], cursor)

FaultyFinished(f) == f

\* What a pass does to the function after its loop.
Finished(f) ==
  IF passes[pass] = "unreachable-block-elim" /\ touched
  THEN [f EXCEPT !.blockIndex = RebuildBlockIndex(f.blocks)]
  ELSE f

\* The pass returns whether it changed the function; runFixpoint notes it.
FinishPass ==
  /\ phase = "visit" /\ B \notin DOMAIN Fn.blocks
  /\ functions' = [functions EXCEPT ![current] = Finished(@)]
  /\ changed' = (changed \/ touched)
  /\ fired' = IF touched /\ \A k \in DOMAIN fired : fired[k] # passes[pass]
              THEN Append(fired, passes[pass]) ELSE fired
  /\ pass' = pass + 1
  /\ phase' = "start"
  /\ UNCHANGED <<source, passes, runs, current, touched, cursor, used, reached, worklist>>

FaultyAnotherRound == FALSE
AnotherRound == changed

FaultyIsLast == current > Len(functions)
IsLast == current = Len(functions)

\* The end of a round: another one if anything changed, else the next function.
EndRound ==
  /\ phase = "start" /\ pass \notin DOMAIN passes
  /\ pass' = 1 /\ changed' = FALSE
  /\ current' = IF AnotherRound \/ IsLast THEN current ELSE current + 1
  /\ phase' = IF ~AnotherRound /\ IsLast THEN "done" ELSE "start"
  /\ UNCHANGED <<source, functions, passes, fired, runs, touched, cursor, used, reached,
                 worklist>>

\* The optimizer is run on the module it has optimized.
RunAgain ==
  /\ phase = "done" /\ runs < MaxRuns /\ functions # <<>>
  /\ runs' = runs + 1
  /\ fired' = <<>> /\ current' = 1 /\ touched' = FALSE /\ phase' = "start"
  /\ UNCHANGED <<source, functions, passes, pass, changed, cursor, used, reached, worklist>>

OptimizerStep ==
  \/ StartPass
  \/ FoldConstant \/ EraseDeadInstr \/ SimplifyJump \/ NextBlock
  \/ (\E id \in worklist : VisitReachable(id)) \/ WorklistEmpty \/ EraseUnreachableBlock
  \/ FinishPass \/ EndRound

Next == OptimizerStep \/ RunAgain

Spec == Init /\ [][Next]_vars

\* The optimizer is a plain loop: it is not suspended for ever.
FairSpec == Spec /\ WF_vars(OptimizerStep)
---------------------------------------------------------------------------
\* Types of the optimizer's state, and of the IR it rewrites (IRTypes.hpp).
WellTyped(f) ==
  /\ f.blocks \in Seq(IRBlock(RegValue)) /\ f.values \in Seq(Optional(RegValue))
  /\ \A b \in DOMAIN f.blocks : \A i \in DOMAIN f.blocks[b].instrs :
       InstrAt(f, b, i).output # None => InstrAt(f, b, i).output < Len(f.values)

TypeOK ==
  /\ DOMAIN functions = DOMAIN source
  /\ \A k \in DOMAIN functions : WellTyped(functions[k])
  /\ phase \in Phase /\ changed \in BOOLEAN /\ touched \in BOOLEAN
  /\ phase # "done" => current \in DOMAIN functions
  /\ phase \in {"visit", "worklist"} => pass \in DOMAIN passes
  /\ runs \in Nat /\ pass \in Nat \ {0} /\ cursor \in (Nat \ {0}) \X (Nat \ {0})

\* A value that has a constant is that constant wherever it is computed: every
\* instruction that writes it is a Const with the same constant, so reading
\* the constant in place of the value (JumpSimplification, ConstantFolding,
\* Simulator::readValue) cannot read a stale one, even half way through a pass.
ConstantIsDefinition(f) ==
  \A b \in DOMAIN f.blocks : \A i \in DOMAIN f.blocks[b].instrs :
    LET instr == InstrAt(f, b, i)
    IN  (instr.output # None /\ Constant(f, instr.output) # None) =>
          instr.op = "Const" /\ instr.constVal = Constant(f, instr.output)

ConstantsSound == \A k \in DOMAIN functions : ConstantIsDefinition(functions[k])

\* The blocks of function k are being erased.
Erasing(k) ==
  k = current /\ phase = "visit" /\ touched /\ passes[pass] = "unreachable-block-elim"

\* A branch leads to a block that exists: the simulator never meets
\* UnreachableInstruction, and the emitter's label lookup never fails, because
\* of the optimizer.  While blocks are being erased that is true of those that
\* stay, though of a loop nothing leads to a part may be gone already.
BranchesLand(f, b) ==
  \A i \in DOMAIN f.blocks[b].instrs : \A t \in Targets(InstrAt(f, b, i)) : IsBlockId(f, t)

BranchTargetsExist ==
  \A k \in DOMAIN functions : \A b \in DOMAIN functions[k].blocks :
    (Erasing(k) /\ functions[k].blocks[b].id \notin reached) \/ BranchesLand(functions[k], b)

\* The entry block is never erased or displaced: the function still begins
\* where it began (IRFunction::entryBlock is the first block).
EntryKept ==
  \A k \in DOMAIN functions :
    source[k].blocks # <<>> =>
      functions[k].blocks # <<>> /\ functions[k].blocks[1].id = source[k].blocks[1].id

\* findBlock finds by index what a search would find, except while the blocks
\* of the function are being erased.
BlockIndexFresh ==
  \A k \in DOMAIN functions : LET f == functions[k] IN
    ~Erasing(k) => \A b \in DOMAIN f.blocks : FindBlock(f, f.blocks[b].id) = SearchBlock(f, f.blocks[b].id)

---------------------------------------------------------------------------
\* Block ids are not used twice (Function::newBlock counts them).
UniqueIds(f) ==
  \A b, c \in DOMAIN f.blocks : f.blocks[b].id = f.blocks[c].id => b = c

\* The result of an operation is written nowhere else: Lowering gives every
\* expression a value of its own, and writes a variable with Copy alone.
SingleWriter(f) ==
  \A b \in DOMAIN f.blocks : \A i \in DOMAIN f.blocks[b].instrs :
    (InstrAt(f, b, i).op \in FoldableOp /\ InstrAt(f, b, i).output # None) =>
      \A c \in DOMAIN f.blocks : \A j \in DOMAIN f.blocks[c].instrs :
        InstrAt(f, c, j).output = InstrAt(f, b, i).output => c = b /\ j = i

\* What Lowering hands to the optimizer: a function with a block index, or
\* with none, whose constants are those of its Const instructions.
Optimizable(f) ==
  /\ f \in [name : STRING, blocks : Seq(IRBlock(RegValue)), values : Seq(Optional(RegValue)),
            blockIndex : {<<>>, RebuildBlockIndex(f.blocks)}]
  /\ WellTyped(f) /\ ConstantIsDefinition(f) /\ SingleWriter(f) /\ UniqueIds(f)
  /\ \A b \in DOMAIN f.blocks : BranchesLand(f, b)

\* A fold gives a constant, or leaves the instruction alone; one whose C++
\* arithmetic is undefined may kill the process instead.
ASSUME OptimizerAssumption ==
  /\ MaxRuns \in Nat /\ PassLists \subseteq Seq(PassNames)
  /\ \A p \in Programs : p \in Seq({p[k] : k \in DOMAIN p}) /\ \A k \in DOMAIN p : Optimizable(p[k])
  /\ None \notin RegValue /\ Trap \notin RegValue /\ Trap # None
  /\ \A op \in FoldableOp, x \in RegValue : FoldUnary1(op, x) \in Optional(RegValue)
  /\ \A op \in FoldableOp, kind \in Optional(CmpKind), l, r \in RegValue :
       IsInt(l) /\ IsInt(r) =>
         LET results == FoldBinary(op, kind, l, r)
         IN  results \subseteq RegValue \cup {None, Trap} /\ (None \in results => results = {None})

---------------------------------------------------------------------------
\* runFixpoint stops at a fixpoint and not before: the optimizer run on its
\* own output changes nothing and reports that no pass fired.
SecondRunIsIdle == runs > 1 => fired = <<>> /\ ~touched /\ ~changed

\* What a function weighs: its blocks and instructions, those a pass may
\* still rewrite counted twice.
Weight(f) ==
  LET at(S) == UNION {{<<b, i>> : i \in {j \in DOMAIN f.blocks[b].instrs : InstrAt(f, b, j).op \in S}} :
                      b \in DOMAIN f.blocks}
  IN  Len(f.blocks) + Cardinality(at(IROp)) + Cardinality(at(FoldableOp \cup {"BrTrue"}))

\* Every change makes a function lighter, so passes that undo or feed each
\* other cannot keep runFixpoint going for ever.
EveryChangeShrinks ==
  [][\A k \in DOMAIN functions :
       functions'[k].blocks # functions[k].blocks => Weight(functions'[k]) < Weight(functions[k])]_vars

\* The optimizer comes to an end on every module (runFixpoint has no limit of
\* its own).
OptimizerReturns == []<>(phase \in {"done", "killed"})
===========================================================================
