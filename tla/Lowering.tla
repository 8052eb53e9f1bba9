----------------------------- MODULE Lowering -----------------------------
(***************************************************************************)
(* Lowering DSL functions to the intermediate representation               *)
(* (Lowering.cpp).  The mutual recursion of lowerStatements and            *)
(* lowerStatement is a stack of the statements still to be lowered; each   *)
(* action lowers one statement, or ends a body, and emits into the block   *)
(* that is current.  LoweringContext maps a block id to the block's index: *)
(* block k, counted from 0, has id k.                                      *)
(*                                                                         *)
(* Definitions named Faulty... are slips the code could have made; nothing *)
(* uses them but the mutation runs, to show that a property can fail.      *)
(***************************************************************************)
EXTENDS Dsl, SequencesExt

CONSTANTS OtherFunctions, \* functions of the program that were built before
          RegValue        \* constants

VARIABLES input,   \* the functions to lower
          module,  \* IRModule::functions so far
          ir,      \* m_function, the function being lowered: its blocks and values
          table,   \* m_variableTable: the canonical slots of variables
          declared,\* how many variables were given a slot
          work,    \* the bodies being lowered, innermost last
          block,   \* currentBlock
          phase    \* what lower() is doing

loweringVars == <<input, module, ir, table, declared, work, block, phase>>

Phase == {"dsl", "begin", "declare", "statements", "built"}

---------------------------------------------------------------------------
\* LoweringContext: allocValue, allocBlock, emit.
AllocValue(fn, c) == [fn EXCEPT !.values = Append(@, c)]
FaultyNextValue(fn) == Len(fn.values) + 1
NextValue(fn)     == Len(fn.values)
AllocBlock(fn)    == [fn EXCEPT !.blocks = Append(@, [id |-> Len(@), instrs |-> <<>>])]
FaultyNextBlock(fn) == Len(fn.blocks) + 1
NextBlock(fn)     == Len(fn.blocks)
\* setVariable.
SetVariable(tab, name, slot) ==
  [n \in DOMAIN tab \cup {name} |-> IF n = name THEN slot ELSE tab[n]]
Emit(fn, blk, instr) == [fn EXCEPT !.blocks[blk + 1].instrs = Append(@, instr)]

\* lowerExpression, one node at a time: the function and the variable table so
\* far, and the ids of the operands not yet consumed.
Node(fn, tab, operands) == [fn |-> fn, table |-> tab, operands |-> operands]
Result(s) == s.operands[Len(s.operands)]

LowerNode(s, blk, e) ==
  LET out  == NextValue(s.fn)
      n    == Len(s.operands)
      Produce(c, instr, tab, consumed) ==
        Node(Emit(AllocValue(s.fn, c), blk, instr), tab,
             Append(SubSeq(s.operands, 1, n - consumed), out))
  IN  CASE e.node = "const" -> Produce(e.value, MkConst(out, e.value), s.table, 0)
        [] e.node = "var" /\ e.variable.name \in DOMAIN s.table ->
             [s EXCEPT !.operands = Append(@, s.table[e.variable.name])]
        [] e.node = "var" /\ e.variable.name \notin DOMAIN s.table ->
             Produce(None, MkConst(out, e.variable.init),
                     SetVariable(s.table, e.variable.name, out), 0)
        [] e.node = "bin" ->
             Produce(None, MkBinary(e.op, out, s.operands[n - 1], s.operands[n]), s.table, 2)
        [] e.node = "unary" ->
             Produce(None, MkUnary(IF e.op = "Neg" THEN "Neg" ELSE "Not", out, s.operands[n]),
                     s.table, 1)

LowerExpression(s, blk, expression) ==
  LET after[n \in 0 .. Len(expression)] ==
        IF n = 0 THEN s ELSE LowerNode(after[n - 1], blk, expression[n])
  IN  after[Len(expression)]

FaultyLowerCondition(fn, tab, blk, cond, then, else) ==
  LET right == LowerExpression(Node(fn, tab, <<>>), blk, cond.right)
      left  == LowerExpression(Node(right.fn, right.table, <<>>), blk, cond.left)
      out   == NextValue(left.fn)
      cmp   == MkCmp(cond.kind, out, Result(right), Result(left))
  IN  Node(Emit(Emit(AllocValue(left.fn, None), blk, cmp), blk, MkBrTrue(out, then, else)),
           left.table, <<>>)

\* The guard of a loop or of an if: two operands, a comparison and a branch.
LowerCondition(fn, tab, blk, cond, then, else) ==
  LET left  == LowerExpression(Node(fn, tab, <<>>), blk, cond.left)
      right == LowerExpression(Node(left.fn, left.table, <<>>), blk, cond.right)
      out   == NextValue(right.fn)
      cmp   == MkCmp(cond.kind, out, Result(left), Result(right))
  IN  Node(Emit(Emit(AllocValue(right.fn, None), blk, cmp), blk, MkBrTrue(out, then, else)),
           right.table, <<>>)

---------------------------------------------------------------------------
Idle ==
  /\ input = <<>> /\ module = <<>> /\ ir = <<>> /\ table = <<>> /\ declared = 0
  /\ work = <<>> /\ block = 0 /\ phase = "dsl"

LoweringInit == DslInit /\ Idle

Function == input[Len(module) + 1]

\* immediatelyAssignedVariables: the targets of the leading assignments.
ImmediatelyAssigned(stmts) ==
  {stmts[k].target.name : k \in {j \in DOMAIN stmts : \A i \in 1 .. j : stmts[i].kind = "assign"}}

\* The leading assignments read a variable that one of them writes later: the
\* lowering has left its initial value out.
ReadsLeftOutValue(f) ==
  \E k \in DOMAIN f.statements :
    /\ \A j \in 1 .. k : f.statements[j].kind = "assign"
    /\ \E n \in DOMAIN f.statements[k].value :
         LET e == f.statements[k].value[n]
         IN  /\ e.node = "var" /\ e.variable.name \in ImmediatelyAssigned(f.statements)
             /\ \A j \in 1 .. k - 1 : f.statements[j].target # e.variable

\* The statements of a body, those of the bodies in it included.
BodiesOf(stmt) ==
  CASE stmt.kind = "while" -> stmt.body
    [] stmt.kind = "if"    -> stmt.thenBody \o stmt.elseBody
    [] OTHER               -> <<>>

AllStatements(stmts) ==
  LET at[depth \in 0 .. MaxNesting] ==
        IF depth = 0 THEN stmts
        ELSE FlattenSeq([k \in DOMAIN at[depth - 1] |-> BodiesOf(at[depth - 1][k])])
  IN  FlattenSeq([d \in 1 .. MaxNesting + 1 |-> at[d - 1]])

\* A variable of another function, which has no slot until it is read, is read
\* more than once, and first in a body: the block that writes its slot does not
\* dominate the rest of the function.
ReadsForeignSlot(f) ==
  LET Names == {f.variables[k].name : k \in DOMAIN f.variables}
      Reads(stmts) ==
        {k \in DOMAIN stmts : /\ stmts[k].kind \in {"assign", "return"} /\ stmts[k].value # None
                              /\ \E n \in DOMAIN stmts[k].value :
                                   LET e == stmts[k].value[n]
                                   IN  e.node = "var" /\ e.variable.name \notin Names}
  IN  /\ Cardinality(Reads(AllStatements(f.statements))) > 1
      /\ \E k \in DOMAIN f.statements :
           /\ Reads(AllStatements(BodiesOf(f.statements[k]))) # {}
           /\ Reads(f.statements) \cap 1 .. k = {}

\* Program::build calls lower() between two calls of the DSL.
Build ==
  /\ phase = "dsl" /\ Len(bodies) = 1
  /\ input' = Append(OtherFunctions, Built("main"))
  /\ module' = <<>> /\ phase' = "begin"
  /\ UNCHANGED <<dslVars, ir, table, declared, work, block>>

\* lowerFunction, up to its loop over the variables.
BeginFunction ==
  /\ phase = "begin"
  /\ ir' = AllocBlock([name |-> Function.name, blocks |-> <<>>, values |-> <<>>])
  /\ table' = <<>> /\ declared' = 0 /\ block' = 0
  /\ phase' = "declare"
  /\ UNCHANGED <<dslVars, input, module, work>>

FaultyDeclared(fn, v) ==
  LET const == NextValue(fn)
      slot  == const + 1
      alloc == AllocValue(AllocValue(fn, v.init), v.init)
  IN  [fn |-> Emit(Emit(alloc, 0, MkConst(const, v.init)), 0, MkCopy(slot, const)), slot |-> slot]

\* A variable gets a constant with its initial value and a slot it is copied
\* to, or just the slot when the function begins by assigning it.
Declared(fn, v) ==
  LET const == NextValue(fn)
      slot  == const + 1
      alloc == AllocValue(AllocValue(fn, v.init), None)
  IN  IF v.name \in ImmediatelyAssigned(Function.statements)
      THEN [fn |-> AllocValue(fn, None), slot |-> const]
      ELSE [fn |-> Emit(Emit(alloc, 0, MkConst(const, v.init)), 0, MkCopy(slot, const)),
            slot |-> slot]

DeclareVariable ==
  /\ phase = "declare" /\ declared < Len(Function.variables)
  /\ LET v == Function.variables[declared + 1]
         d == Declared(ir, v)
     IN  ir' = d.fn /\ table' = SetVariable(table, v.name, d.slot)
  /\ declared' = declared + 1
  /\ UNCHANGED <<dslVars, input, module, work, block, phase>>

\* A body being lowered: its statements still to do, and what ends it.
Pending(stmts, kind, target, after, else) ==
  [stmts |-> stmts, kind |-> kind, target |-> target, after |-> after, else |-> else]

BeginStatements ==
  /\ phase = "declare" /\ declared = Len(Function.variables)
  /\ work' = <<Pending(Function.statements, "function", None, None, <<>>)>>
  /\ phase' = "statements"
  /\ UNCHANGED <<dslVars, input, module, ir, table, declared, block>>

Innermost == work[Len(work)]

\* The next statement of the innermost body is of a kind.
Lowers(kind) == phase = "statements" /\ Innermost.stmts # <<>> /\ Head(Innermost.stmts).kind = kind

WithoutHead == [work EXCEPT ![Len(work)].stmts = Tail(@)]

FaultyLowerAssign ==
  /\ Lowers("assign")
  /\ LET stmt == Head(Innermost.stmts)
         s    == LowerExpression(Node(ir, table, <<>>), block, stmt.value)
     IN  ir' = s.fn /\ table' = SetVariable(s.table, stmt.target.name, Result(s))
  /\ work' = WithoutHead
  /\ UNCHANGED <<dslVars, input, module, declared, block, phase>>

LowerAssign ==
  /\ Lowers("assign")
  /\ LET stmt == Head(Innermost.stmts)
         s    == LowerExpression(Node(ir, table, <<>>), block, stmt.value)
     IN  /\ ir' = Emit(s.fn, block, MkCopy(s.table[stmt.target.name], Result(s)))
         /\ table' = s.table
  /\ work' = WithoutHead
  /\ UNCHANGED <<dslVars, input, module, declared, block, phase>>

LowerReturn ==
  /\ Lowers("return")
  /\ LET value == Head(Innermost.stmts).value
         s     == LowerExpression(Node(ir, table, <<>>), block, IF value = None THEN <<>> ELSE value)
     IN  /\ ir' = Emit(s.fn, block, MkRet(IF value = None THEN <<>> ELSE <<Result(s)>>))
         /\ table' = s.table
  /\ work' = WithoutHead
  /\ UNCHANGED <<dslVars, input, module, declared, block, phase>>

\* Each argument leaves its operand behind those of the arguments before it.
LowerCall ==
  /\ Lowers("call")
  /\ LET stmt == Head(Innermost.stmts)
         s    == LowerExpression(Node(ir, table, <<>>), block, FlattenSeq(stmt.args))
     IN  /\ ir' = Emit(s.fn, block, MkCall(stmt.callee, s.operands))
         /\ table' = s.table
  /\ work' = WithoutHead
  /\ UNCHANGED <<dslVars, input, module, declared, block, phase>>

LowerWhile ==
  /\ Lowers("while")
  /\ LET stmt == Head(Innermost.stmts)
         cond == NextBlock(ir)
         body == cond + 1
         s    == LowerCondition(Emit(AllocBlock(AllocBlock(AllocBlock(ir))), block, MkJmp(cond)),
                                table, cond, stmt.cond, body, body + 1)
     IN  /\ ir' = s.fn /\ table' = s.table
         /\ work' = Append(WithoutHead, Pending(stmt.body, "while", cond, body + 1, <<>>))
         /\ block' = body
  /\ UNCHANGED <<dslVars, input, module, declared, phase>>

LowerIf ==
  /\ Lowers("if")
  /\ LET stmt == Head(Innermost.stmts)
         then == NextBlock(ir)
         s    == LowerCondition(AllocBlock(AllocBlock(AllocBlock(ir))),
                                table, block, stmt.cond, then, then + 1)
     IN  /\ ir' = s.fn /\ table' = s.table
         /\ work' = Append(WithoutHead,
                           Pending(stmt.thenBody, "then", then + 2, then + 1, stmt.elseBody))
         /\ block' = then
  /\ UNCHANGED <<dslVars, input, module, declared, phase>>

FaultyEndBody ==
  /\ phase = "statements" /\ Innermost.stmts = <<>> /\ Innermost.kind # "function"
  /\ ir' = IF Innermost.kind = "then" THEN ir ELSE Emit(ir, block, MkJmp(Innermost.target))
  /\ block' = Innermost.after
  /\ work' = IF Innermost.kind = "then"
             THEN [work EXCEPT ![Len(work)] = Pending(@.else, "else", @.target, @.target, <<>>)]
             ELSE SubSeq(work, 1, Len(work) - 1)
  /\ UNCHANGED <<dslVars, input, module, table, declared, phase>>

\* The end of a body: a loop body jumps back to its condition, the two bodies
\* of an if to the block where they merge; the then body is followed by the
\* else body, the others by what comes after the statement.
EndBody ==
  /\ phase = "statements" /\ Innermost.stmts = <<>> /\ Innermost.kind # "function"
  /\ ir' = Emit(ir, block, MkJmp(Innermost.target))
  /\ block' = Innermost.after
  /\ work' = IF Innermost.kind = "then"
             THEN [work EXCEPT ![Len(work)] = Pending(@.else, "else", @.target, @.target, <<>>)]
             ELSE SubSeq(work, 1, Len(work) - 1)
  /\ UNCHANGED <<dslVars, input, module, table, declared, phase>>

EndFunction ==
  /\ phase = "statements" /\ Innermost.stmts = <<>> /\ Innermost.kind = "function"
  /\ module' = Append(module, [name |-> ir.name, blocks |-> ir.blocks, values |-> ir.values,
                               blockIndex |-> RebuildBlockIndex(ir.blocks)])
  /\ work' = <<>>
  /\ phase' = IF Len(module') = Len(input) THEN "built" ELSE "begin"
  /\ UNCHANGED <<dslVars, input, ir, table, declared, block>>

LoweringStep ==
  \/ BeginFunction \/ DeclareVariable \/ BeginStatements
  \/ LowerAssign \/ LowerReturn \/ LowerCall \/ LowerWhile \/ LowerIf
  \/ EndBody \/ EndFunction

LoweringNext ==
  \/ phase = "dsl" /\ DslNext /\ UNCHANGED loweringVars
  \/ Build
  \/ LoweringStep

LoweringSpec == LoweringInit /\ [][LoweringNext]_<<dslVars, loweringVars>>
---------------------------------------------------------------------------
\* What the types of the DSL say of a function.  In a tree's post-order every
\* node leaves an operand at least, and the last one the only operand.
Operands(nodes, n) ==
  Cardinality({k \in 1 .. n : nodes[k].node \in {"const", "var"}})
    - Cardinality({k \in 1 .. n : nodes[k].node = "bin"})

IsNode(e) ==
  \/ e.node = "const" /\ e.value \in RegValue
  \/ e.node = "var" /\ e.variable.init \in RegValue
  \/ e.node = "bin" /\ e.op \in BinaryOp
  \/ e.node = "unary"

IsForest(nodes, trees) ==
  /\ nodes \in Seq(ToSet(nodes)) /\ Operands(nodes, Len(nodes)) = trees
  /\ \A n \in DOMAIN nodes : IsNode(nodes[n]) /\ Operands(nodes, n) >= 1

IsExpression(nodes) == IsForest(nodes, 1)

IsCondition(cond) ==
  IsExpression(cond.left) /\ cond.kind \in CmpKind /\ IsExpression(cond.right)

\* A statement whose bodies consist of statements of a set, and that assigns
\* to variables of a set of names only.
StatementOK(stmt, stmts, names) ==
  \/ stmt.kind = "assign" /\ stmt.target.name \in names /\ IsExpression(stmt.value)
  \/ stmt.kind = "while" /\ IsCondition(stmt.cond) /\ stmt.body \in Seq(stmts)
  \/ /\ stmt.kind = "if" /\ IsCondition(stmt.cond)
     /\ stmt.thenBody \in Seq(stmts) /\ stmt.elseBody \in Seq(stmts)
  \/ stmt.kind = "return" /\ (stmt.value = None \/ IsExpression(stmt.value))
  \/ /\ stmt.kind = "call" /\ stmt.callee \in STRING
     /\ IsForest(FlattenSeq(stmt.args), Len(stmt.args))

Closed(stmts, names) == \A stmt \in stmts : StatementOK(stmt, stmts, names)

VariableNames(vs) == {vs[k].name : k \in DOMAIN vs}

IsFunction(f) ==
  LET stmts == ToSet(AllStatements(f.statements))
  IN  /\ f.name \in STRING /\ f.variables \in Seq(ToSet(f.variables))
      /\ \A k \in DOMAIN f.variables : f.variables[k].init \in RegValue
      /\ f.statements \in Seq(stmts) /\ Closed(stmts, VariableNames(f.variables))

\* What is put together from these is put together by the DSL's types; a call
\* names a function, and a constant is not the lack of one.
ASSUME LoweringAssumption ==
  /\ None \notin RegValue /\ InitValues \subseteq RegValue /\ Callees \subseteq STRING
  /\ OtherFunctions \in Seq(ToSet(OtherFunctions))
  /\ \A f \in ToSet(OtherFunctions) : IsFunction(f)
  /\ \A vs \in SUBSET [name : VarNames, init : InitValues] :
       /\ \A e \in Expressions(vs) : IsExpression(e)
       /\ \A c \in Conditions(vs) : IsCondition(c)

---------------------------------------------------------------------------
\* The functions lowered so far, and the one being lowered.
InProgress == phase \in {"declare", "statements"}
IRFunctions == {module[k] : k \in DOMAIN module} \cup {f \in {ir} : InProgress}

InstrsOf(fn) ==
  UNION {{fn.blocks[b].instrs[i] : i \in DOMAIN fn.blocks[b].instrs} : b \in DOMAIN fn.blocks}

\* What the lowering hands to the optimizer and the simulator is IR as
\* IRTypes.hpp describes it, and every value id in it was allocated.
LoweringTypeOK ==
  /\ phase \in Phase /\ block \in Nat /\ declared \in Nat
  /\ InProgress => block < Len(ir.blocks)
  /\ \A fn \in IRFunctions :
       /\ fn.blocks \in Seq(IRBlock(RegValue)) /\ fn.values \in Seq(Optional(RegValue))
       /\ \A instr \in InstrsOf(fn) :
            /\ \A k \in DOMAIN instr.inputs : instr.inputs[k] < Len(fn.values)
            /\ instr.output # None => instr.output < Len(fn.values)

\* A branch leads to a block that exists, under the id it is indexed by: the
\* simulator never meets UnreachableInstruction in a lowered function.
LoweredTargetsExist ==
  \A fn \in IRFunctions :
    /\ \A b \in DOMAIN fn.blocks : fn.blocks[b].id = b - 1
    /\ \A instr \in InstrsOf(fn) : \A t \in Targets(instr) : t \in 0 .. Len(fn.blocks) - 1

\* Control never falls off the end of a block by mistake (to the simulator
\* that is a return): a block without a terminator is the current one, or the
\* one where a body still being lowered will go on, and in the end at most the
\* block with the end of the function is left.
Terminated(blk) == \E i \in DOMAIN blk.instrs : IsTerminator(blk.instrs[i])

Expected(w) == {w.after} \cup {t \in {w.target} : w.kind = "then"}

NoFallThrough ==
  /\ InProgress => \A b \in DOMAIN ir.blocks :
       \/ Terminated(ir.blocks[b]) \/ b - 1 = block
       \/ \E k \in DOMAIN work : b - 1 \in Expected(work[k])
  /\ \A k \in DOMAIN module : \A b, c \in DOMAIN module[k].blocks :
       Terminated(module[k].blocks[b]) \/ Terminated(module[k].blocks[c]) \/ b = c

\* A value that has a constant is written by one kind of instruction only, the
\* Const of that constant: a variable, which other instructions write, never
\* has one.  The optimizer (Optimizer.tla, ConstantsSound) relies on it.
VariablesHaveNoConstant ==
  \A fn \in IRFunctions : \A instr \in InstrsOf(fn) :
    (instr.output # None /\ fn.values[instr.output + 1] # None) =>
      instr.op = "Const" /\ instr.constVal = fn.values[instr.output + 1]
===========================================================================
