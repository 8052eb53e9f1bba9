--------------------------- MODULE DslSemantics ---------------------------
(***************************************************************************)
(* What a program written with the DSL means: an execution of its          *)
(* statements, one at a time, on the values of its variables.  Nothing in  *)
(* the code does this; it is what the lowering has to preserve.            *)
(***************************************************************************)
EXTENDS IR, SequencesExt

CONSTANTS Program, \* the functions of the program
          BinaryOutcomes(_, _, _), UnaryResult(_, _), CompareResult(_, _, _),
          IsDivisionByZero(_, _), IsTrue(_)

FunctionNamed(name) == Program[CHOOSE k \in DOMAIN Program : Program[k].name = name]

\* The values of the variables, and the statements still to execute.
SourceFrame(f) ==
  [env  |-> [n \in {f.variables[k].name : k \in DOMAIN f.variables} |->
               f.variables[CHOOSE k \in DOMAIN f.variables :
                             /\ f.variables[k].name = n
                             /\ \A j \in k + 1 .. Len(f.variables) : f.variables[j].name # n].init],
   todo |-> f.statements]

\* The value of an expression, node by node; an error is kept.  An operation
\* whose result is undefined has some result.  A variable of another function
\* has its initial value.
Evaluate(env, expression) ==
  LET Push(s, consumed, x) == [s EXCEPT !.operands = Append(SubSeq(@, 1, Len(@) - consumed), x)]
      Visit(s, e) ==
        LET n == Len(s.operands)
        IN  CASE s.error # "none" -> s
              [] s.error = "none" /\ e.node = "const" -> Push(s, 0, e.value)
              [] s.error = "none" /\ e.node = "var"   ->
                   Push(s, 0, IF e.variable.name \in DOMAIN env THEN env[e.variable.name]
                              ELSE e.variable.init)
              [] s.error = "none" /\ e.node = "unary" ->
                   Push(s, 1, UnaryResult(IF e.op = "Neg" THEN "Neg" ELSE "Not", s.operands[n]))
              [] s.error = "none" /\ e.node = "bin" ->
                   IF IsDivisionByZero(e.op, s.operands[n])
                   THEN [s EXCEPT !.error = "DivisionByZero"]
                   ELSE Push(s, 2, CHOOSE x \in BinaryOutcomes(e.op, s.operands[n - 1],
                                                              s.operands[n]) : x # Trap)
  IN  FoldLeft(Visit, [operands |-> <<>>, error |-> "none"], expression)

Holds(env, cond) ==
  LET left == Evaluate(env, cond.left) right == Evaluate(env, cond.right)
  IN  IsTrue(CompareResult(cond.kind, left.operands[1], right.operands[1]))

\* The effect of one statement on the active calls.
SourceEffect(frames, returned, over, error) ==
  [stack |-> frames, returned |-> returned, done |-> over, error |-> error]

Leave(frames, returned) ==
  SourceEffect(SubSeq(frames, 1, Len(frames) - 1), returned, Len(frames) = 1, "none")

Execute(frames) ==
  LET frame == frames[Len(frames)]
      stmt  == Head(frame.todo)
      GoOn(env, stmts) ==
        SourceEffect([frames EXCEPT ![Len(frames)] = [env |-> env, todo |-> stmts \o Tail(frame.todo)]],
                     <<>>, FALSE, "none")
      Value(expression) == Evaluate(frame.env, expression)
      Valued(expression, effect) ==
        IF Value(expression).error = "none" THEN effect
        ELSE SourceEffect(frames, <<>>, FALSE, Value(expression).error)
  IN  IF frame.todo = <<>> THEN Leave(frames, <<>>)
      ELSE CASE stmt.kind = "assign" ->
                  Valued(stmt.value,
                         GoOn([frame.env EXCEPT ![stmt.target.name] = Value(stmt.value).operands[1]], <<>>))
             [] stmt.kind = "while" ->
                  GoOn(frame.env, IF Holds(frame.env, stmt.cond) THEN stmt.body \o <<stmt>> ELSE <<>>)
             [] stmt.kind = "if" ->
                  GoOn(frame.env, IF Holds(frame.env, stmt.cond) THEN stmt.thenBody ELSE stmt.elseBody)
             [] stmt.kind = "return" ->
                  IF stmt.value = None THEN Leave(frames, <<>>)
                  ELSE Valued(stmt.value, Leave(frames, Value(stmt.value).operands))
             [] stmt.kind = "call" ->
                  SourceEffect(Append(GoOn(frame.env, <<>>).stack, SourceFrame(FunctionNamed(stmt.callee))),
                               <<>>, FALSE, "none")
===========================================================================
