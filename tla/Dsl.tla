-------------------------------- MODULE Dsl --------------------------------
(***************************************************************************)
(* Building a function with the DSL (Function.hpp, Function.cpp).  Control *)
(* statements take their bodies as callbacks: whileLoop() and ifElse()     *)
(* redirect m_currentBody to a local list of statements, call the body,    *)
(* which calls the DSL again, and put m_currentBody back.  The calls under *)
(* way are a stack; a callback may nest as deep as its writer likes.       *)
(*                                                                         *)
(* An expression tree is represented by its nodes in post-order, the order *)
(* in which everything that reads it visits them.                          *)
(***************************************************************************)
EXTENDS IR

CONSTANTS VarNames, InitValues, \* names and initial values of variables
          Expressions(_),       \* the expressions tried over a set of variables
          Conditions(_),        \* the conditions tried over a set of variables
          Callees,              \* the functions a call() may name
          MaxVariables, MaxCalls, MaxNesting, \* bounds: variables, statements, open bodies,
          MaxSize               \* and two for each variable, one for each statement

VARIABLES variables, \* m_vars, in order of creation
          bodies,    \* the open bodies, innermost last; m_currentBody is the last
          calls      \* how many statements were begun (not in the code)

dslVars == <<variables, bodies, calls>>

Variable(name, init) == [name |-> name, init |-> init]

\* Nodes of an expression (Expr.hpp).
ConstExpr(c) == [node |-> "const", value |-> c]
VarExpr(v)   == [node |-> "var", variable |-> v]
BinExpr(op)  == [node |-> "bin", op |-> op]
UnaryExpr(op) == [node |-> "unary", op |-> op]

\* A Condition compares two operands, each a variable or a constant.
Condition(left, kind, right) == [left |-> left, kind |-> kind, right |-> right]

\* Statements (Stmt.hpp).
AssignStmt(target, value) == [kind |-> "assign", target |-> target, value |-> value]
WhileStmt(cond, body)     == [kind |-> "while", cond |-> cond, body |-> body]
IfStmt(cond, then, else)  == [kind |-> "if", cond |-> cond, thenBody |-> then, elseBody |-> else]
ReturnStmt(value)         == [kind |-> "return", value |-> value]
CallStmt(callee, args)    == [kind |-> "call", callee |-> callee, args |-> args]

\* A body under construction, and what is kept for the statement it is for.
Body(kind, cond, then) == [kind |-> kind, cond |-> cond, thenStmts |-> then, stmts |-> <<>>]

---------------------------------------------------------------------------
DslInit == variables = <<>> /\ bodies = <<Body("function", None, <<>>)>> /\ calls = 0

Known == {variables[k] : k \in DOMAIN variables}
Current == bodies[Len(bodies)]

\* pushStmt, and pushStmt after the innermost body is closed.
PushStmt(stack, stmt) == [stack EXCEPT ![Len(stack)].stmts = Append(@, stmt)]
CloseWith(stmt) == PushStmt(SubSeq(bodies, 1, Len(bodies) - 1), stmt)

Fits(size) == size + 2 * Len(variables) + calls <= MaxSize

CreateVariable(name, init) ==
  /\ Len(variables) < MaxVariables /\ Fits(2)
  /\ variables' = Append(variables, Variable(name, init))
  /\ UNCHANGED <<bodies, calls>>

Push(stmt) ==
  /\ calls < MaxCalls /\ Fits(1) /\ calls' = calls + 1
  /\ bodies' = PushStmt(bodies, stmt)
  /\ UNCHANGED variables

Assign(target, value) == Push(AssignStmt(target, value))
Ret(value)            == Push(ReturnStmt(value))
CallFn(callee, args)  == Push(CallStmt(callee, args))

Open(body) ==
  /\ calls < MaxCalls /\ Fits(1) /\ Len(bodies) <= MaxNesting
  /\ calls' = calls + 1
  /\ bodies' = Append(bodies, body)
  /\ UNCHANGED variables

\* whileLoop: before and after its body is called.
WhileLoop(cond) == Open(Body("while", cond, <<>>))

EndWhile ==
  /\ Current.kind = "while"
  /\ bodies' = CloseWith(WhileStmt(Current.cond, Current.stmts))
  /\ UNCHANGED <<variables, calls>>

\* ifElse: before its first body, between the two, and after the second.
IfElse(cond) == Open(Body("then", cond, <<>>))

ElseBody ==
  /\ Current.kind = "then"
  /\ bodies' = [bodies EXCEPT ![Len(bodies)] = Body("else", @.cond, @.stmts)]
  /\ UNCHANGED <<variables, calls>>

EndIf ==
  /\ Current.kind = "else"
  /\ bodies' = CloseWith(IfStmt(Current.cond, Current.thenStmts, Current.stmts))
  /\ UNCHANGED <<variables, calls>>

DslNext ==
  \/ \E name \in VarNames, init \in InitValues : CreateVariable(name, init)
  \/ \E target \in Known, value \in Expressions(Known) : Assign(target, value)
  \/ \E cond \in Conditions(Known) : WhileLoop(cond)
  \/ EndWhile
  \/ \E cond \in Conditions(Known) : IfElse(cond)
  \/ ElseBody
  \/ EndIf
  \/ \E value \in Expressions(Known) \cup {None} : Ret(value)
  \/ \E callee \in Callees : CallFn(callee, <<>>)

\* The function as it stands when no body is open.
Built(name) == [name |-> name, variables |-> variables, statements |-> bodies[1].stmts]
===========================================================================
