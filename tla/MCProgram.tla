----------------------------- MODULE MCProgram -----------------------------
(***************************************************************************)
(* Programs of one function, of a few DSL calls, built, changed and        *)
(* optimized.                                                              *)
(***************************************************************************)
EXTENDS Program

One  == I64(1)
Zero == I64(0)

InitialValues == {Zero, One}
JustOne == {One}

\* A function to call: it returns its variable.
Counter == Variable("n", One)
Leaf == [name |-> "leaf", variables |-> <<Counter>>, statements |-> <<ReturnStmt(<<VarExpr(Counter)>>)>>]
Library == <<Leaf>>

\* 1, -(v + v) and 1 / v.
SomeExpressions(vs) ==
  {<<ConstExpr(One)>>} \cup
  UNION {{<<VarExpr(v), VarExpr(v), BinExpr("Add"), UnaryExpr("Neg")>>,
          <<ConstExpr(One), VarExpr(v), BinExpr("Div")>>} : v \in vs}

\* v < 1, and the constant 1 < 1.
SomeConditions(vs) ==
  UNION {{Condition(<<VarExpr(v)>>, "Lt", <<ConstExpr(One)>>),
          Condition(<<ConstExpr(One)>>, "Lt", <<ConstExpr(One)>>)} : v \in vs}

AllLevels == {Opt!Basic, Opt!Aggressive}
=============================================================================
