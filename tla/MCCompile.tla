----------------------------- MODULE MCCompile -----------------------------
(***************************************************************************)
(* Every function the DSL can build in a few calls, from a few expressions *)
(* and conditions.                                                         *)
(***************************************************************************)
EXTENDS Compile

One  == I64(1)
Zero == I64(0)

InitialValues == {Zero, One}

\* A function to call: it returns its variable.
Counter == Variable("n", One)
Leaf == [name |-> "leaf", variables |-> <<Counter>>, statements |-> <<ReturnStmt(<<VarExpr(Counter)>>)>>]
Library == <<Leaf>>

\* Of two variables, 1, v, 1 / v and ~v; of a single one, -(v + v) and the
\* variable of the other function, whose initial value is 1.
Quotients(vs) ==
  {<<ConstExpr(One)>>} \cup
  UNION {{<<VarExpr(v)>>, <<VarExpr(v), UnaryExpr("BitNot")>>,
          <<ConstExpr(One), VarExpr(v), BinExpr("Div")>>} : v \in vs}
Sums(vs) ==
  {<<VarExpr(Counter)>>} \cup
  {<<VarExpr(v), VarExpr(v), BinExpr("Add"), UnaryExpr("Neg")>> : v \in vs}

NameSymmetry == Permutations(VarNames)

SumsOrQuotients(vs) == IF Cardinality(vs) <= 1 THEN Sums(vs) ELSE Quotients(vs)

\* v < 1.
SomeConditions(vs) == {Condition(<<VarExpr(v)>>, "Lt", <<ConstExpr(One)>>) : v \in vs}
=============================================================================
