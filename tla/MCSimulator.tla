---------------------------- MODULE MCSimulator ----------------------------
(***************************************************************************)
(* Small IR modules on which the simulator is checked.                     *)
(***************************************************************************)
EXTENDS SimulatorTimeTravel, Values

Fn(name, nvalues, blocks) ==
  [name |-> name, values |-> [v \in 1 .. nvalues |-> None],
   blocks |-> [b \in 1 .. Len(blocks) |-> [id |-> b - 1, instrs |-> blocks[b]]]]

\* A loop without end, a loop that counts down and returns with the fifth
\* instruction, recursion without end, and a function that returns with the
\* first instruction past the limit.
Spin    == Fn("spin", 0, << <<MkJmp(0)>> >>)
Count   == [Fn("count", 2, << <<MkBinary("Sub", 0, 0, 1), MkBrTrue(0, 0, None), MkRet(<<0>>)>> >>)
            EXCEPT !.values = <<I64(2), I64(1)>>]
Recurse == Fn("recurse", 0, << <<MkCall("recurse", <<>>), MkRet(<<>>)>> >>)
Late    == Fn("late", 1, << [i \in 1 .. MaxSteps + 1 |->
                              IF i <= MaxSteps THEN Blank("Load") ELSE MkRet(<<>>)] >>)

\* A function that returns a value, and its callers: one that returns nothing,
\* one whose call is not the last instruction of a block without terminator.
Callee  == Fn("callee", 2, << <<MkConst(0, I64(2)), MkUnary("Neg", 1, 0), MkRet(<<1>>)>> >>)
Procedure == Fn("procedure", 0, << <<MkCall("callee", <<>>), MkRet(<<>>)>> >>)
FallOff == Fn("falloff", 1, << <<MkCall("leaf", <<>>), MkConst(0, U64(1)), MkCmp("Le", 0, 0, 0)>> >>)
Leaf    == Fn("leaf", 0, << <<Blank("Load")>> >>)

\* Failures: division by zero, a value never written, an unknown callee, a
\* jump to a block that does not exist; and a branch with no false target.
Divide  == [Fn("divide", 3, << <<MkBinary("Div", 2, 0, 1), MkRet(<<2>>)>> >>)
            EXCEPT !.values = <<I64(3), I64(0), None>>]
Unread  == Fn("unread", 2, << <<MkCopy(1, 0), Blank("Const"), MkRet(<<0>>)>> >>)
Unknown == Fn("unknown", 0, << <<MkCall("nowhere", <<>>)>> >>)
Astray  == Fn("astray", 1, << <<MkConst(0, Bool(FALSE)), MkBrTrue(0, 1, None), MkJmp(7)>> >>)

\* Two functions with one name: the second one runs, with block 1 found at the
\* index it has in the first one.
Twin1   == Fn("twin", 1, << <<MkRet(<<>>)>>, <<MkRet(<<>>)>> >>)
Twin2   == [Fn("twin", 1, << <<MkJmp(1)>>, <<MkJmp(2)>>, <<MkRet(<<>>)>> >>)
            EXCEPT !.blocks[2].id = 2, !.blocks[3].id = 1]

\* A bool divisor is not checked.
Unchecked == [Fn("unchecked", 3, << <<MkBinary("Div", 2, 0, 1), MkRet(<<2>>)>> >>)
              EXCEPT !.values = <<I64(3), Bool(FALSE), None>>]

\* A function of one instruction, and a call with an output.
Nothing  == Fn("nothing", 0, << <<MkRet(<<>>)>> >>)
Assigned == Fn("assigned", 1, << <<[MkCall("callee", <<>>) EXCEPT !.output = 0], MkRet(<<0>>)>> >>)

Everything == <<Spin, Count, Recurse, Late, Callee, Procedure, FallOff, Leaf, Divide, Unread,
                Unknown, Astray, Twin1, Twin2, Unchecked>>
Calls   == <<Callee, Procedure>>
Divides == <<Unchecked>>
Assigns == <<Callee, Assigned>>
Single   == <<Nothing>>
===========================================================================
