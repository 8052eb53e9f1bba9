------------------------------ MODULE Explain ------------------------------
(***************************************************************************)
(* The numbers explain() reports of a function (Explain.cpp); their        *)
(* wording is left out.                                                    *)
(*                                                                         *)
(* Definitions named Faulty... are slips the code could have made; nothing *)
(* uses them but the mutation runs.                                        *)
(***************************************************************************)
EXTENDS IR, FiniteSets

Places(fn) == UNION {{<<b, i>> : i \in DOMAIN fn.blocks[b].instrs} : b \in DOMAIN fn.blocks}
At(fn, place) == fn.blocks[place[1]].instrs[place[2]]

FaultyCountLoops(fn) ==
  Cardinality({p \in Places(fn) : /\ At(fn, p).op = "BrTrue" /\ At(fn, p).trueTarget # None
                                  /\ At(fn, p).trueTarget <= fn.blocks[p[1]].id})

\* "A back-edge (jump to a block with an equal or smaller index)".
CountLoops(fn) ==
  Cardinality({p \in Places(fn) : /\ At(fn, p).trueTarget # None
                                  /\ At(fn, p).trueTarget <= fn.blocks[p[1]].id})

CountOps(fn, ops) == Cardinality({p \in Places(fn) : At(fn, p).op \in ops})

FaultyCountBranches(fn) == CountOps(fn, {"BrTrue", "Jmp"})
CountBranches(fn) == CountOps(fn, {"BrTrue"})

HasReturnInstruction(fn) == CountOps(fn, {"Ret"}) > 0

ReturnsValue(fn) == \E p \in Places(fn) : At(fn, p).op = "Ret" /\ At(fn, p).inputs # <<>>

\* countInstructionTypes; to isArithmetic(), Not is no arithmetic.
CountInstructionTypes(fn) ==
  [arithmetic   |-> CountOps(fn, BinaryOp \cup {"Neg"}),
   comparisons  |-> CountOps(fn, {"Cmp"}),
   calls        |-> CountOps(fn, {"Call"}),
   memoryLoads  |-> CountOps(fn, {"Load"}),
   memoryStores |-> CountOps(fn, {"Store"})]
=============================================================================
