------------------------------- MODULE CfgDot -------------------------------
(***************************************************************************)
(* The control-flow graph toDot() draws of a function (CfgDot.cpp): one    *)
(* node for each block, an edge for each target of each instruction.  The  *)
(* text of labels and nodes is left out.                                   *)
(*                                                                         *)
(* Definitions named Faulty... are slips the code could have made; nothing *)
(* uses them but the mutation runs.                                        *)
(***************************************************************************)
EXTENDS IR

Nodes(fn) == {fn.blocks[b].id : b \in DOMAIN fn.blocks}

Edge(from, to, label) == [from |-> from, to |-> to, label |-> label]

FaultyEdgesOf(id, instr) ==
  IF instr.trueTarget # None THEN {Edge(id, instr.trueTarget, IF instr.op = "BrTrue" THEN "T" ELSE "")}
  ELSE IF instr.falseTarget # None THEN {Edge(id, instr.falseTarget, "F")} ELSE {}

EdgesOf(id, instr) ==
  {e \in {Edge(id, instr.trueTarget, IF instr.op = "BrTrue" THEN "T" ELSE ""),
          Edge(id, instr.falseTarget, "F")} : e.to # None}

Edges(fn) ==
  UNION {UNION {EdgesOf(fn.blocks[b].id, fn.blocks[b].instrs[i]) : i \in DOMAIN fn.blocks[b].instrs} :
         b \in DOMAIN fn.blocks}
=============================================================================
