------------------------------ MODULE MCParser ------------------------------
(* Short texts over one character of each class, and longer ones over the
   characters of which labels, instructions and operands are made. *)
EXTENDS Parser

TextsOver(S, n) == UNION {[1..k -> S] : k \in 0..n}

Mnemonics == {<<"m">>}

AllClasses == TextsOver({"m", "r", "3", "-", ",", ":", ";", " ", "\n", "?"}, 4)
Operands   == TextsOver({"m", "-", ",", "\n"}, 6)
LabelLines == TextsOver({"m", "-", ":", "\n"}, 6)

SomeTexts  == AllClasses \cup Operands \cup LabelLines
=============================================================================
