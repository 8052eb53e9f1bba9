----------------------------- MODULE TimeTravel -----------------------------
(***************************************************************************)
(* What a debugger that can go back promises: at any time it shows the     *)
(* last state of an execution.  It may begin one, extend it by a step,     *)
(* return to an earlier state of it, or forget how it got where it is.     *)
(***************************************************************************)
EXTENDS Sequences, Naturals

CONSTANTS Starts,  \* the states an execution begins in, and the idle state
          Succ(_)  \* the states one step leads to

VARIABLE path

Shown == path[Len(path)]

Init == \E s \in Starts : path = <<s>>

Begin   == path' \in {<<s>> : s \in Starts}
Forward == path' \in {Append(path, t) : t \in Succ(Shown)}
Back    == path' \in {SubSeq(path, 1, k) : k \in 1 .. Len(path) - 1}
Forget  == path' = <<Shown>>

Next == Begin \/ Forward \/ Back \/ Forget

Spec == Init /\ [][Next]_path
=============================================================================
