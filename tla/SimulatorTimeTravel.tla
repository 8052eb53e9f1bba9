------------------------- MODULE SimulatorTimeTravel -------------------------
(***************************************************************************)
(* The simulator is a debugger that can go back: its snapshots and current *)
(* state, without the copies that step() after rewind() leaves, are the    *)
(* path of TimeTravel.                                                     *)
(***************************************************************************)
EXTENDS Simulator

\* The last of each row of equal states, and the i-th number of a set.
Lasts(states) == {k \in DOMAIN states : k = Len(states) \/ states[k] # states[k + 1]}

Rank(S, k) == Cardinality({j \in S : j <= k})
Nth(S, i)  == CHOOSE k \in S : Rank(S, k) = i

WithoutCopies(states) ==
  [i \in 1 .. Cardinality(Lasts(states)) |-> states[Nth(Lasts(states), i)]]

Debugger == INSTANCE TimeTravel WITH
  path   <- WithoutCopies(Append(history, callStack)),
  Starts <- {<<>>} \cup {<<EntryFrame(name)>> : name \in FunctionNames},
  Succ   <- Successors

\* Every mixture of run, step, rewind and reset moves along executions only:
\* rewinding shows a state the execution went through, and stepping on from it
\* extends the execution from there (Simulator.cpp, run, step, rewind).
ImplementsTimeTravel == Debugger!Spec
=============================================================================
