--------------------------- MODULE Compile_proofs ---------------------------
(***************************************************************************)
(* The front end composed with the simulator leaves the lowering as it is. *)
(***************************************************************************)
EXTENDS Compile, TLAPS

\* Executing what was lowered does not disturb it: every behaviour of the front
\* end with the simulator is one of the lowering, so all of the above holds of
\* the functions that are executed.
THEOREM CompileIsLowering == Spec => LoweringSpec
<1>1. Init => LoweringInit
  BY DEF Init
<1>2. [Next]_compileVars => [LoweringNext]_<<dslVars, loweringVars>>
  BY DEF Next, compileVars, Lower, Begin, ExecuteSource, ExecuteTarget
<1> QED BY <1>1, <1>2, PTL DEF Spec, LoweringSpec
=============================================================================
