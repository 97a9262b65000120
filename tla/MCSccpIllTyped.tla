--------------------------- MODULE MCSccpIllTyped ---------------------------
(***************************************************************************)
(* Functions that the type checker of the compiler lets through although   *)
(* their operators do not work on the types of their operands.             *)
(***************************************************************************)
EXTENDS Sccp, Programs

MCFunctions == {boolplus_ssa, intand_ssa}
=============================================================================
