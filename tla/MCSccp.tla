------------------------------- MODULE MCSccp -------------------------------
(***************************************************************************)
(* Functions as mem2reg leaves them, called with small arguments and with  *)
(* the extremes of the scaled types; the last two are accepted by the type *)
(* checker although their operators do not fit their operands.             *)
(***************************************************************************)
EXTENDS SccpSound, Programs

WellTypedFunctions ==
  {sccp01_ssa, invariant_ssa, breakout_ssa, shortcut_ssa, divzero_ssa,
   calls1_ssa, calls2_ssa, deadcond_ssa, counter_ssa, merge_ssa, wraps_ssa,
   unused2_ssa, latecomer_ssa, signs_ssa}

ASSUME WellTypedAssumption == \A f \in WellTypedFunctions : WellTyped(f)

MCFunctions == WellTypedFunctions \cup {boolplus_ssa, intand_ssa}
MCSamples == {0, 1, 2, 5, 4095}
=============================================================================
