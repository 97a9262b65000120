------------------------------- MODULE MCDce -------------------------------
EXTENDS Dce, Programs

MCFunctions ==
  {sccp01_ssa, sccp01_sccp, invariant_ssa, breakout_sccp, shortcut_sccp,
   divzero_sccp, calls2_ssa, counter_ssa, deadcalls2_ssa}
=============================================================================
