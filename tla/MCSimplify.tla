----------------------------- MODULE MCSimplify -----------------------------
EXTENDS SimplifySound, Programs

\* As the CFG builder leaves them, for the first run of the pass, and as dead
\* code elimination leaves them, for the second.
BuiltFunctions == {breakout_cfg, shortcut_cfg, counter_cfg, merge_cfg, nested_cfg,
                   spinif_cfg}
SweptFunctions == {sccp01_dce, breakout_dce, shortcut_dce, deadcond_dce, counter_dce,
                   merge_dce, joined_dce}

MCFunctions == BuiltFunctions \cup SweptFunctions
MCSamples == {0, 1, 2, 5, 4095}
=============================================================================
