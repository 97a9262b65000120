--------------------------- MODULE MCSimplifyMax ----------------------------
EXTENDS SimplifySound, Programs

MCFunctions == {max_dce}
MCSamples == {0, 1, 2}
=============================================================================
