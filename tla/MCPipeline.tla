----------------------------- MODULE MCPipeline -----------------------------
(***************************************************************************)
(* Functions as the CFG builder leaves them, through the default pipeline  *)
(* and, where every block can be reached, through the web page's.          *)
(***************************************************************************)
EXTENDS Pipeline, Programs

Lowered == {sccp01_cfg, breakout_cfg, shortcut_cfg, divzero_cfg, calls2_cfg, deadcond_cfg,
            counter_cfg, merge_cfg, wraps_cfg, deadcalls2_cfg, latecomer_cfg, joined_cfg,
            rotate2_cfg, afterret_cfg}

Offered == {optimize({}), optimize({"sccp", "simplify_cfg"}),
            optimize({"sccp", "dce", "simplify_cfg"})}

MCJobs == (Lowered \X {default_pipeline})
            \cup ({f \in Lowered : Reachable(f) = Range(f.order)} \X Offered)
MCSamples == {0, 2, 4095}
=============================================================================
