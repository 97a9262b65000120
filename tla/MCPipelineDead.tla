--------------------------- MODULE MCPipelineDead ---------------------------
(***************************************************************************)
(* Statements after a return, a condition among them.                      *)
(***************************************************************************)
EXTENDS Pipeline, Programs

MCJobs == {dead_cfg} \X {default_pipeline}
MCSamples == {0, 2}
=============================================================================
