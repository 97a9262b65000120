-------------------------- MODULE MCPipelineScope ---------------------------
(***************************************************************************)
(* A variable declared in the body of a loop, as in the let statements of  *)
(* blocks that docs/language.md describes.                                 *)
(***************************************************************************)
EXTENDS Pipeline, Programs

MCJobs == {scope_cfg} \X {default_pipeline}
MCSamples == {0, 2}
=============================================================================
