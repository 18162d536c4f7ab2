----------------------------- MODULE MCPipeline -----------------------------
(* The handler threads on a few turns; the bounds are in MCPipeline*.cfg.  *)
EXTENDS Pipeline
=============================================================================
