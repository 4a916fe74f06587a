----------------------------- MODULE MCPipeline -----------------------------
(* Pipeline with the parameters of the configuration MCPipeline.cfg: three  *)
(* frames of three full chunks, one more than the receiver expects, as the  *)
(* 75 chunks of a picture and TOTAL_CHUNKS are.                             *)
EXTENDS Pipeline
=============================================================================
